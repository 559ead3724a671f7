---------------------------- MODULE CnmCoreProofs ----------------------------
(****************************************************************************)
(* Proofs about CnmCore, for every depth of the pipelines, size of the      *)
(* register files, width of DQ and distance of commands.                    *)
(*                                                                          *)
(* The argument: of a clock cycle only a few registers matter here.  The    *)
(* interface unit counts the words of a register write while the driver     *)
(* puts them on DQ (SerialInStep); no command starts in between, so the row *)
(* stays selected (RegistersInv) and both counters return to zero together. *)
(* The program counter stays inside the CRF because every JUMP leads back   *)
(* inside the program (Placed), which a write of the host to the CRF keeps. *)
(* From this invariant every cycle moves program, program counter, loop and *)
(* NOP counters exactly as CnmISA says (ProgramPath).                       *)
(****************************************************************************)
EXTENDS CnmCore, TLAPS, SequenceTheorems

(* A pipeline of n registers is a sequence of length n, and stays one when  *)
(* a register is replaced or the pipeline shifts.                           *)
LEMMA StagesLen ==
    ASSUME NEW f, NEW n \in Nat, Stages(f, n)
    PROVE  /\ f \in Seq({f[k] : k \in 1..n}) /\ Len(f) = n
<1> DEFINE S == {f[k] : k \in 1..n}
<1>1. f \in [1..n -> S]
  BY DEF Stages
<1> HIDE DEF S
<1>2. f \in Seq(S)
  <2>1. f \in UNION {[1..m -> S] : m \in Nat}
    BY <1>1
  <2>2. Seq(S) = UNION {[1..m -> S] : m \in Nat}
    BY SeqDef
  <2> QED
    BY <2>1, <2>2
<1>3. Len(f) \in Nat /\ 1..Len(f) = 1..n
  BY <1>1, <1>2, LenProperties
<1>4. Len(f) = n
  BY <1>3
<1> QED
  BY <1>2, <1>4 DEF S

(* A sequence is a pipeline of its length.                                  *)
LEMMA StagesOfSeq ==
    ASSUME NEW S, NEW f \in Seq(S)
    PROVE  Stages(f, Len(f))
<1>1. f \in [1..Len(f) -> S]
  BY LenProperties
<1> QED
  BY <1>1 DEF Stages

(* Replacing a register keeps the length of a pipeline.                     *)
LEMMA StagesExcept ==
    ASSUME NEW f, NEW n \in Nat, Stages(f, n), NEW k, NEW e
    PROVE  Stages([f EXCEPT ![k] = e], n)
<1> DEFINE g == [f EXCEPT ![k] = e]
<1>1. g = [j \in 1..n |-> g[j]]
  BY DEF Stages
<1> HIDE DEF g
<1>2. g \in [1..n -> {g[j] : j \in 1..n}]
  BY <1>1
<1> QED
  BY <1>2 DEF Stages, g

(* A shift keeps the length of a pipeline (fp_adder, fp_multiplier).        *)
LEMMA StagesShift ==
    ASSUME NEW f, NEW n \in Nat \ {0}, Stages(f, n), NEW en, NEW x
    PROVE  Stages(Shift(f, en, x), n)
<1> DEFINE S == {f[k] : k \in 1..n} \cup {x}
           t == SubSeq(f, 1, Len(f) - 1)
           g == <<x>> \o t
<1>1. f \in Seq({f[k] : k \in 1..n}) /\ Len(f) = n
  BY StagesLen
<1>2. \A i \in 1..(n - 1) : f[i] \in S
  OBVIOUS
<1>3. <<x>> \in Seq(S) /\ Len(<<x>>) = 1
  BY DEF S
<1> HIDE DEF S
<1>4. t \in Seq(S) /\ Len(t) = n - 1
  <2>1. SubSeq(f, 1, n - 1) \in Seq(S)
        /\ Len(SubSeq(f, 1, n - 1)) = IF 1 <= n - 1 THEN (n - 1) - 1 + 1 ELSE 0
    BY <1>2, SubSeqProperties
  <2> QED
    BY <1>1, <2>1
<1> HIDE DEF t
<1>5. g \in Seq(S) /\ Len(g) = n
  BY <1>3, <1>4, ConcatProperties
<1> HIDE DEF g
<1>6. Stages(g, n)
  BY <1>5, StagesOfSeq
<1> QED
  BY <1>6 DEF Shift, g, t

-----------------------------------------------------------------------------
(* What a clock cycle does to the registers of the interface unit and of    *)
(* the driver of DQ, register by register.                                  *)
LEMMA SerialFields ==
    ASSUME NEW s, NEW c
    PROVE  /\ Step(s, c).grf_wr_cnt = Interface(s, c).cnt
           /\ Step(s, c).ser2par = Interface(s, c).ser2par
           /\ Step(s, c).row = Interface(s, c).row
           /\ Step(s, c).DQCycle = IF c.cmd = "WR" /\ c.row \in GRFs THEN 1
                                   ELSE IF s.DQCycle = 0 THEN 0
                                   ELSE (s.DQCycle + 1) % DQ_CLK
           /\ Step(s, c).DQn = IF c.cmd = "WR" /\ c.row \in GRFs THEN c.n ELSE s.DQn
  BY DEF Step

Decodes(s, c) == Interface(s, c).decode_en /\ s.nop_cnt = 0

(* The control path: the registers that Control gives when an instruction   *)
(* is decoded, else only the NOP counter moves.                             *)
LEMMA ControlFields ==
    ASSUME NEW s, NEW c
    PROVE  /\ Decodes(s, c) =>
                /\ Step(s, c).pc = Control(s, Fetch(s.crf, s.pc)).pc
                /\ Step(s, c).jmp_act = Control(s, Fetch(s.crf, s.pc)).jmp_act
                /\ Step(s, c).jmp_cnt = Control(s, Fetch(s.crf, s.pc)).jmp_cnt
                /\ Step(s, c).nop_cnt = Control(s, Fetch(s.crf, s.pc)).nop_cnt
           /\ ~Decodes(s, c) =>
                /\ Step(s, c).pc = s.pc /\ Step(s, c).jmp_act = s.jmp_act
                /\ Step(s, c).jmp_cnt = s.jmp_cnt
                /\ Step(s, c).nop_cnt = IF s.nop_cnt = 0 THEN 0 ELSE s.nop_cnt - 1
  BY DEF Step, Decodes

(* The program changes only by a write of the host to the CRF.              *)
LEMMA CRFField ==
    ASSUME NEW s, NEW c
    PROVE  Step(s, c).crf = IF Interface(s, c).rf_access /\ Interface(s, c).row = "CRF"
                            THEN [s.crf EXCEPT ![Interface(s, c).idx] = c.data]
                            ELSE s.crf
  BY DEF Step

(* A cycle keeps the size of every register file.                           *)
LEMMA FilesField ==
    ASSUME NEW s, NEW c, NEW rf \in RFs
    PROVE  DOMAIN Step(s, c)[rf] = DOMAIN s[rf]
<1>1. DOMAIN Step(s, c)["GRF_A"] = DOMAIN s["GRF_A"]
  BY DEF Step
<1>2. DOMAIN Step(s, c)["GRF_B"] = DOMAIN s["GRF_B"]
  BY DEF Step
<1>3. DOMAIN Step(s, c)["SRF_M"] = DOMAIN s["SRF_M"]
  BY DEF Step
<1>4. DOMAIN Step(s, c)["SRF_A"] = DOMAIN s["SRF_A"]
  BY DEF Step
<1> QED
  BY <1>1, <1>2, <1>3, <1>4 DEF RFs, GRFs, SRFs

(* The multiplier pipeline shifts or stays.                                 *)
LEMMA MultField ==
    ASSUME NEW s, NEW c
    PROVE  \E en, x : Step(s, c).mult = Shift(s.mult, en, x)
  BY DEF Step

(* The adder pipeline shifts or stays.                                      *)
LEMMA AddField ==
    ASSUME NEW s, NEW c
    PROVE  \E en, x : Step(s, c).add = Shift(s.add, en, x)
  BY DEF Step
-----------------------------------------------------------------------------
(* A command of a register of bank "row", of a register file or of the CRF. *)
BankAccess(c) == c.cmd \in {"RD", "WR"} /\ c.row \in Banks
FileAccess(c) == c.cmd = "WR" /\ c.row \in RFs
CRFAccess(c) ==
    /\ c.cmd = "WR" /\ c.row = "CRF"
    /\ c.idx \in 0..(CRF_ENTRIES - 1) /\ Placed(c.data, c.idx)

(* The fields of the idle command.                                          *)
LEMMA IdleIs == Idle.cmd = "none" /\ Idle.row = "-"
  BY DEF Idle

(* Every step is a clock cycle, idle or with one command, and no command    *)
(* starts while a register is on DQ.                                        *)
LEMMA StepIs ==
    ASSUME Next
    PROVE  \E c : /\ Cycle(c)
                  /\ \/ c = Idle
                     \/ /\ issued < MaxCmds /\ core.DQCycle = 0
                        /\ BankAccess(c) \/ FileAccess(c) \/ CRFAccess(c)
<1>1. CASE IdleCycle
  BY <1>1 DEF IdleCycle
<1>2. ASSUME NEW a \in Accesses, NEW aam \in AAMs, BankCommand(a[1], a[2], aam)
      PROVE  \E c : Cycle(c) /\ issued < MaxCmds /\ core.DQCycle = 0 /\ BankAccess(c)
  <2> DEFINE c == Access(a[1], a[2], aam[1], aam[2], issued + 1)
  <2>1. Cycle(c) /\ issued < MaxCmds /\ core.DQCycle = 0
    BY <1>2 DEF BankCommand
  <2>2. a[1] \in {"RD", "WR"} /\ a[2] \in Banks
    BY ProgramsAssumption
  <2>3. BankAccess(c)
    BY <2>2 DEF Access, Idle, BankAccess
  <2> HIDE DEF c
  <2> QED
    BY <2>1, <2>3
<1>3. ASSUME NEW w \in RFWrites, RegisterCommand(w[1], w[2])
      PROVE  \E c : Cycle(c) /\ issued < MaxCmds /\ core.DQCycle = 0 /\ FileAccess(c)
  <2> DEFINE c == WriteRF(w[1], w[2], issued + 1)
  <2>1. Cycle(c) /\ issued < MaxCmds /\ core.DQCycle = 0
    BY <1>3 DEF RegisterCommand
  <2>2. w[1] \in RFs
    BY ProgramsAssumption
  <2>3. FileAccess(c)
    BY <2>2 DEF WriteRF, Idle, FileAccess
  <2> HIDE DEF c
  <2> QED
    BY <2>1, <2>3
<1>4. ASSUME NEW w \in CRFWrites, InstructionWrite(w[1], w[2])
      PROVE  \E c : Cycle(c) /\ issued < MaxCmds /\ core.DQCycle = 0 /\ CRFAccess(c)
  <2> DEFINE c == WriteCRF(w[1], w[2], issued + 1)
  <2>1. Cycle(c) /\ issued < MaxCmds /\ core.DQCycle = 0
    BY <1>4 DEF InstructionWrite
  <2>2. w[1] \in 0..(CRF_ENTRIES - 1) /\ Placed(w[2], w[1])
    BY ProgramsAssumption
  <2>3. c.cmd = "WR" /\ c.row = "CRF" /\ c.idx = w[1] /\ c.data = w[2]
    BY DEF WriteCRF, WriteRF, Idle
  <2>4. CRFAccess(c)
    BY <2>2, <2>3 DEF CRFAccess
  <2> HIDE DEF c
  <2> QED
    BY <2>1, <2>4
<1> QED
  BY <1>1, <1>2, <1>3, <1>4 DEF Next

(* The interface unit between register writes: what a command, or none,     *)
(* makes of an idle serial-to-parallel register.                            *)
LEMMA NoWord == DQ_CLK - 1 # 0 /\ 0 \notin 1..(DQ_CLK - 2)
  BY StagesAssumption

(* No command leaves an idle interface unit as it is.                       *)
LEMMA InterfaceIdle ==
    ASSUME NEW s, s.grf_wr_cnt = 0
    PROVE  /\ Interface(s, Idle).cnt = 0 /\ ~Interface(s, Idle).decode_en
           /\ ~Interface(s, Idle).rf_access
           /\ Interface(s, Idle).ser2par = s.ser2par /\ Interface(s, Idle).row = s.row
  BY NoWord, IdleIs DEF Interface, Banks, GRFs

(* A bank command is decoded.                                               *)
LEMMA InterfaceBank ==
    ASSUME NEW s, s.grf_wr_cnt = 0, NEW c, BankAccess(c)
    PROVE  /\ Interface(s, c).cnt = 0 /\ Interface(s, c).decode_en
           /\ ~Interface(s, c).rf_access
           /\ Interface(s, c).ser2par = s.ser2par /\ Interface(s, c).row = c.row
<1>1. /\ c.cmd # "none" /\ c.row \in Banks /\ c.row \notin {"CRF", "SRF_M", "SRF_A"}
      /\ c.row \notin GRFs
  BY DEF BankAccess, Banks, GRFs
<1> QED
  BY <1>1, NoWord DEF Interface

(* A register write to a general file starts a collection; one to a scalar  *)
(* file is done at once.                                                    *)
LEMMA InterfaceFile ==
    ASSUME NEW s, s.grf_wr_cnt = 0, s.DQCycle = 0, NEW c, FileAccess(c)
    PROVE  /\ Interface(s, c).row = c.row /\ ~Interface(s, c).decode_en
           /\ c.row \in GRFs => /\ Interface(s, c).cnt = 1
                                /\ ~Interface(s, c).rf_access
                                /\ Interface(s, c).ser2par
                                     = [s.ser2par EXCEPT ![1] = DQWord(c.n, 0)]
           /\ c.row \notin GRFs => /\ Interface(s, c).cnt = 0
                                   /\ Interface(s, c).ser2par = s.ser2par
<1>1. c.cmd = "WR" /\ c.row \in RFs /\ c.row \notin Banks
  BY DEF FileAccess, RFs, GRFs, SRFs, Banks
<1>4. DQ(s, c) = DQWord(c.n, 0)
  BY <1>1 DEF DQ
<1>2. CASE c.row \in GRFs
  <2>1. c.row \notin {"CRF", "SRF_M", "SRF_A"}
    BY <1>2 DEF GRFs
  <2> QED
    BY <1>1, <1>2, <1>4, <2>1, NoWord DEF Interface
<1>3. CASE c.row \notin GRFs
  <2>1. c.row \in {"CRF", "SRF_M", "SRF_A"}
    BY <1>1, <1>3 DEF RFs, SRFs
  <2> QED
    BY <1>1, <1>3, <2>1, NoWord DEF Interface
<1> QED
  BY <1>2, <1>3

(* A write of the CRF is done at once.                                      *)
LEMMA InterfaceCRF ==
    ASSUME NEW s, s.grf_wr_cnt = 0, NEW c, CRFAccess(c)
    PROVE  /\ Interface(s, c).row = "CRF" /\ ~Interface(s, c).decode_en
           /\ Interface(s, c).cnt = 0 /\ Interface(s, c).rf_access
           /\ Interface(s, c).ser2par = s.ser2par /\ Interface(s, c).idx = c.idx
<1>1. c.cmd = "WR" /\ c.row = "CRF" /\ c.row \notin Banks /\ c.row \notin GRFs
  BY DEF CRFAccess, Banks, GRFs
<1> QED
  BY <1>1, NoWord DEF Interface

(* In the middle of a register write: the next word is collected, and the   *)
(* last one completes the register.                                         *)
LEMMA InterfaceSerial ==
    ASSUME NEW s, s.grf_wr_cnt \in 1..(DQ_CLK - 1), s.DQCycle = s.grf_wr_cnt,
           s.row \in GRFs
    PROVE  /\ Interface(s, Idle).row = s.row /\ ~Interface(s, Idle).decode_en
           /\ s.grf_wr_cnt < DQ_CLK - 1 =>
                 /\ Interface(s, Idle).cnt = s.grf_wr_cnt + 1
                 /\ Interface(s, Idle).ser2par
                      = [s.ser2par EXCEPT ![s.grf_wr_cnt + 1]
                                            = DQWord(s.DQn, s.grf_wr_cnt)]
           /\ s.grf_wr_cnt = DQ_CLK - 1 =>
                 /\ Interface(s, Idle).cnt = 0
                 /\ Interface(s, Idle).ser2par = s.ser2par
<1> DEFINE n == s.grf_wr_cnt
<1>1. DQ_CLK \in Nat /\ n \in Nat /\ n # 0
  BY StagesAssumption
<1>2. s.row \notin Banks /\ s.row \notin {"CRF", "SRF_M", "SRF_A"} /\ "-" \notin RFs
  BY DEF GRFs, SRFs, RFs, Banks
<1>3. DQ(s, Idle) = DQWord(s.DQn, n)
  <2>1. s.DQCycle > 0 /\ s.DQCycle = n
    BY <1>1
  <2> QED
    BY <1>2, <2>1, IdleIs DEF DQ
<1>4. CASE n < DQ_CLK - 1
  <2>1. n \in 1..(DQ_CLK - 2) /\ n # DQ_CLK - 1
    BY <1>1, <1>4
  <2> QED
    BY <1>1, <1>2, <1>3, <1>4, <2>1, IdleIs DEF Interface
<1>5. CASE n = DQ_CLK - 1
  <2>1. n \notin 1..(DQ_CLK - 2) /\ ~(n < DQ_CLK - 1)
    BY <1>1, <1>5
  <2>2. Interface(s, Idle).cnt = 0
    BY <1>1, <1>2, <1>5, <2>1, IdleIs DEF Interface
  <2>3. Interface(s, Idle).row = s.row /\ ~Interface(s, Idle).decode_en
    BY <1>1, <1>2, <1>5, <2>1, IdleIs DEF Interface
  <2>4. Interface(s, Idle).ser2par = s.ser2par
    BY <1>1, <1>2, <1>5, <2>1, IdleIs DEF Interface
  <2> QED
    BY <2>1, <2>2, <2>3, <2>4
<1> QED
  BY <1>1, <1>4, <1>5
-----------------------------------------------------------------------------
CoreInv == TypeOK /\ SerialInStep /\ RegistersInv

(* The words of a register write, through every kind of cycle: the counter  *)
(* of the interface unit keeps step with the driver's.                      *)
LEMMA SerialCycle ==
    ASSUME CoreInv, NEW c, Cycle(c),
           \/ c = Idle
           \/ core.DQCycle = 0 /\ (BankAccess(c) \/ FileAccess(c) \/ CRFAccess(c))
    PROVE  /\ core'.grf_wr_cnt = core'.DQCycle /\ core'.DQCycle \in 0..(DQ_CLK - 1)
           /\ Stages(core'.ser2par, DQ_CLK - 1)
           /\ core'.DQCycle > 0 => core'.row \in GRFs
           /\ \A k \in 1..core'.DQCycle : core'.ser2par[k] = DQWord(core'.DQn, k - 1)
           /\ core.DQCycle > 0 => ~Interface(core, c).decode_en
                                  /\ Interface(core, c).row # "CRF"
<1> DEFINE s == core
           t == core'
<1>1. t = Step(s, c)
  BY DEF Cycle
<1>2. /\ s.grf_wr_cnt = s.DQCycle /\ s.DQCycle \in 0..(DQ_CLK - 1)
      /\ Stages(s.ser2par, DQ_CLK - 1) /\ (s.DQCycle > 0 => s.row \in GRFs)
      /\ \A k \in 1..s.DQCycle : s.ser2par[k] = DQWord(s.DQn, k - 1)
  BY DEF CoreInv, TypeOK, SerialInStep, RegistersInv
<1>3. DQ_CLK \in Nat /\ DQ_CLK >= 2 /\ DQ_CLK - 1 \in Nat
  BY StagesAssumption
<1>4. /\ t.grf_wr_cnt = Interface(s, c).cnt /\ t.ser2par = Interface(s, c).ser2par
      /\ t.row = Interface(s, c).row
      /\ t.DQCycle = IF c.cmd = "WR" /\ c.row \in GRFs THEN 1
                     ELSE IF s.DQCycle = 0 THEN 0 ELSE (s.DQCycle + 1) % DQ_CLK
      /\ t.DQn = IF c.cmd = "WR" /\ c.row \in GRFs THEN c.n ELSE s.DQn
  BY <1>1, SerialFields
<1> HIDE DEF s, t
<1> SUFFICES /\ t.grf_wr_cnt = t.DQCycle /\ t.DQCycle \in 0..(DQ_CLK - 1)
             /\ Stages(t.ser2par, DQ_CLK - 1)
             /\ t.DQCycle > 0 => t.row \in GRFs
             /\ \A k \in 1..t.DQCycle : t.ser2par[k] = DQWord(t.DQn, k - 1)
             /\ s.DQCycle > 0 => ~Interface(s, c).decode_en
                                  /\ Interface(s, c).row # "CRF"
  BY DEF s, t
<1>5. ASSUME s.DQCycle = 0, t.DQCycle = 0, t.grf_wr_cnt = 0, t.ser2par = s.ser2par
      PROVE  /\ t.grf_wr_cnt = t.DQCycle /\ t.DQCycle \in 0..(DQ_CLK - 1)
             /\ Stages(t.ser2par, DQ_CLK - 1)
             /\ t.DQCycle > 0 => t.row \in GRFs
             /\ \A k \in 1..t.DQCycle : t.ser2par[k] = DQWord(t.DQn, k - 1)
             /\ s.DQCycle > 0 => ~Interface(s, c).decode_en
                                  /\ Interface(s, c).row # "CRF"
  <2>1. \A k \in 1..t.DQCycle : FALSE
    BY <1>5
  <2> QED
    BY <1>2, <1>3, <1>5, <2>1
<1>6. CASE c = Idle /\ s.DQCycle = 0
  <2>1. /\ Interface(s, c).cnt = 0 /\ Interface(s, c).ser2par = s.ser2par
        /\ c.cmd = "none"
    BY <1>2, <1>6, InterfaceIdle, IdleIs
  <2> QED
    BY <1>4, <1>5, <1>6, <2>1
<1>7. CASE s.DQCycle = 0 /\ BankAccess(c)
  <2>1. /\ Interface(s, c).cnt = 0 /\ Interface(s, c).ser2par = s.ser2par
        /\ c.row \notin GRFs
    BY <1>2, <1>7, InterfaceBank DEF BankAccess, Banks, GRFs
  <2> QED
    BY <1>4, <1>5, <1>7, <2>1
<1>8. CASE s.DQCycle = 0 /\ CRFAccess(c)
  <2>1. /\ Interface(s, c).cnt = 0 /\ Interface(s, c).ser2par = s.ser2par
        /\ c.row \notin GRFs
    BY <1>2, <1>8, InterfaceCRF DEF CRFAccess, GRFs
  <2> QED
    BY <1>4, <1>5, <1>8, <2>1
<1>9. CASE s.DQCycle = 0 /\ FileAccess(c) /\ c.row \notin GRFs
  <2>1. Interface(s, c).cnt = 0 /\ Interface(s, c).ser2par = s.ser2par
    BY <1>2, <1>9, InterfaceFile
  <2> QED
    BY <1>4, <1>5, <1>9, <2>1
<1>10. CASE s.DQCycle = 0 /\ FileAccess(c) /\ c.row \in GRFs
  <2>1. /\ Interface(s, c).cnt = 1 /\ Interface(s, c).row = c.row /\ c.cmd = "WR"
        /\ Interface(s, c).ser2par = [s.ser2par EXCEPT ![1] = DQWord(c.n, 0)]
    BY <1>2, <1>10, InterfaceFile DEF FileAccess
  <2>2. Stages(t.ser2par, DQ_CLK - 1)
    <3> DEFINE e == DQWord(c.n, 0)
               m == DQ_CLK - 1
    <3>1. m \in Nat /\ Stages(s.ser2par, m) /\ t.ser2par = [s.ser2par EXCEPT ![1] = e]
      BY <1>2, <1>3, <1>4, <2>1
    <3> HIDE DEF e, m
    <3>2. Stages(t.ser2par, m)
      BY <3>1, StagesExcept
    <3> QED
      BY <3>2 DEF m
  <2>3. t.ser2par[1] = DQWord(c.n, 0)
    <3>1. 1 \in DOMAIN s.ser2par
      BY <1>2, <1>3 DEF Stages
    <3> QED
      BY <1>4, <2>1, <3>1
  <2>4. t.DQCycle = 1 /\ t.grf_wr_cnt = 1 /\ t.DQn = c.n /\ t.row = c.row
    BY <1>4, <1>10, <2>1
  <2>5. \A k \in 1..1 : k = 1 /\ k - 1 = 0
    OBVIOUS
  <2> QED
    BY <1>3, <1>10, <2>2, <2>3, <2>4, <2>5
<1>11. CASE c = Idle /\ s.DQCycle # 0
  <2> DEFINE n == s.DQCycle
  <2>1. n \in 1..(DQ_CLK - 1) /\ s.row \in GRFs /\ s.grf_wr_cnt = n /\ n > 0 /\ n \in Nat
    BY <1>2, <1>3, <1>11
  <2>2. t.DQCycle = (n + 1) % DQ_CLK /\ t.DQn = s.DQn
    BY <1>4, <1>11, IdleIs
  <2>3. s.row # "CRF"
    BY <2>1 DEF GRFs
  <2>4. /\ Interface(s, Idle).row = s.row /\ ~Interface(s, Idle).decode_en
        /\ n < DQ_CLK - 1 =>
                 /\ Interface(s, Idle).cnt = n + 1
                 /\ Interface(s, Idle).ser2par
                      = [s.ser2par EXCEPT ![n + 1] = DQWord(s.DQn, n)]
        /\ n = DQ_CLK - 1 =>
                 /\ Interface(s, Idle).cnt = 0
                 /\ Interface(s, Idle).ser2par = s.ser2par
    BY <2>1, InterfaceSerial
  <2>5. CASE n < DQ_CLK - 1
    <3>1. t.DQCycle = n + 1 /\ t.grf_wr_cnt = n + 1 /\ n + 1 \in 1..(DQ_CLK - 1)
      <4>1. (n + 1) % DQ_CLK = n + 1
        BY <1>3, <2>1, <2>5
      <4> QED
        BY <1>3, <1>4, <1>11, <2>1, <2>2, <2>4, <2>5, <4>1
    <3>2. t.ser2par = [s.ser2par EXCEPT ![n + 1] = DQWord(s.DQn, n)]
      BY <1>4, <1>11, <2>4, <2>5
    <3>3. Stages(t.ser2par, DQ_CLK - 1)
      BY <1>2, <1>3, <3>2, StagesExcept
    <3>4. ASSUME NEW k \in 1..(n + 1) PROVE t.ser2par[k] = DQWord(t.DQn, k - 1)
      <4>1. DOMAIN s.ser2par = 1..(DQ_CLK - 1) /\ k \in 1..(DQ_CLK - 1)
        BY <1>2, <1>3, <2>1, <3>1 DEF Stages
      <4>2. CASE k = n + 1
        <5>1. k - 1 = n
          BY <2>1, <4>2
        <5> QED
          BY <2>2, <3>2, <4>1, <4>2, <5>1
      <4>3. CASE k # n + 1
        <5>1. k \in 1..n
          BY <2>1, <4>3
        <5> QED
          BY <1>2, <2>2, <3>2, <4>1, <4>3, <5>1
      <4> QED
        BY <4>2, <4>3
    <3> HIDE DEF n
    <3> QED
      BY <1>3, <1>4, <1>11, <2>1, <2>3, <2>4, <3>1, <3>3, <3>4
  <2>6. CASE n = DQ_CLK - 1
    <3>1. t.DQCycle = 0 /\ t.grf_wr_cnt = 0
      <4>1. (n + 1) % DQ_CLK = 0
        <5>1. n + 1 = DQ_CLK
          BY <1>3, <2>6
        <5>2. DQ_CLK % DQ_CLK = 0
          BY <1>3
        <5> QED
          BY <5>1, <5>2
      <4> QED
        BY <1>4, <1>11, <2>2, <2>4, <2>6, <4>1
    <3>2. \A k \in 1..t.DQCycle : FALSE
      BY <3>1
    <3>3. t.ser2par = s.ser2par
      BY <1>4, <1>11, <2>4, <2>6
    <3> HIDE DEF n
    <3> QED
      BY <1>2, <1>3, <1>4, <1>11, <2>3, <2>4, <3>1, <3>2, <3>3
  <2> QED
    BY <1>3, <2>1, <2>5, <2>6
<1> QED
  BY <1>6, <1>7, <1>8, <1>9, <1>10, <1>11 DEF s

(* The limits of the immediate fields, as numbers. *)
LEMMA ImmBounds == IMM0_Max \in Nat /\ IMM0_Max = 255 /\ IMM1_Max \in Nat
BY DEF IMM0_Max, IMM1_Max

(* A value that fits the eight bits of the field is not changed by the wrap. *)
LEMMA ByteMod == ASSUME NEW x \in Nat, x < 256 PROVE x % 256 = x
OBVIOUS

(* What the wrap leaves fits the eight bits. *)
LEMMA ByteRange == \A x \in Int : x % 256 \in Nat /\ x % 256 <= 255
OBVIOUS

(* The program counter stays in the CRF, the loop and NOP counters in their *)
(* registers, when the instruction at pc is executed.                       *)
LEMMA ControlTypes ==
    ASSUME NEW s, s.pc \in 0..(CRF_ENTRIES - 1), s.jmp_act \in BOOLEAN,
           s.jmp_cnt \in 0..IMM1_Max, NEW i, Placed(i, s.pc)
    PROVE  /\ Control(s, i).pc \in 0..(CRF_ENTRIES - 1)
           /\ Control(s, i).jmp_act \in BOOLEAN /\ Control(s, i).jmp_cnt \in 0..IMM1_Max
           /\ Control(s, i).nop_cnt \in 0..IMM0_Max
<1> DEFINE jumps == i.op = "JUMP" /\ (~s.jmp_act \/ s.jmp_cnt > 0)
<1>1. CRF_ENTRIES \in Nat \ {0} /\ CRF_ENTRIES <= 256
  BY StagesAssumption
<1>2. i.imm0 \in 0..IMM0_Max /\ (i.op = "JUMP" => i.imm0 <= s.pc /\ i.imm1 \in 1..IMM1_Max)
  BY DEF Placed
<1>3. Control(s, i).pc = PCUnit(s, i.op = "EXIT", i.imm0, jumps)
  BY DEF Control
<1>4. Control(s, i).pc \in 0..(CRF_ENTRIES - 1)
  <2>1. CASE i.op = "EXIT"
    <3>1. Control(s, i).pc = 0
      BY <1>3, <2>1 DEF PCUnit
    <3> QED
      BY <1>1, <3>1
  <2>2. CASE i.op # "EXIT" /\ jumps
    <3>1. Control(s, i).pc = (s.pc - i.imm0) % 256
      BY <1>3, <2>2 DEF PCUnit
    <3>2. /\ s.pc - i.imm0 \in 0..(CRF_ENTRIES - 1)
          /\ s.pc - i.imm0 \in Nat /\ s.pc - i.imm0 < 256
      <4> DEFINE p == s.pc
                 m == i.imm0
      <4>1. p \in 0..(CRF_ENTRIES - 1) /\ m \in 0..IMM0_Max /\ m <= p
        BY <1>2, <2>2
      <4> HIDE DEF p, m
      <4>2. p - m \in 0..(CRF_ENTRIES - 1) /\ p - m \in Nat /\ p - m < 256
        BY <1>1, <4>1, ImmBounds
      <4> QED
        BY <4>2 DEF p, m
    <3>3. (s.pc - i.imm0) % 256 = s.pc - i.imm0
      BY <3>2, ByteMod
    <3> QED
      BY <3>1, <3>2, <3>3
  <2>3. CASE i.op # "EXIT" /\ ~jumps
    <3>1. Control(s, i).pc = IF s.pc < CRF_ENTRIES - 1 THEN s.pc + 1 ELSE 0
      BY <1>3, <2>3 DEF PCUnit
    <3> QED
      BY <1>1, <3>1
  <2> QED
    BY <2>1, <2>2, <2>3
<1>5. Control(s, i).jmp_act \in BOOLEAN
  <2>1. Control(s, i).jmp_act = IF i.op = "JUMP" THEN jumps ELSE s.jmp_act
    BY DEF Control
  <2>2. jumps \in BOOLEAN
    OBVIOUS
  <2> HIDE DEF jumps
  <2> QED
    BY <2>1, <2>2
<1>6. Control(s, i).jmp_cnt \in 0..IMM1_Max
  <2> DEFINE n == IF s.jmp_act THEN s.jmp_cnt ELSE i.imm1
             k == Control(s, i).jmp_cnt
  <2>1. k = IF jumps THEN n - 1 ELSE s.jmp_cnt
    BY DEF Control
  <2>2. jumps => n \in 1..IMM1_Max
    <3>1. ASSUME jumps, s.jmp_act PROVE n \in 1..IMM1_Max
      BY <3>1
    <3>2. ASSUME jumps, ~s.jmp_act PROVE n \in 1..IMM1_Max
      BY <1>2, <3>2
    <3> QED
      BY <3>1, <3>2
  <2> HIDE DEF jumps, n, k
  <2>3. k \in 0..IMM1_Max
    BY <2>1, <2>2, ImmBounds
  <2> QED
    BY <2>3 DEF k
<1>7. Control(s, i).nop_cnt \in 0..IMM0_Max
  <2> DEFINE m == (i.imm0 - 1) % 256
             k == Control(s, i).nop_cnt
  <2>1. k = IF i.op = "NOP" THEN m ELSE 0
    BY DEF Control
  <2>2. m \in 0..IMM0_Max
    BY <1>2, ImmBounds, ByteRange
  <2> HIDE DEF m, k
  <2>3. k \in 0..IMM0_Max
    BY <2>1, <2>2, ImmBounds
  <2> QED
    BY <2>3 DEF k
<1> QED
  BY <1>4, <1>5, <1>6, <1>7

(* Every cycle keeps the control registers in range, the program one whose  *)
(* jumps stay inside it, and the pipelines their length.                    *)
LEMMA RegistersCycle ==
    ASSUME CoreInv, NEW c, Cycle(c),
           \/ c = Idle
           \/ core.DQCycle = 0 /\ (BankAccess(c) \/ FileAccess(c) \/ CRFAccess(c))
    PROVE  /\ core'.pc \in 0..(CRF_ENTRIES - 1) /\ core'.nop_cnt \in 0..IMM0_Max
           /\ core'.jmp_act \in BOOLEAN /\ core'.jmp_cnt \in 0..IMM1_Max
           /\ DOMAIN core'.crf = 0..(CRF_ENTRIES - 1)
           /\ \A n \in 0..(CRF_ENTRIES - 1) : Placed(core'.crf[n], n)
           /\ \A rf \in RFs : DOMAIN core'[rf] = 0..(RF_ENTRIES - 1)
           /\ Stages(core'.mult, MULT_STAGES) /\ Stages(core'.add, ADD_STAGES)
<1> DEFINE s == core
           t == core'
           i == Fetch(s.crf, s.pc)
<1>1. t = Step(s, c)
  BY DEF Cycle
<1>2. /\ s.pc \in 0..(CRF_ENTRIES - 1) /\ s.nop_cnt \in 0..IMM0_Max
      /\ s.jmp_act \in BOOLEAN /\ s.jmp_cnt \in 0..IMM1_Max
      /\ DOMAIN s.crf = 0..(CRF_ENTRIES - 1)
      /\ \A n \in 0..(CRF_ENTRIES - 1) : Placed(s.crf[n], n)
      /\ \A rf \in RFs : DOMAIN s[rf] = 0..(RF_ENTRIES - 1)
      /\ Stages(s.mult, MULT_STAGES) /\ Stages(s.add, ADD_STAGES)
      /\ s.DQCycle \in 0..(DQ_CLK - 1) /\ s.grf_wr_cnt = s.DQCycle
  BY DEF CoreInv, TypeOK, RegistersInv, SerialInStep
<1>3. s.DQCycle > 0 => Interface(s, c).row # "CRF"
  BY SerialCycle
<1> HIDE DEF s, t
<1>4. Placed(i, s.pc)
  BY <1>2 DEF Fetch
<1>5. /\ t.pc \in 0..(CRF_ENTRIES - 1) /\ t.nop_cnt \in 0..IMM0_Max
      /\ t.jmp_act \in BOOLEAN /\ t.jmp_cnt \in 0..IMM1_Max
  <2>1. CASE Decodes(s, c)
    <3>1. /\ t.pc = Control(s, i).pc /\ t.jmp_act = Control(s, i).jmp_act
          /\ t.jmp_cnt = Control(s, i).jmp_cnt /\ t.nop_cnt = Control(s, i).nop_cnt
      BY <1>1, <2>1, ControlFields
    <3> HIDE DEF i
    <3>2. /\ Control(s, i).pc \in 0..(CRF_ENTRIES - 1)
          /\ Control(s, i).jmp_act \in BOOLEAN /\ Control(s, i).jmp_cnt \in 0..IMM1_Max
          /\ Control(s, i).nop_cnt \in 0..IMM0_Max
      <4>1. /\ s.pc \in 0..(CRF_ENTRIES - 1) /\ s.jmp_act \in BOOLEAN
            /\ s.jmp_cnt \in 0..IMM1_Max
        BY <1>2
      <4> QED
        BY <1>4, <4>1, ControlTypes
    <3> QED
      BY <3>1, <3>2, Zenon
  <2>2. CASE ~Decodes(s, c)
    <3>1. /\ t.pc = s.pc /\ t.jmp_act = s.jmp_act /\ t.jmp_cnt = s.jmp_cnt
          /\ t.nop_cnt = IF s.nop_cnt = 0 THEN 0 ELSE s.nop_cnt - 1
      BY <1>1, <2>2, ControlFields
    <3> QED
      BY <1>2, <3>1, ImmBounds
  <2> QED
    BY <2>1, <2>2
<1>6. /\ DOMAIN t.crf = 0..(CRF_ENTRIES - 1)
      /\ \A n \in 0..(CRF_ENTRIES - 1) : Placed(t.crf[n], n)
  <2>1. t.crf = IF Interface(s, c).rf_access /\ Interface(s, c).row = "CRF"
                THEN [s.crf EXCEPT ![Interface(s, c).idx] = c.data] ELSE s.crf
    BY <1>1, CRFField
  <2>2. CASE CRFAccess(c) /\ s.DQCycle = 0
    <3>1. /\ Interface(s, c).rf_access /\ Interface(s, c).row = "CRF"
          /\ Interface(s, c).idx = c.idx
      BY <1>2, <2>2, InterfaceCRF
    <3>2. t.crf = [s.crf EXCEPT ![c.idx] = c.data]
      BY <2>1, <3>1
    <3>3. c.idx \in 0..(CRF_ENTRIES - 1) /\ Placed(c.data, c.idx)
      BY <2>2 DEF CRFAccess
    <3> DEFINE f == s.crf
               g == t.crf
               j == c.idx
               D == 0..(CRF_ENTRIES - 1)
    <3>4. /\ g = [f EXCEPT ![j] = c.data] /\ DOMAIN f = D /\ j \in D
          /\ \A n \in D : Placed(f[n], n)
          /\ Placed(c.data, j)
      BY <1>2, <3>2, <3>3
    <3> HIDE DEF f, g, j, D
    <3>5. DOMAIN g = D /\ \A n \in D : Placed(g[n], n)
      BY <3>4
    <3> QED
      BY <3>5 DEF f, g, j, D
  <2>3. CASE ~(CRFAccess(c) /\ s.DQCycle = 0)
    <3>1. ~(Interface(s, c).rf_access /\ Interface(s, c).row = "CRF")
      <4>1. CASE s.DQCycle # 0
        <5>1. s.DQCycle > 0
          BY <1>2, <4>1
        <5> QED
          BY <1>3, <5>1
      <4>2. CASE s.DQCycle = 0 /\ c = Idle
        BY <1>2, <4>2, InterfaceIdle
      <4>3. CASE s.DQCycle = 0 /\ BankAccess(c)
        BY <1>2, <4>3, InterfaceBank
      <4>4. CASE s.DQCycle = 0 /\ FileAccess(c)
        <5>0. s.grf_wr_cnt = 0 /\ s.DQCycle = 0
          BY <1>2, <4>4
        <5>1. Interface(s, c).row = c.row
          BY <4>4, <5>0, InterfaceFile
        <5>2. c.row # "CRF"
          BY <4>4 DEF FileAccess, RFs, GRFs, SRFs
        <5> QED
          BY <5>1, <5>2
      <4> QED
        BY <2>3, <4>1, <4>2, <4>3, <4>4 DEF s
    <3> QED
      BY <1>2, <2>1, <3>1
  <2> QED
    BY <2>2, <2>3
<1>7. \A rf \in RFs : DOMAIN t[rf] = 0..(RF_ENTRIES - 1)
  BY <1>1, <1>2, FilesField
<1>8. Stages(t.mult, MULT_STAGES)
  <2>1. PICK en, x : t.mult = Shift(s.mult, en, x)
    BY <1>1, MultField
  <2> QED
    BY <1>2, <2>1, StagesAssumption, StagesShift
<1>9. Stages(t.add, ADD_STAGES)
  <2>1. PICK en, x : t.add = Shift(s.add, en, x)
    BY <1>1, AddField
  <2> QED
    BY <1>2, <2>1, StagesAssumption, StagesShift
<1> QED
  BY <1>5, <1>6, <1>7, <1>8, <1>9 DEF t

(* A clock cycle keeps the invariant. *)
LEMMA CoreStep == ASSUME CoreInv, [Next]_vars PROVE CoreInv'
<1>1. CASE UNCHANGED vars
  BY <1>1 DEF vars, CoreInv, TypeOK, SerialInStep, RegistersInv
<1>2. CASE Next
  <2>1. PICK c : /\ Cycle(c)
                 /\ \/ c = Idle
                    \/ /\ issued < MaxCmds /\ core.DQCycle = 0
                       /\ BankAccess(c) \/ FileAccess(c) \/ CRFAccess(c)
    BY <1>2, StepIs
  <2>2. /\ core'.grf_wr_cnt = core'.DQCycle /\ core'.DQCycle \in 0..(DQ_CLK - 1)
        /\ Stages(core'.ser2par, DQ_CLK - 1)
        /\ core'.DQCycle > 0 => core'.row \in GRFs
        /\ \A k \in 1..core'.DQCycle : core'.ser2par[k] = DQWord(core'.DQn, k - 1)
    BY <2>1, SerialCycle
  <2>3. /\ core'.pc \in 0..(CRF_ENTRIES - 1) /\ core'.nop_cnt \in 0..IMM0_Max
        /\ core'.jmp_act \in BOOLEAN /\ core'.jmp_cnt \in 0..IMM1_Max
        /\ DOMAIN core'.crf = 0..(CRF_ENTRIES - 1)
        /\ \A n \in 0..(CRF_ENTRIES - 1) : Placed(core'.crf[n], n)
        /\ \A rf \in RFs : DOMAIN core'[rf] = 0..(RF_ENTRIES - 1)
        /\ Stages(core'.mult, MULT_STAGES) /\ Stages(core'.add, ADD_STAGES)
    BY <2>1, RegistersCycle
  <2>4. age' \in 0..(Depth + 1)
    <3>1. age \in 0..(Depth + 1) /\ Depth \in Nat
      BY StagesAssumption DEF CoreInv, TypeOK, Depth
    <3>2. age' = IF c.cmd # "none" THEN 1 ELSE IF age > Depth THEN age ELSE age + 1
      BY <2>1 DEF Cycle
    <3> QED
      BY <3>1, <3>2
  <2>5. issued' \in 0..MaxCmds
    <3>1. issued \in 0..MaxCmds /\ MaxCmds \in Nat
      BY ProgramsAssumption DEF CoreInv, TypeOK
    <3>2. issued' = IF c.cmd = "none" THEN issued ELSE issued + 1
      BY <2>1 DEF Cycle
    <3>3. c.cmd = "none" \/ issued < MaxCmds
      BY <2>1, IdleIs
    <3> QED
      BY <3>1, <3>2, <3>3
  <2>6. /\ Len(core'.mult) = MULT_STAGES /\ Len(core'.add) = ADD_STAGES
        /\ Len(core'.ser2par) = DQ_CLK - 1
    <3>1. MULT_STAGES \in Nat /\ ADD_STAGES \in Nat /\ DQ_CLK - 1 \in Nat
      BY StagesAssumption
    <3>0. Stages(core'.mult, MULT_STAGES) /\ Stages(core'.add, ADD_STAGES)
      BY <2>3
    <3>2. Len(core'.mult) = MULT_STAGES
      BY <3>0, <3>1, StagesLen
    <3>3. Len(core'.add) = ADD_STAGES
      BY <3>0, <3>1, StagesLen
    <3>4. Len(core'.ser2par) = DQ_CLK - 1
      BY <2>2, <3>1, StagesLen
    <3> QED
      BY <3>2, <3>3, <3>4
  <2>7. TypeOK'
    BY <2>2, <2>3, <2>4, <2>5, <2>6 DEF TypeOK, Depth
  <2>8. SerialInStep' /\ RegistersInv'
    BY <2>2, <2>3 DEF SerialInStep, RegistersInv
  <2> QED
    BY <2>7, <2>8 DEF CoreInv
<1> QED
  BY <1>1, <1>2

-----------------------------------------------------------------------------
(* The invariant of the core holds in every reachable state, for every      *)
(* depth of the pipelines, size of the register files, width of DQ and      *)
(* distance of commands.                                                    *)
THEOREM CoreInvariant == Spec => []CoreInv
<1>1. Init => CoreInv
  <2> SUFFICES ASSUME Init PROVE CoreInv
    OBVIOUS
  <2>1. PICK program \in Programs : core = Start(program)
    BY DEF Init
  <2>2. /\ DOMAIN program = 0..(CRF_ENTRIES - 1)
        /\ \A n \in 0..(CRF_ENTRIES - 1) : Placed(program[n], n)
    BY ProgramsAssumption
  <2>3. /\ MULT_STAGES \in Nat /\ ADD_STAGES \in Nat /\ DQ_CLK - 1 \in Nat
        /\ DQ_CLK \in Nat /\ CRF_ENTRIES \in Nat \ {0} /\ CRF_ENTRIES <= 256 /\ MaxCmds \in Nat
    BY StagesAssumption, ProgramsAssumption
  <2>4. /\ core.pc = 0 /\ core.nop_cnt = 0 /\ core.jmp_act = FALSE /\ core.jmp_cnt = 0
        /\ core.grf_wr_cnt = 0 /\ core.DQCycle = 0 /\ core.crf = program
        /\ core.mult = [k \in 1..MULT_STAGES |-> Zero]
        /\ core.add = [k \in 1..ADD_STAGES |-> Zero]
        /\ core.ser2par = [k \in 1..(DQ_CLK - 1) |-> Zero]
    BY <2>1 DEF Start
  <2>5. \A rf \in RFs : DOMAIN core[rf] = 0..(RF_ENTRIES - 1)
    <3>1. /\ core["GRF_A"] = Loaded("GRF_A") /\ core["GRF_B"] = Loaded("GRF_B")
          /\ core["SRF_M"] = Loaded("SRF_M") /\ core["SRF_A"] = Loaded("SRF_A")
      BY <2>1 DEF Start
    <3> QED
      BY <3>1 DEF Loaded, RFs, GRFs, SRFs
  <2>6. /\ Stages(core.mult, MULT_STAGES) /\ Stages(core.add, ADD_STAGES)
        /\ Stages(core.ser2par, DQ_CLK - 1)
    BY <2>4 DEF Stages
  <2>7. /\ Len(core.mult) = MULT_STAGES /\ Len(core.add) = ADD_STAGES
        /\ Len(core.ser2par) = DQ_CLK - 1
    BY <2>3, <2>6, StagesLen
  <2>8. age \in 0..(Depth + 1) /\ issued \in 0..MaxCmds
    BY <2>3 DEF Init, Depth
  <2>9. TypeOK
    <3>1. /\ core.pc \in 0..(CRF_ENTRIES - 1) /\ core.nop_cnt \in 0..IMM0_Max
          /\ core.jmp_act \in BOOLEAN /\ core.jmp_cnt \in 0..IMM1_Max
          /\ core.grf_wr_cnt \in 0..(DQ_CLK - 1) /\ core.DQCycle \in 0..(DQ_CLK - 1)
      <4>1. /\ 0 \in 0..(CRF_ENTRIES - 1) /\ 0 \in 0..(DQ_CLK - 1)
            /\ 0 \in 0..IMM0_Max /\ 0 \in 0..IMM1_Max
        BY <2>3, ImmBounds
      <4>2. core.jmp_act \in BOOLEAN
        BY <2>1 DEF Start
      <4> QED
        BY <2>4, <4>1, <4>2
    <3>2. DOMAIN core.crf = 0..(CRF_ENTRIES - 1)
      BY <2>2, <2>4
    <3> QED
      BY <2>5, <2>7, <2>8, <3>1, <3>2 DEF TypeOK
  <2>10. SerialInStep
    BY <2>4 DEF SerialInStep
  <2>11. RegistersInv
    BY <2>2, <2>4, <2>6 DEF RegistersInv
  <2> QED
    BY <2>9, <2>10, <2>11 DEF CoreInv
<1>2. CoreInv /\ [Next]_vars => CoreInv'
  BY CoreStep
<1> QED
  BY <1>1, <1>2, PTL DEF Spec

(* The program counter of a core never leaves the CRF, its eight-bit NOP    *)
(* counter and eleven-bit loop counter never wrap, and its pipelines keep   *)
(* their length, for programs whose jumps lead back inside the program.     *)
THEOREM TypeCorrect == Spec => []TypeOK
<1>1. CoreInv => TypeOK
  BY DEF CoreInv
<1> QED
  BY <1>1, CoreInvariant, PTL

(* The interface unit counts the words of a register write in step with the *)
(* driver and has collected the first words of that one write, for every    *)
(* width of DQ and whatever commands came before.                           *)
THEOREM WordsInStep == Spec => []SerialInStep
<1>1. CoreInv => SerialInStep
  BY DEF CoreInv
<1> QED
  BY <1>1, CoreInvariant, PTL
-----------------------------------------------------------------------------
(* The path through the program. Of the architectural state, CnmISA moves   *)
(* the control registers and the program as the core does.                  *)
Fields == {"pc", "jmp_act", "jmp_cnt", "nop_cnt", "crf", "out"} \cup RFs

SamePath(a, b) ==
    /\ a.pc = b.pc /\ a.jmp_act = b.jmp_act /\ a.jmp_cnt = b.jmp_cnt
    /\ a.nop_cnt = b.nop_cnt /\ a.crf = b.crf

(* Writing a register file is no step on the path. *)
LEMMA RFWriteKeepsPath ==
    ASSUME NEW a, DOMAIN a = Fields, NEW rf \in RFs, NEW n, NEW v
    PROVE  SamePath(ISA!RFWrite(a, rf, n, v), a)
<1>1. rf \notin {"pc", "jmp_act", "jmp_cnt", "nop_cnt", "crf"} /\ rf \in DOMAIN a
  BY DEF RFs, GRFs, SRFs, Fields
<1>2. SamePath([a EXCEPT ![rf][n] = v], a)
  BY <1>1 DEF SamePath
<1> QED
  BY <1>2 DEF ISA!RFWrite, SamePath

(* MOV writes a register file or the bank, never the control registers.     *)
LEMMA MovKeepsPath ==
    ASSUME NEW a, DOMAIN a = Fields, NEW i, NEW c
    PROVE  SamePath(ISA!Mov(a, i, c), a)
<1>1. \A rf \in RFs : \A n, v : SamePath(ISA!RFWrite(a, rf, n, v), a)
  BY RFWriteKeepsPath
<1>2. \A v : SamePath([a EXCEPT !.out = v], a)
  BY DEF SamePath
<1>3. SamePath(a, a)
  BY DEF SamePath
<1>4. ISA!GRFs \subseteq RFs /\ ISA!SRFs \subseteq RFs
  BY DEF RFs, GRFs, SRFs, ISA!GRFs, ISA!SRFs
<1>5. i.dst \in ISA!GRFs => i.dst \notin ISA!SRFs /\ i.dst \notin Banks
  BY DEF ISA!GRFs, ISA!SRFs, Banks
<1>6. i.dst \in ISA!SRFs => i.dst \notin Banks
  BY DEF ISA!SRFs, Banks
<1> DEFINE toGRF == i.dst \in ISA!GRFs /\ (i.src0 \in ISA!Banks =>
                        <<i.src0, i.dst>> \in {<<"EVEN_BANK", "GRF_A">>,
                                               <<"ODD_BANK", "GRF_B">>})
           toSRF == i.dst \in ISA!SRFs /\ i.src0 \in ISA!RFs
           toBank == <<i.src0, i.dst>> \in {<<"GRF_A", "EVEN_BANK">>,
                                            <<"GRF_B", "ODD_BANK">>}
<1>7. toBank => i.dst \in Banks
  BY DEF Banks
<1>8. CASE toGRF
  <2>1. ~toSRF /\ ~toBank
    BY <1>5, <1>7, <1>8
  <2>2. \E v : ISA!Mov(a, i, c) = ISA!RFWrite(a, i.dst, i.dn, v)
    BY <1>8, <2>1 DEF ISA!Mov
  <2> QED
    BY <1>1, <1>4, <1>8, <2>2
<1>9. CASE toSRF
  <2>1. ~toGRF /\ ~toBank
    BY <1>5, <1>6, <1>7, <1>9
  <2>2. \E v : ISA!Mov(a, i, c) = ISA!RFWrite(a, i.dst, i.dn, v)
    BY <1>9, <2>1 DEF ISA!Mov
  <2> QED
    BY <1>1, <1>4, <1>9, <2>2
<1>10. CASE toBank
  <2>1. ~toGRF /\ ~toSRF
    BY <1>5, <1>6, <1>7, <1>10
  <2>2. ISA!Mov(a, i, c) = a \/ \E v : ISA!Mov(a, i, c) = [a EXCEPT !.out = v]
    BY <1>10, <2>1 DEF ISA!Mov
  <2> QED
    BY <1>2, <1>3, <2>2
<1>11. CASE ~toGRF /\ ~toSRF /\ ~toBank
  <2>1. ISA!Mov(a, i, c) = a
    BY <1>11 DEF ISA!Mov
  <2> QED
    BY <1>3, <2>1
<1> QED
  BY <1>8, <1>9, <1>10, <1>11

(* An arithmetic instruction writes its destination only.                   *)
LEMMA ComputeKeepsPath ==
    ASSUME NEW a, DOMAIN a = Fields, NEW i, i.dst \in GRFs, NEW c
    PROVE  SamePath(ISA!Compute(a, i, c), a)
<1>1. i.dst \in RFs
  BY DEF RFs
<1>2. \A n, v : SamePath(ISA!RFWrite(a, i.dst, n, v), a)
  BY <1>1, RFWriteKeepsPath
<1> QED
  BY <1>2 DEF ISA!Compute

(* A record of architectural registers with the control registers of r.     *)
OnPath(b, r, nop, crf) ==
    /\ b.pc = r.pc /\ b.jmp_act = r.jmp_act /\ b.jmp_cnt = r.jmp_cnt
    /\ b.nop_cnt = nop /\ b.crf = crf

(* What equals a truth value is one.                                        *)
LEMMA BitOf ==
    ASSUME NEW x, NEW y \in BOOLEAN, x = y
    PROVE  x \in BOOLEAN /\ (x <=> y)
<1>1. x \in BOOLEAN
  OBVIOUS
<1>2. CASE y = TRUE
  BY <1>2, Zenon
<1>3. CASE y = FALSE
  BY <1>3, Zenon
<1> QED
  BY <1>1, <1>2, <1>3, Zenon

(* Two truth values that imply one another are one.                         *)
LEMMA SameBit ==
    ASSUME NEW x \in BOOLEAN, NEW y \in BOOLEAN, x <=> y
    PROVE  x = y
  OBVIOUS

(* A counter that is not used up counts. *)
LEMMA StillCounting ==
    ASSUME NEW x \in BOOLEAN, NEW y, y = x, NEW n \in 0..IMM1_Max, NEW m, m = n,
           ~(x /\ n = 0)
    PROVE  ~y \/ m > 0
  OBVIOUS

(* The program counter and the loop registers of the decoder take the values *)
(* that the ISA gives them, and the ISA leaves the rest alone.              *)
LEMMA WalkIsControl ==
    ASSUME NEW a, DOMAIN a = Fields, a.jmp_act \in BOOLEAN, a.jmp_cnt \in 0..IMM1_Max,
           NEW s, s.pc = a.pc, s.jmp_act = a.jmp_act, s.jmp_cnt = a.jmp_cnt, NEW i
    PROVE  /\ OnPath(ISA!Walk(a, i), Control(s, i), a.nop_cnt, a.crf)
           /\ DOMAIN ISA!Walk(a, i) = Fields
<1> DEFINE w == ISA!Walk(a, i)
           k == Control(s, i)
           jumps == i.op = "JUMP" /\ (~s.jmp_act \/ s.jmp_cnt > 0)
<1>6. /\ k.pc = PCUnit(s, i.op = "EXIT", i.imm0, jumps)
      /\ k.jmp_act = IF i.op = "JUMP" THEN jumps ELSE s.jmp_act
      /\ k.jmp_cnt = IF jumps THEN (IF s.jmp_act THEN s.jmp_cnt ELSE i.imm1) - 1
                      ELSE s.jmp_cnt
  BY DEF Control
<1>8. i.op = "JUMP" => k.jmp_act \in BOOLEAN /\ (k.jmp_act <=> jumps)
  <2>1. jumps \in BOOLEAN
    OBVIOUS
  <2>2. i.op = "JUMP" => k.jmp_act = jumps
    <3> HIDE DEF jumps, k
    <3> QED
      BY <1>6
  <2> HIDE DEF jumps, k
  <2>3. ASSUME i.op = "JUMP" PROVE k.jmp_act \in BOOLEAN /\ (k.jmp_act <=> jumps)
    <3>1. k.jmp_act = jumps
      BY <2>2, <2>3
    <3> QED
      BY <2>1, <3>1, BitOf
  <2> QED
    BY <2>3
<1>1. {"pc", "jmp_act", "jmp_cnt", "nop_cnt", "crf"} \subseteq DOMAIN a
  BY DEF Fields
<1>2. CASE i.op = "EXIT"
  <2>1. w = [a EXCEPT !.pc = 0]
    BY <1>2 DEF ISA!Walk
  <2>2. k.pc = 0 /\ k.jmp_act = s.jmp_act /\ k.jmp_cnt = s.jmp_cnt
    BY <1>2 DEF Control, PCUnit
  <2> QED
    BY <1>1, <2>1, <2>2 DEF OnPath
<1>3. CASE i.op = "JUMP" /\ a.jmp_act /\ a.jmp_cnt = 0
  <2>1. w = [a EXCEPT !.jmp_act = FALSE, !.pc = ISA!NextPC(a.pc)]
    BY <1>3 DEF ISA!Walk, ISA!Jump
  <2>2. ~jumps /\ i.op # "EXIT"
    BY <1>3
  <2>3. k.pc = ISA!NextPC(a.pc)
    BY <1>6, <2>2 DEF PCUnit, ISA!NextPC
  <2>4. k.jmp_act \in BOOLEAN /\ ~k.jmp_act
    BY <1>3, <1>6, <1>8, <2>2
  <2>5. k.jmp_cnt = a.jmp_cnt
    BY <1>6, <2>2
  <2>6. /\ w.pc = ISA!NextPC(a.pc) /\ w.jmp_cnt = a.jmp_cnt /\ w.nop_cnt = a.nop_cnt
        /\ w.crf = a.crf /\ DOMAIN w = DOMAIN a
    BY <1>1, <2>1
  <2>7. w.jmp_act \in BOOLEAN /\ ~w.jmp_act
    BY <1>1, <2>1
  <2> HIDE DEF w, k, jumps
  <2>8. w.jmp_act = k.jmp_act
    BY <2>4, <2>7, SameBit
  <2>9. OnPath(w, k, a.nop_cnt, a.crf)
    BY <2>3, <2>5, <2>6, <2>8 DEF OnPath
  <2> QED
    BY <2>6, <2>9 DEF w, k
<1>4. CASE i.op = "JUMP" /\ ~(a.jmp_act /\ a.jmp_cnt = 0)
  <2> DEFINE n == (IF a.jmp_act THEN a.jmp_cnt ELSE i.imm1) - 1
  <2>1. w = [a EXCEPT !.jmp_act = TRUE, !.jmp_cnt = n, !.pc = (a.pc - i.imm0) % 256]
    BY <1>4 DEF ISA!Walk, ISA!Jump
  <2>2. jumps /\ i.op # "EXIT"
    <3>1. ~(a.jmp_act /\ a.jmp_cnt = 0) /\ i.op = "JUMP"
      BY <1>4
    <3>2. ~s.jmp_act \/ s.jmp_cnt > 0
      <4> DEFINE x == a.jmp_act
                 y == s.jmp_act
                 l == a.jmp_cnt
                 m == s.jmp_cnt
      <4>1. x \in BOOLEAN /\ y = x /\ l \in 0..IMM1_Max /\ m = l /\ ~(x /\ l = 0)
        BY <3>1
      <4> HIDE DEF x, y, l, m
      <4>2. ~y \/ m > 0
        BY <4>1, StillCounting
      <4> QED
        BY <4>2 DEF y, m
    <3> HIDE <1>6, <1>8
    <3> QED
      BY <3>1, <3>2
  <2>3. k.pc = (a.pc - i.imm0) % 256
    BY <1>6, <2>2 DEF PCUnit
  <2>4. k.jmp_act \in BOOLEAN /\ k.jmp_act
    BY <1>4, <1>6, <1>8, <2>2
  <2>5. k.jmp_cnt = n
    BY <1>6, <2>2
  <2> HIDE DEF n
  <2>6. /\ w.pc = (a.pc - i.imm0) % 256 /\ w.jmp_cnt = n /\ w.nop_cnt = a.nop_cnt
        /\ w.crf = a.crf /\ DOMAIN w = DOMAIN a
    BY <1>1, <2>1
  <2>7. w.jmp_act \in BOOLEAN /\ w.jmp_act
    BY <1>1, <2>1
  <2> HIDE DEF w, k, jumps
  <2>8. w.jmp_act = k.jmp_act
    BY <2>4, <2>7, SameBit
  <2>9. OnPath(w, k, a.nop_cnt, a.crf)
    BY <2>3, <2>5, <2>6, <2>8 DEF OnPath
  <2> QED
    BY <2>6, <2>9 DEF w, k
<1>5. CASE i.op # "JUMP" /\ i.op # "EXIT"
  <2>1. w = [a EXCEPT !.pc = ISA!NextPC(a.pc)]
    BY <1>5 DEF ISA!Walk
  <2>2. k.pc = ISA!NextPC(a.pc) /\ k.jmp_act = s.jmp_act /\ k.jmp_cnt = s.jmp_cnt
    BY <1>5 DEF Control, PCUnit, ISA!NextPC
  <2> QED
    BY <1>1, <2>1, <2>2 DEF OnPath
<1> QED
  BY <1>2, <1>3, <1>4, <1>5

(* Executing the instruction at pc takes the same way through the program   *)
(* in both.                                                                 *)
LEMMA ExecutePath ==
    ASSUME NEW a, DOMAIN a = Fields, a.jmp_act \in BOOLEAN, a.jmp_cnt \in 0..IMM1_Max,
           a.nop_cnt = 0, NEW c,
           NEW s, s.pc = a.pc, s.jmp_act = a.jmp_act, s.jmp_cnt = a.jmp_cnt,
           NEW i, i = ISA!Fetch(a.crf, a.pc), i.op \in Arithmetic => i.dst \in GRFs
    PROVE  OnPath(ISA!Execute(a, c), Control(s, i), Control(s, i).nop_cnt, a.crf)
<1> DEFINE w == ISA!Walk(a, i)
           k == Control(s, i)
<1>1. OnPath(w, k, 0, a.crf) /\ DOMAIN w = Fields
  BY WalkIsControl
<1>2. k.nop_cnt = IF i.op = "NOP" THEN (i.imm0 - 1) % 256 ELSE 0
  BY DEF Control
<1>3. ISA!Arithmetic = Arithmetic
  BY DEF ISA!Arithmetic, Arithmetic
<1>4. ISA!Execute(a, c) =
        CASE i.op = "NOP" -> [w EXCEPT !.nop_cnt = (i.imm0 - 1) % 256]
          [] i.op = "MOV" -> ISA!Mov(w, i, c)
          [] i.op \in Arithmetic -> ISA!Compute(w, i, c)
          [] OTHER -> w
  BY <1>3 DEF ISA!Execute
<1> HIDE DEF w, k
<1>5. CASE i.op = "NOP"
  <2>1. i.op # "MOV" /\ i.op \notin Arithmetic
    BY <1>5 DEF Arithmetic
  <2>2. ISA!Execute(a, c) = [w EXCEPT !.nop_cnt = (i.imm0 - 1) % 256]
    BY <1>4, <1>5, <2>1
  <2>3. "nop_cnt" \in DOMAIN w
    BY <1>1 DEF Fields
  <2> QED
    BY <1>1, <1>2, <1>5, <2>2, <2>3 DEF OnPath, k
<1>6. CASE i.op = "MOV"
  <2>1. i.op # "NOP" /\ i.op \notin Arithmetic
    BY <1>6 DEF Arithmetic
  <2>2. ISA!Execute(a, c) = ISA!Mov(w, i, c)
    BY <1>4, <1>6, <2>1
  <2>3. SamePath(ISA!Mov(w, i, c), w)
    BY <1>1, MovKeepsPath
  <2> QED
    BY <1>1, <1>2, <2>1, <2>2, <2>3 DEF OnPath, SamePath, k
<1>7. CASE i.op \in Arithmetic
  <2>1. i.op # "NOP" /\ i.op # "MOV"
    BY <1>7 DEF Arithmetic
  <2>2. ISA!Execute(a, c) = ISA!Compute(w, i, c)
    BY <1>4, <1>7, <2>1
  <2>3. SamePath(ISA!Compute(w, i, c), w)
    BY <1>1, <1>7, ComputeKeepsPath
  <2> QED
    BY <1>1, <1>2, <2>1, <2>2, <2>3 DEF OnPath, SamePath, k
<1>8. CASE i.op # "NOP" /\ i.op # "MOV" /\ i.op \notin Arithmetic
  <2>1. ISA!Execute(a, c) = w
    BY <1>4, <1>8
  <2> QED
    BY <1>1, <1>2, <1>8, <2>1 DEF OnPath, k
<1> QED
  BY <1>5, <1>6, <1>7, <1>8
-----------------------------------------------------------------------------
(* The program and its counters, cycle by cycle.  "Running" are the facts   *)
(* of the invariant that the path depends on.                               *)
Running(s) ==
    /\ s.pc \in 0..(CRF_ENTRIES - 1) /\ s.nop_cnt \in 0..IMM0_Max
    /\ s.jmp_act \in BOOLEAN /\ s.jmp_cnt \in 0..IMM1_Max
    /\ DOMAIN s.crf = 0..(CRF_ENTRIES - 1)
    /\ \A n \in 0..(CRF_ENTRIES - 1) : Placed(s.crf[n], n)
    /\ s.grf_wr_cnt \in 0..(DQ_CLK - 1) /\ s.grf_wr_cnt = s.DQCycle
    /\ s.DQCycle > 0 => s.row \in GRFs

Waits(s) == IF s.nop_cnt = 0 THEN 0 ELSE s.nop_cnt - 1

(* A cycle that decodes nothing and writes no instruction only counts the   *)
(* cycles of a NOP down.                                                    *)
LEMMA QuietCycle ==
    ASSUME NEW s, Running(s), NEW c, ~Interface(s, c).decode_en,
           Interface(s, c).row # "CRF"
    PROVE  OnPath(Step(s, c), s, Waits(s), s.crf)
<1>1. ~Decodes(s, c)
  BY DEF Decodes
<1>2. Step(s, c).crf = s.crf
  BY CRFField
<1> QED
  BY <1>1, <1>2, ControlFields DEF OnPath, Waits

(* What the ISA makes of the registers before it looks at the command.      *)
ISABase(a) == [a EXCEPT !.out = ISA!Zero,
                        !.nop_cnt = IF a.nop_cnt > 0 THEN @ - 1 ELSE 0]

(* The path of ISABase: a NOP has waited one cycle more.                    *)
LEMMA BaseIs ==
    ASSUME NEW s, Running(s), NEW a, DOMAIN a = Fields, SamePath(a, s)
    PROVE  /\ OnPath(ISABase(a), s, Waits(s), s.crf)
           /\ DOMAIN ISABase(a) = Fields
<1>1. {"pc", "jmp_act", "jmp_cnt", "nop_cnt", "crf", "out"} \subseteq DOMAIN a
  BY DEF Fields
<1> DEFINE b == ISABase(a)
           n == IF a.nop_cnt > 0 THEN a.nop_cnt - 1 ELSE 0
<1>2. b = [a EXCEPT !.out = ISA!Zero, !.nop_cnt = n]
  BY DEF ISABase
<1>3. n = Waits(s)
  <2>1. a.nop_cnt = s.nop_cnt
    BY DEF SamePath
  <2>2. s.nop_cnt \in 0..IMM0_Max
    BY DEF Running
  <2> QED
    BY <2>1, <2>2 DEF Waits
<1> HIDE DEF b, n
<1>4. /\ b.pc = a.pc /\ b.jmp_act = a.jmp_act /\ b.jmp_cnt = a.jmp_cnt
      /\ b.nop_cnt = n /\ b.crf = a.crf /\ DOMAIN b = DOMAIN a
  BY <1>1, <1>2
<1> QED
  BY <1>3, <1>4 DEF OnPath, SamePath, b

(* The cases of a cycle of the ISA. *)
LEMMA ISACycleIs ==
    ASSUME NEW a, NEW c
    PROVE  /\ c.row = "-" => ISA!Cycle(a, c) = ISABase(a)
           /\ c.row \in Banks /\ a.nop_cnt > 0 => ISA!Cycle(a, c) = ISABase(a)
           /\ c.row \in Banks /\ ~(a.nop_cnt > 0)
                => ISA!Cycle(a, c) = ISA!Execute(ISABase(a), c)
           /\ c.row \in RFs \cup {"CRF"}
                => ISA!Cycle(a, c) = ISA!RegisterWrite(ISABase(a), c)
<1>1. ISA!Banks = Banks /\ "-" \notin Banks
      /\ \A r \in RFs \cup {"CRF"} : r \notin Banks /\ r # "-"
  BY DEF ISA!Banks, Banks, RFs, GRFs, SRFs
<1>2. ISA!Cycle(a, c) = CASE c.row \in Banks -> IF a.nop_cnt > 0 THEN ISABase(a)
                                               ELSE ISA!Execute(ISABase(a), c)
                         [] c.row = "-" -> ISABase(a)
                         [] OTHER -> ISA!RegisterWrite(ISABase(a), c)
  BY <1>1 DEF ISA!Cycle, ISABase
<1> QED
  BY <1>1, <1>2

(* A write by the host moves no control register, and only a write to the   *)
(* CRF changes the program.                                                 *)
LEMMA RegisterWritePath ==
    ASSUME NEW b, DOMAIN b = Fields, NEW c
    PROVE  /\ c.row \in RFs => SamePath(ISA!RegisterWrite(b, c), b)
           /\ c.row = "CRF" => OnPath(ISA!RegisterWrite(b, c), b, b.nop_cnt,
                                      [b.crf EXCEPT ![c.idx] = c.data])
<1>1. ASSUME c.row \in RFs
      PROVE  SamePath(ISA!RegisterWrite(b, c), b)
  <2>1. \A n, v : SamePath(ISA!RFWrite(b, c.row, n, v), b)
    BY <1>1, RFWriteKeepsPath
  <2>2. c.row # "CRF" /\ (c.row \in ISA!SRFs \/ c.row \in ISA!GRFs)
        /\ (c.row \in ISA!SRFs => c.row \notin ISA!GRFs)
    BY <1>1 DEF RFs, GRFs, SRFs, ISA!GRFs, ISA!SRFs
  <2>3. \E n, v : ISA!RegisterWrite(b, c) = ISA!RFWrite(b, c.row, n, v)
    BY <2>2 DEF ISA!RegisterWrite
  <2> QED
    BY <2>1, <2>3
<1>2. ASSUME c.row = "CRF"
      PROVE  OnPath(ISA!RegisterWrite(b, c), b, b.nop_cnt,
                    [b.crf EXCEPT ![c.idx] = c.data])
  <2>1. c.row \notin ISA!SRFs /\ c.row \notin ISA!GRFs
    BY <1>2 DEF ISA!GRFs, ISA!SRFs
  <2>2. ISA!RegisterWrite(b, c) = [b EXCEPT !.crf[c.idx] = c.data]
    BY <1>2, <2>1 DEF ISA!RegisterWrite
  <2>3. "crf" \in DOMAIN b
    BY DEF Fields
  <2> QED
    BY <2>2, <2>3 DEF OnPath
<1> QED
  BY <1>1, <1>2

(* The instruction that the core decodes is the one the ISA executes, and   *)
(* both go on to the same place of the program.                             *)
LEMMA ExecuteOnPath ==
    ASSUME NEW s, Running(s), NEW b, DOMAIN b = Fields, OnPath(b, s, 0, s.crf), NEW c
    PROVE  LET i == Fetch(s.crf, s.pc)
           IN  OnPath(ISA!Execute(b, c), Control(s, i), Control(s, i).nop_cnt, s.crf)
<1> DEFINE i == Fetch(s.crf, s.pc)
<1>1. /\ b.pc = s.pc /\ b.jmp_act = s.jmp_act /\ b.jmp_cnt = s.jmp_cnt
      /\ b.nop_cnt = 0 /\ b.crf = s.crf
  BY DEF OnPath
<1>2. s.pc \in DOMAIN s.crf /\ Placed(s.crf[s.pc], s.pc)
  BY DEF Running
<1>3. i = s.crf[s.pc] /\ i = ISA!Fetch(s.crf, s.pc)
  BY <1>2 DEF Fetch, ISA!Fetch
<1> HIDE DEF i
<1>4. i.op \in Arithmetic => i.dst \in GRFs
  <2>1. Placed(i, s.pc)
    BY <1>2, <1>3
  <2> QED
    BY <2>1 DEF Placed
<1>5. b.jmp_act \in BOOLEAN /\ b.jmp_cnt \in 0..IMM1_Max
  BY <1>1 DEF Running
<1>6. i = ISA!Fetch(b.crf, b.pc)
  BY <1>1, <1>3
<1>7. OnPath(ISA!Execute(b, c), Control(s, i), Control(s, i).nop_cnt, b.crf)
  BY <1>1, <1>4, <1>5, <1>6, ExecutePath
<1> QED
  BY <1>1, <1>7 DEF i

(* One cycle of the core and one cycle of the ISA with the same command     *)
(* leave program, program counter, loop and NOP counters the same.          *)
LEMMA CyclePath ==
    ASSUME NEW s, Running(s), NEW a, DOMAIN a = Fields, SamePath(a, s), NEW c,
           \/ c = Idle
           \/ s.DQCycle = 0 /\ (BankAccess(c) \/ FileAccess(c) \/ CRFAccess(c))
    PROVE  SamePath(Step(s, c), ISA!Cycle(a, c))
<1> DEFINE b == ISABase(a)
<1>1. OnPath(b, s, Waits(s), s.crf) /\ DOMAIN b = Fields
  BY BaseIs
<1>2. CASE c = Idle
  <2>1. ISA!Cycle(a, c) = b
    BY <1>2, IdleIs, ISACycleIs
  <2>2. CASE s.grf_wr_cnt = 0
    <3>1. /\ Interface(s, c).row = s.row /\ ~Interface(s, c).decode_en
          /\ ~Interface(s, c).rf_access
      BY <1>2, <2>2, InterfaceIdle
    <3>2. Step(s, c).crf = s.crf
      BY <3>1, CRFField
    <3>3. ~Decodes(s, c)
      BY <3>1 DEF Decodes
    <3>4. OnPath(Step(s, c), s, Waits(s), s.crf)
      BY <3>2, <3>3, ControlFields DEF OnPath, Waits
    <3> QED
      BY <1>1, <2>1, <3>4 DEF OnPath, SamePath
  <2>3. CASE s.grf_wr_cnt # 0
    <3>1. s.grf_wr_cnt \in 1..(DQ_CLK - 1) /\ s.DQCycle = s.grf_wr_cnt /\ s.row \in GRFs
      BY <2>3, StagesAssumption DEF Running
    <3>2. Interface(s, c).row = s.row /\ ~Interface(s, c).decode_en
      BY <1>2, <3>1, InterfaceSerial
    <3>3. s.row # "CRF"
      BY <3>1 DEF GRFs
    <3>4. OnPath(Step(s, c), s, Waits(s), s.crf)
      BY <3>2, <3>3, QuietCycle
    <3> QED
      BY <1>1, <2>1, <3>4 DEF OnPath, SamePath
  <2> QED
    BY <2>2, <2>3
<1>3. s.DQCycle = 0 => s.grf_wr_cnt = 0
  BY DEF Running
<1>4. CASE s.DQCycle = 0 /\ BankAccess(c)
  <2>1. /\ Interface(s, c).decode_en /\ Interface(s, c).row = c.row
        /\ ~Interface(s, c).rf_access
    BY <1>3, <1>4, InterfaceBank
  <2>2. c.row \in Banks
    BY <1>4 DEF BankAccess
  <2>3. Step(s, c).crf = s.crf
    BY <2>1, CRFField
  <2>4. a.nop_cnt = s.nop_cnt /\ s.nop_cnt \in Nat
    <3>1. a.nop_cnt = s.nop_cnt
      BY DEF SamePath
    <3>2. s.nop_cnt \in 0..IMM0_Max
      BY DEF Running
    <3> QED
      BY <3>1, <3>2
  <2>5. CASE s.nop_cnt > 0
    <3>1. ISA!Cycle(a, c) = b
      BY <2>2, <2>4, <2>5, ISACycleIs
    <3>2. ~Decodes(s, c)
      BY <2>4, <2>5 DEF Decodes
    <3>3. OnPath(Step(s, c), s, Waits(s), s.crf)
      BY <2>3, <3>2, ControlFields DEF OnPath, Waits
    <3> QED
      BY <1>1, <3>1, <3>3 DEF OnPath, SamePath
  <2>6. CASE s.nop_cnt = 0
    <3> DEFINE i == Fetch(s.crf, s.pc)
    <3>1. ISA!Cycle(a, c) = ISA!Execute(b, c)
      BY <2>2, <2>4, <2>6, ISACycleIs
    <3>2. Decodes(s, c)
      BY <2>1, <2>6 DEF Decodes
    <3>3. OnPath(Step(s, c), Control(s, i), Control(s, i).nop_cnt, s.crf)
      BY <2>3, <3>2, ControlFields DEF OnPath
    <3>4. OnPath(b, s, 0, s.crf)
      BY <1>1, <2>6 DEF Waits
    <3>5. OnPath(ISA!Execute(b, c), Control(s, i), Control(s, i).nop_cnt, s.crf)
      BY <1>1, <3>4, ExecuteOnPath
    <3> QED
      BY <3>1, <3>3, <3>5 DEF OnPath, SamePath
  <2> QED
    BY <2>4, <2>5, <2>6
<1>5. CASE s.DQCycle = 0 /\ FileAccess(c)
  <2>1. Interface(s, c).row = c.row /\ ~Interface(s, c).decode_en
    <3>1. s.grf_wr_cnt = 0 /\ s.DQCycle = 0 /\ FileAccess(c)
      BY <1>3, <1>5, Zenon
    <3> QED
      BY <3>1, InterfaceFile, Zenon
  <2>2. c.row \in RFs /\ c.row # "CRF"
    BY <1>5 DEF FileAccess, RFs, GRFs, SRFs
  <2>3. OnPath(Step(s, c), s, Waits(s), s.crf)
    BY <2>1, <2>2, QuietCycle
  <2>4. ISA!Cycle(a, c) = ISA!RegisterWrite(b, c)
    BY <2>2, ISACycleIs
  <2> HIDE DEF b
  <2>5. SamePath(ISA!RegisterWrite(b, c), b)
    BY <1>1, <2>2, RegisterWritePath
  <2> QED
    BY <1>1, <2>3, <2>4, <2>5 DEF OnPath, SamePath
<1>6. CASE s.DQCycle = 0 /\ CRFAccess(c)
  <2>1. /\ Interface(s, c).row = "CRF" /\ ~Interface(s, c).decode_en
        /\ Interface(s, c).rf_access /\ Interface(s, c).idx = c.idx
    BY <1>3, <1>6, InterfaceCRF
  <2>2. Step(s, c).crf = [s.crf EXCEPT ![c.idx] = c.data]
    BY <2>1, CRFField
  <2>3. ~Decodes(s, c)
    BY <2>1 DEF Decodes
  <2>4. OnPath(Step(s, c), s, Waits(s), [s.crf EXCEPT ![c.idx] = c.data])
    BY <2>2, <2>3, ControlFields DEF OnPath, Waits
  <2>5. c.row = "CRF"
    BY <1>6 DEF CRFAccess
  <2>6. ISA!Cycle(a, c) = ISA!RegisterWrite(b, c)
    BY <2>5, ISACycleIs
  <2> HIDE DEF b
  <2>7. OnPath(ISA!RegisterWrite(b, c), b, b.nop_cnt, [b.crf EXCEPT ![c.idx] = c.data])
    BY <1>1, <2>5, RegisterWritePath
  <2> QED
    BY <1>1, <2>4, <2>6, <2>7 DEF OnPath, SamePath
<1> QED
  BY <1>2, <1>4, <1>5, <1>6

(* Control part of the refinement: a step moves program, program counter,   *)
(* loop and NOP counters as one cycle of the ISA does.                      *)
FollowsISA == SamePath(Arch', ISA!Cycle(Arch, cmd'))

(* For every depth of the pipelines, every program and every interleaving   *)
(* of commands: the core takes the path through the program that CnmISA     *)
(* prescribes, JUMP, NOP, EXIT, wrap of the counter and rewriting of the    *)
(* program while it runs included (instr_decoder and pc_unit).              *)
THEOREM ProgramPath == Spec => [][FollowsISA]_vars
<1>1. ASSUME CoreInv, Next PROVE FollowsISA
  <2>1. PICK c : /\ Cycle(c)
                 /\ \/ c = Idle
                    \/ /\ issued < MaxCmds /\ core.DQCycle = 0
                       /\ BankAccess(c) \/ FileAccess(c) \/ CRFAccess(c)
    BY <1>1, StepIs
  <2>2. core' = Step(core, c) /\ cmd' = c
    BY <2>1 DEF Cycle
  <2>3. Running(core)
    BY <1>1 DEF CoreInv, TypeOK, SerialInStep, RegistersInv, Running
  <2>4. DOMAIN Arch = Fields
    BY DEF Arch, Fields, RFs, GRFs, SRFs
  <2>5. SamePath(Arch, core) /\ SamePath(Arch', core')
    BY DEF Arch, SamePath
  <2> DEFINE s == core
             a == Arch
  <2>6. SamePath(Step(s, c), ISA!Cycle(a, c))
    <3>1. Running(s) /\ DOMAIN a = Fields /\ SamePath(a, s)
          /\ (c = Idle \/ (s.DQCycle = 0
                            /\ (BankAccess(c) \/ FileAccess(c) \/ CRFAccess(c))))
      BY <2>1, <2>3, <2>4, <2>5
    <3> HIDE DEF s, a
    <3> QED
      BY <3>1, CyclePath
  <2> QED
    BY <2>2, <2>5, <2>6 DEF FollowsISA, SamePath
<1> QED
  BY <1>1, CoreInvariant, PTL DEF Spec
==============================================================================
