--------------------------- MODULE KernelRunProofs ---------------------------
(***************************************************************************)
(* Host and core stay in step, for every sequence of well-formed kernels,  *)
(* every number of loops and repetitions, and every size of the CRF.       *)
(*                                                                         *)
(* The inductive invariant says where the core stands for every position   *)
(* of the host: in the line of the phase at the entry of the next command, *)
(* with the jump counter at the iterations the host still has to do, and,  *)
(* between the JUMP of one iteration and the next, back at the loop.       *)
(*                                                                         *)
(* What an accumulator has summed is proved with outlines of the phases: a *)
(* value for every place of the line that each instruction takes to the    *)
(* value of the next place, and the JUMP back to the value of the loop.    *)
(***************************************************************************)
EXTENDS KernelRun, TLAPS

(* The next entry after n commands of the line: the core is back at 0 when *)
(* the line is done.                                                       *)
Entry(p, n) == IF n = Length(p) THEN 0 ELSE n

Offset(p, part) ==
    CASE part = "init" -> 0
      [] part = "body" -> Steps(p, "init")
      [] part = "tail" -> LoopEnd(p)

Place ==
    /\ ran \in Nat
    /\ kern \in DOMAIN Kernels /\ phase \in 1..Phases(Kernels[kern])
    /\ stage \in {"idle", "write"} \cup Parts
    /\ rep \in Nat /\ iter \in Nat /\ k \in Nat
    /\ stage \in Parts => k <= Steps(Current, stage)
    /\ stage = "write" => k <= Lines(Current)
    /\ stage = "body" => iter < Current.loops

Listing ==
    /\ DOMAIN crf = 0..(CRF_ENTRIES - 1)
    /\ \A n \in 1..Length(Current) :
          \/ stage \in Parts
          \/ stage = "write" /\ n <= Current.base + k
          => crf[n - 1] = At(Current, n).instr

Counters == [pc : 0..(CRF_ENTRIES - 1), jmp_act : BOOLEAN,
             jmp_cnt : 0..(IMM1_Limit - 1)]

(* The host has done the JUMP of an iteration that is not the last. *)
Returned ==
    stage = "body" /\ k = Steps(Current, "body") /\ iter + 1 < Current.loops

Together ==
    /\ ctl \in Counters
    /\ stage \in {"idle", "write"} => ctl.pc = 0 /\ ~ctl.jmp_act
    /\ stage \in {"init", "tail"} => ~ctl.jmp_act
    /\ stage \in Parts /\ ~Returned =>
          ctl.pc = Entry(Current, Offset(Current, stage) + k)
    /\ stage = "body" /\ k < Steps(Current, "body") =>
          /\ ctl.jmp_act <=> iter > 0
          /\ iter > 0 => ctl.jmp_cnt = Current.loops - 1 - iter
    /\ stage = "body" /\ k = Steps(Current, "body") /\ ~Returned =>
          ~ctl.jmp_act
    /\ Returned => /\ ctl.pc = Steps(Current, "init")
                   /\ ctl.jmp_act /\ ctl.jmp_cnt = Current.loops - 2 - iter

Inv == Place /\ Listing /\ Together

AllWellFormed ==
    /\ 1 \in DOMAIN Kernels
    /\ \A n \in DOMAIN Kernels : WellFormed(Kernels[n])

-----------------------------------------------------------------------------
(* Arithmetic of the program counter and of the jump counter. *)
LEMMA SmallMod ==
    ASSUME NEW m \in Nat \ {0}, NEW x \in 0..m
    PROVE  x % m = IF x = m THEN 0 ELSE x
  OBVIOUS

(* The counter reaches zero with the host's last iteration. *)
LEMMA Countdown ==
    ASSUME NEW n \in Nat, NEW j \in Nat, n > 1, j < n
    PROVE  /\ j + 1 >= n => j > 0 /\ n - 1 - j = 0
           /\ j + 1 < n => n - 1 - j # 0 /\ n - 2 - j \in 0..(n - 2)
           /\ (n - 1 - j) - 1 = n - 2 - j
           /\ j = 0 => (n - 1) - 1 = n - 2 - j
  OBVIOUS

(* The phase being executed satisfies what is asked of phases. *)
LEMMA CurrentOK ==
    ASSUME AllWellFormed, Place
    PROVE  /\ PhaseOK(Current)
           /\ phase = 1 => Current.base = 0
<1>1. WellFormed(Kernels[kern])
  BY DEF AllWellFormed, Place
<1> QED
  BY <1>1 DEF WellFormed, Place, Current

(* Lengths of a phase are numbers and its line fits the CRF. *)
Sizes(p) ==
    /\ Steps(p, "init") \in Nat /\ Steps(p, "body") \in Nat
    /\ Steps(p, "tail") \in Nat
    /\ LoopEnd(p) = Steps(p, "init") + Steps(p, "body")
    /\ Length(p) = LoopEnd(p) + Steps(p, "tail")
    /\ Length(p) \in 1..CRF_ENTRIES
    /\ CRF_ENTRIES \in Nat \ {0} /\ CRF_ENTRIES <= 256
    /\ p.loops \in 0..IMM1_Limit /\ p.reps \in Nat
    /\ p.base \in Nat /\ Lines(p) \in Nat
    /\ IMM1_Limit \in Nat \ {0}

(* A phase that is safe has sizes. *)
LEMMA Lengths ==
    ASSUME NEW p, PhaseOK(p)
    PROVE  Sizes(p)
  BY StagesAssumption, Imm1Assumption
  DEF PhaseOK, LineOK, LoopCounts, CodeInPlace, Length, LoopEnd, Parts, Sizes

(* Every command of a part is the one at the part's place in the line. *)
LEMMA PartOfLine ==
    ASSUME NEW p, PhaseOK(p), NEW part \in Parts, NEW n \in Nat,
           n < Steps(p, part)
    PROVE  /\ Offset(p, part) + n + 1 \in 1..Length(p)
           /\ At(p, Offset(p, part) + n + 1) = p[part][n + 1]
<1>1. Sizes(p)
  BY Lengths
<1>2. CASE part = "init"
  BY <1>1, <1>2 DEF Sizes, Offset, At
<1>3. CASE part = "body"
  BY <1>1, <1>3 DEF Sizes, Offset, At
<1>4. CASE part = "tail"
  BY <1>1, <1>4 DEF Sizes, Offset, At
<1> QED BY <1>2, <1>3, <1>4 DEF Parts

(* An instruction that does not jump takes the core to the next entry of   *)
(* the line, and from the end of the line to entry 0.                      *)
LEMMA WalkOn ==
    ASSUME NEW p, PhaseOK(p), NEW n \in 1..Length(p), NEW c \in Counters,
           c.pc = n - 1, At(p, n).instr.op # "JUMP"
    PROVE  /\ Walk(c, At(p, n).instr) \in Counters
           /\ Walk(c, At(p, n).instr).pc = Entry(p, n)
           /\ Walk(c, At(p, n).instr).jmp_act = c.jmp_act
           /\ Walk(c, At(p, n).instr).jmp_cnt = c.jmp_cnt
<1> DEFINE i == At(p, n).instr
<1>0. Sizes(p)
  BY Lengths
<1>1. CASE i.op = "EXIT"
  <2>1. n = Length(p)
    BY <1>1 DEF PhaseOK, LineOK
  <2> QED BY <1>1, <2>1, <1>0 DEF Sizes, Walk, Entry, Counters
<1>2. CASE i.op # "EXIT"
  <2>1. n = Length(p) => n = CRF_ENTRIES
    BY <1>2, <1>0 DEF Sizes, PhaseOK, LineOK
  <2>2. Walk(c, i) = [c EXCEPT !.pc = NextPC(c.pc)]
    BY <1>2 DEF Walk
  <2>3. NextPC(c.pc) = Entry(p, n) /\ Entry(p, n) \in 0..(CRF_ENTRIES - 1)
    <3>1. n \in 0..CRF_ENTRIES /\ CRF_ENTRIES \in Nat \ {0}
      BY <1>0 DEF Sizes
    <3>2. NextPC(c.pc) = IF n = CRF_ENTRIES THEN 0 ELSE n
      BY <3>1 DEF NextPC
    <3> QED BY <2>1, <3>1, <3>2, <1>0 DEF Sizes, Entry
  <2> QED BY <2>2, <2>3 DEF Counters
<1> QED BY <1>1, <1>2

(* The JUMP at the end of the loop: back to the start of the body while    *)
(* the host has iterations left, and on after the last one.                *)
LEMMA WalkJump ==
    ASSUME NEW p, PhaseOK(p), p.loops > 1, NEW c \in Counters,
           c.pc = LoopEnd(p) - 1, NEW j \in Nat, j < p.loops,
           c.jmp_act <=> j > 0, j > 0 => c.jmp_cnt = p.loops - 1 - j
    PROVE  LET w == Walk(c, At(p, LoopEnd(p)).instr)
           IN /\ w \in Counters
              /\ j + 1 < p.loops => /\ w.pc = Steps(p, "init") /\ w.jmp_act
                                    /\ w.jmp_cnt = p.loops - 2 - j
              /\ j + 1 >= p.loops => /\ w.pc = Entry(p, LoopEnd(p))
                                     /\ ~w.jmp_act
<1> DEFINE i == At(p, LoopEnd(p)).instr
<1>0. Sizes(p)
  BY Lengths
<1>1. /\ LoopEnd(p) \in 1..Length(p) /\ Steps(p, "body") > 0
      /\ i.imm0 = Steps(p, "body") - 1 /\ i.imm1 = p.loops - 1
  BY <1>0 DEF Sizes, PhaseOK, LoopCounts
<1>2. i.op = "JUMP"
  BY <1>1 DEF PhaseOK, LineOK
<1>2a. LoopEnd(p) = Length(p) => Length(p) = CRF_ENTRIES
  BY <1>2, <1>0 DEF Sizes, PhaseOK, LineOK
<1>c. p.loops \in Nat
  BY <1>0 DEF Sizes
<1>3. Walk(c, i) = Jump(c, i)
  BY <1>2 DEF Walk
<1>4. /\ (c.pc - i.imm0) % 256 = Steps(p, "init")
      /\ Steps(p, "init") \in 0..(CRF_ENTRIES - 1)
  <2>1. Steps(p, "init") \in 0..(CRF_ENTRIES - 1)
    BY <1>1, <1>0 DEF Sizes
  <2>2. c.pc - i.imm0 = Steps(p, "init")
    BY <1>1, <1>0 DEF Sizes
  <2>3. Steps(p, "init") \in Nat /\ Steps(p, "init") < 256
    BY <2>1, <1>0 DEF Sizes
  <2>4. \A x \in Nat : x < 256 => x % 256 = x
    OBVIOUS
  <2> QED BY <2>1, <2>2, <2>3, <2>4, Zenon
<1>5. /\ NextPC(c.pc) = Entry(p, LoopEnd(p))
      /\ NextPC(c.pc) \in 0..(CRF_ENTRIES - 1)
  <2>1. LoopEnd(p) \in 0..CRF_ENTRIES /\ CRF_ENTRIES \in Nat \ {0}
    BY <1>1, <1>0 DEF Sizes
  <2>2. NextPC(c.pc) = IF LoopEnd(p) = CRF_ENTRIES THEN 0 ELSE LoopEnd(p)
    BY <2>1 DEF NextPC
  <2> QED BY <1>1, <1>2a, <2>1, <2>2, <1>0 DEF Sizes, Entry
<1>6. CASE j + 1 < p.loops
  <2>1. ~(c.jmp_act /\ c.jmp_cnt = 0)
    BY <1>6, <1>0 DEF Sizes
  <2>2. (IF c.jmp_act THEN c.jmp_cnt ELSE i.imm1) - 1 = p.loops - 2 - j
    <3>1. CASE j > 0
      BY <3>1, <1>c, Countdown
    <3>2. CASE j = 0
      <4>1. i.imm1 = p.loops - 1 /\ ~c.jmp_act
        BY <3>2, <1>1
      <4> QED BY <3>2, <4>1, <1>c, Countdown
    <3> QED BY <3>1, <3>2
  <2>3. Jump(c, i) = [c EXCEPT !.jmp_act = TRUE, !.jmp_cnt = p.loops - 2 - j,
                               !.pc = Steps(p, "init")]
    BY <2>1, <2>2, <1>4 DEF Jump
  <2>4. p.loops - 2 - j \in 0..(IMM1_Limit - 1)
    BY <1>6, <1>c, <1>0, Countdown DEF Sizes
  <2>5. /\ Jump(c, i) \in Counters
        /\ Jump(c, i).pc = Steps(p, "init") /\ Jump(c, i).jmp_act
        /\ Jump(c, i).jmp_cnt = p.loops - 2 - j
    BY <1>4, <2>3, <2>4 DEF Counters
  <2>6. ~(j + 1 >= p.loops)
    BY <1>6, <1>c
  <2> QED BY <1>3, <2>5, <2>6
<1>7. CASE j + 1 >= p.loops
  <2>0. j > 0 /\ p.loops - 1 - j = 0
    BY <1>7, <1>c, Countdown
  <2>1. c.jmp_act /\ c.jmp_cnt = 0
    BY <2>0
  <2>2. Jump(c, i) = [c EXCEPT !.jmp_act = FALSE, !.pc = NextPC(c.pc)]
    BY <2>1 DEF Jump
  <2>3. /\ Jump(c, i) \in Counters
        /\ Jump(c, i).pc = Entry(p, LoopEnd(p)) /\ ~Jump(c, i).jmp_act
    BY <1>5, <2>2 DEF Counters
  <2>4. ~(j + 1 < p.loops)
    BY <1>7, <1>c
  <2> QED BY <1>3, <2>3, <2>4
<1> QED BY <1>6, <1>7, <1>0 DEF Sizes

-----------------------------------------------------------------------------
(* The invariant holds initially and every action keeps it. *)

(* Before the first kernel. *)
LEMMA InitInv ==
    ASSUME AllWellFormed, Init
    PROVE  Inv
<1>1. WellFormed(Kernels[1]) /\ 1 \in DOMAIN Kernels
  BY DEF AllWellFormed
<1>2. Place
  BY <1>1 DEF Init, Place, Parts, WellFormed
<1>3. Listing
  BY DEF Init, Listing, Parts
<1>4. Together
  BY StagesAssumption, Imm1Assumption
  DEF Init, Together, Parts, Counters, Returned
<1> QED BY <1>2, <1>3, <1>4 DEF Inv

(* Starting a kernel. *)
LEMMA StartInv ==
    ASSUME AllWellFormed, Inv, NEW n \in DOMAIN Kernels, Start(n)
    PROVE  Inv'
<1>1. WellFormed(Kernels[n])
  BY DEF AllWellFormed
<1>2. /\ Current' = Kernels[n][1] /\ PhaseOK(Kernels[n][1])
      /\ Kernels[n][1].base = 0 /\ 1 \in 1..Phases(Kernels[n])
  BY <1>1 DEF WellFormed, Start, Current
<1>3. Sizes(Current')
  BY <1>2, Lengths
<1>4. Place'
  BY <1>2, <1>3 DEF Inv, Place, Start, Parts, Sizes
<1>5. Listing'
  <2>1. crf' = crf /\ stage' = "write" /\ k' = 0 /\ Current'.base = 0
    BY <1>2 DEF Start, core
  <2> QED BY <2>1, <1>3 DEF Inv, Listing, Parts, Sizes
<1>6. Together'
  BY DEF Inv, Together, Start, core, Parts, Counters, Returned
<1> QED BY <1>4, <1>5, <1>6 DEF Inv

(* Writing an instruction of the phase into the CRF. *)
LEMMA WriteInv ==
    ASSUME AllWellFormed, Inv, WriteInstr
    PROVE  Inv'
<1>1. PhaseOK(Current) /\ Sizes(Current) /\ Current' = Current
  BY CurrentOK, Lengths DEF Inv, WriteInstr, Current
<1>2. Place'
  BY <1>1 DEF Inv, Place, WriteInstr, Parts, Sizes
<1>3. Listing'
  <2>1. /\ stage = "write" /\ stage' = "write" /\ k \in Nat /\ k' = k + 1
        /\ Current.base \in Nat /\ Length(Current) \in Nat
        /\ crf' = [crf EXCEPT ![Current.base + k] = Current.code[k + 1]]
        /\ DOMAIN crf = 0..(CRF_ENTRIES - 1)
        /\ CRF_ENTRIES \in Nat /\ k < Lines(Current) /\ Lines(Current) \in Nat
    BY <1>1 DEF Inv, Place, Listing, WriteInstr, Sizes
  <2>2. Current.base + k \in 0..(CRF_ENTRIES - 1)
    BY <1>1, <2>1 DEF PhaseOK, CodeInPlace
  <2>3. ASSUME NEW n \in 1..Length(Current), n <= Current.base + k + 1
        PROVE  crf'[n - 1] = At(Current, n).instr
    <3>1. CASE n = Current.base + k + 1
      <4>1. n > Current.base /\ n - Current.base = k + 1
            /\ n - 1 = Current.base + k
        BY <2>1, <3>1
      <4>2. Current.code[n - Current.base] = At(Current, n).instr
        BY <1>1, <4>1 DEF PhaseOK, CodeInPlace
      <4> QED BY <2>1, <2>2, <4>1, <4>2
    <3>2. CASE n # Current.base + k + 1
      <4>1. n <= Current.base + k
        BY <2>1, <2>3, <3>2
      <4>2. crf[n - 1] = At(Current, n).instr
        BY <2>1, <4>1 DEF Inv, Listing
      <4> QED BY <2>1, <2>2, <3>2, <4>2
    <3> QED BY <3>1, <3>2
  <2>4. DOMAIN crf' = 0..(CRF_ENTRIES - 1)
    BY <2>1
  <2> QED BY <1>1, <2>1, <2>3, <2>4 DEF Listing, Parts
<1>4. Together'
  BY DEF Inv, Together, WriteInstr, Parts, Counters, Returned
<1> QED BY <1>2, <1>3, <1>4 DEF Inv

(* The program is in place, the commands begin. *)
LEMMA BeginInv ==
    ASSUME AllWellFormed, Inv, BeginCommands
    PROVE  Inv'
<1>1. PhaseOK(Current) /\ Sizes(Current) /\ Current' = Current
  BY CurrentOK, Lengths DEF Inv, BeginCommands, Current
<1>2. Place'
  BY <1>1 DEF Inv, Place, BeginCommands, Parts, Sizes
<1>3. Listing'
  <2>1. Length(Current) <= Current.base + k
    BY <1>1 DEF PhaseOK, CodeInPlace, BeginCommands, Sizes
  <2>2. \A n \in 1..Length(Current) : crf[n - 1] = At(Current, n).instr
    BY <1>1, <2>1 DEF Inv, Listing, BeginCommands, Place, Sizes
  <2> QED BY <1>1, <2>2 DEF Inv, Listing, BeginCommands, core
<1>4. Together'
  <2>1. Entry(Current, 0) = 0
    BY DEF Entry
  <2> QED
    BY <1>1, <2>1
    DEF Inv, Together, BeginCommands, core, Parts, Counters, Returned, Offset
<1> QED BY <1>2, <1>3, <1>4 DEF Inv

(* The command of the host's next step finds its instruction. *)
LEMMA FoundInstr ==
    ASSUME AllWellFormed, Inv, Issuing
    PROVE  /\ PhaseOK(Current) /\ Sizes(Current)
           /\ ctl.pc = Offset(Current, stage) + k
           /\ Offset(Current, stage) + k + 1 \in 1..Length(Current)
           /\ Cmd = At(Current, Offset(Current, stage) + k + 1)
           /\ Fetch(crf, ctl.pc) = Cmd.instr
<1>1. PhaseOK(Current) /\ Sizes(Current)
  BY CurrentOK, Lengths DEF Inv
<1>2. /\ stage \in Parts /\ k \in Nat /\ k < Steps(Current, stage)
      /\ Steps(Current, stage) \in Nat
  BY <1>1 DEF Issuing, Inv, Place, Sizes, Parts
<1>3. /\ Offset(Current, stage) + k + 1 \in 1..Length(Current)
      /\ Cmd = At(Current, Offset(Current, stage) + k + 1)
  BY <1>1, <1>2, PartOfLine DEF Cmd, Steps
<1>4. Offset(Current, stage) \in Nat
  BY <1>1, <1>2 DEF Offset, Sizes, Parts
<1>5. ~Returned
  BY <1>2 DEF Returned
<1>6. Entry(Current, Offset(Current, stage) + k) = Offset(Current, stage) + k
  BY <1>1, <1>2, <1>3, <1>4 DEF Entry, Sizes
<1>7. ctl.pc = Offset(Current, stage) + k
  BY <1>2, <1>5, <1>6 DEF Inv, Together
<1>8. crf[ctl.pc] = Cmd.instr
  <2>1. (Offset(Current, stage) + k + 1) - 1 = ctl.pc
    BY <1>2, <1>4, <1>7
  <2> QED BY <1>2, <1>3, <2>1 DEF Inv, Listing
<1>9. ctl.pc \in DOMAIN crf
  <2>1. Length(Current) \in Nat /\ Length(Current) <= CRF_ENTRIES
    BY <1>1 DEF Sizes
  <2>2. DOMAIN crf = 0..(CRF_ENTRIES - 1)
    BY <1>2 DEF Inv, Listing
  <2>3. ctl.pc + 1 \in 1..Length(Current) /\ ctl.pc \in Nat
    BY <1>2, <1>3, <1>4, <1>7
  <2> QED BY <2>1, <2>2, <2>3, StagesAssumption
<1> QED BY <1>1, <1>3, <1>7, <1>8, <1>9 DEF Fetch

(* A command: host and core both go one place on, or the core jumps back. *)
LEMMA CommandInv ==
    ASSUME AllWellFormed, Inv, Command
    PROVE  Inv'
<1> DEFINE n == Offset(Current, stage) + k + 1
<1>1. /\ PhaseOK(Current) /\ Sizes(Current) /\ Current' = Current
      /\ n \in 1..Length(Current) /\ ctl.pc = n - 1
      /\ ctl' = Walk(ctl, At(Current, n).instr)
  <2>1. Issuing
    BY DEF Command
  <2>2. /\ PhaseOK(Current) /\ Sizes(Current) /\ n \in 1..Length(Current)
        /\ ctl.pc = Offset(Current, stage) + k
        /\ Fetch(crf, ctl.pc) = At(Current, n).instr
    BY <2>1, FoundInstr
  <2>3. Offset(Current, stage) \in Nat /\ k \in Nat
    BY <2>1, <2>2 DEF Issuing, Offset, Sizes, Parts, Inv, Place
  <2>4. ctl.pc = n - 1
    BY <2>2, <2>3
  <2> QED BY <2>2, <2>4 DEF Command, Current
<1>2. /\ stage \in Parts /\ stage' = stage /\ k \in Nat /\ k' = k + 1
      /\ k < Steps(Current, stage) /\ iter' = iter /\ iter \in Nat
      /\ Steps(Current, stage) \in Nat
  BY <1>1 DEF Command, Issuing, Inv, Place, Sizes, Parts
<1>3. Place'
  BY <1>1, <1>2 DEF Inv, Place, Command, Parts
<1>4. Listing'
  BY <1>1, <1>2 DEF Inv, Listing, Command
<1>5. Together'
  <2>1. ctl \in Counters
    BY DEF Inv, Together
  <2>2. CASE At(Current, n).instr.op # "JUMP"
    <3>1. /\ ctl' \in Counters /\ ctl'.pc = Entry(Current, n)
          /\ ctl'.jmp_act = ctl.jmp_act /\ ctl'.jmp_cnt = ctl.jmp_cnt
      BY <1>1, <2>1, <2>2, WalkOn
    <3>2. Offset(Current, stage) + k' = n
      BY <1>1, <1>2 DEF Offset, Sizes, Parts
    <3>3. CASE stage # "body"
      BY <1>1, <1>2, <3>1, <3>2, <3>3 DEF Inv, Together, Returned, Parts
    <3>4. CASE stage = "body" /\ k + 1 < Steps(Current, "body")
      BY <1>1, <1>2, <3>1, <3>2, <3>4 DEF Inv, Together, Returned, Parts
    <3>5. CASE stage = "body" /\ k + 1 = Steps(Current, "body")
      <4>1. n = LoopEnd(Current)
        BY <1>1, <1>2, <3>5 DEF Offset, Sizes
      <4>2. ~(Current.loops > 1)
        BY <1>1, <2>2, <4>1 DEF PhaseOK, LineOK
      <4>3. iter = 0 /\ ~(iter + 1 < Current.loops)
        BY <1>1, <1>2, <3>5, <4>2 DEF Inv, Place, Sizes
      <4>4. ~ctl.jmp_act
        BY <1>2, <3>5, <4>3 DEF Inv, Together
      <4> QED
        BY <1>1, <1>2, <3>1, <3>2, <3>5, <4>3, <4>4
        DEF Together, Returned, Parts
    <3> QED BY <1>1, <1>2, <3>3, <3>4, <3>5 DEF Sizes
  <2>3. CASE At(Current, n).instr.op = "JUMP"
    <3>1. Current.loops > 1 /\ n = LoopEnd(Current)
      BY <1>1, <2>3 DEF PhaseOK, LineOK
    <3>2. Steps(Current, "body") > 0
      BY <1>1, <3>1 DEF PhaseOK, LoopCounts
    <3>3. stage = "body" /\ k + 1 = Steps(Current, "body")
      BY <1>1, <1>2, <3>1, <3>2 DEF Offset, Sizes, Parts
    <3>4. /\ iter < Current.loops
          /\ ctl.jmp_act <=> iter > 0
          /\ iter > 0 => ctl.jmp_cnt = Current.loops - 1 - iter
      BY <1>2, <3>3 DEF Inv, Place, Together
    <3>5. /\ ctl' \in Counters
          /\ iter + 1 < Current.loops =>
                /\ ctl'.pc = Steps(Current, "init") /\ ctl'.jmp_act
                /\ ctl'.jmp_cnt = Current.loops - 2 - iter
          /\ iter + 1 >= Current.loops =>
                /\ ctl'.pc = Entry(Current, LoopEnd(Current))
                /\ ~ctl'.jmp_act
      BY <1>1, <1>2, <2>1, <3>1, <3>4, WalkJump
    <3>6. Offset(Current, "body") + k' = LoopEnd(Current)
      BY <1>1, <1>2, <3>3 DEF Offset, Sizes
    <3>7. Returned' <=> iter + 1 < Current.loops
      BY <1>1, <1>2, <3>3 DEF Returned
    <3>8. Current.loops \in Int
      BY <1>1 DEF Sizes
    <3>9. CASE iter + 1 < Current.loops
      BY <1>1, <1>2, <3>3, <3>5, <3>7, <3>9 DEF Together, Parts
    <3>10. CASE iter + 1 >= Current.loops
      BY <1>1, <1>2, <3>3, <3>5, <3>6, <3>7, <3>8, <3>10 DEF Together, Parts
    <3> QED BY <1>2, <3>8, <3>9, <3>10
  <2> QED BY <2>2, <2>3
<1> QED BY <1>3, <1>4, <1>5 DEF Inv

(* The host's test before the loop. *)
LEMMA EnterInv ==
    ASSUME AllWellFormed, Inv, EnterLoop
    PROVE  Inv'
<1>1. PhaseOK(Current) /\ Sizes(Current) /\ Current' = Current
  BY CurrentOK, Lengths DEF Inv, EnterLoop, Current
<1>2. /\ stage = "init" /\ k = Steps(Current, "init") /\ k' = 0 /\ iter' = 0
      /\ ctl' = ctl /\ crf' = crf /\ Current.loops \in Nat
      /\ stage' = IF Current.loops > 0 THEN "body" ELSE "tail"
  BY <1>1 DEF EnterLoop, core, Sizes
<1>3. Place'
  BY <1>1, <1>2 DEF Inv, Place, EnterLoop, Parts, Sizes
<1>4. Listing'
  BY <1>1, <1>2 DEF Inv, Listing, Parts
<1>5. Together'
  <2>1. /\ ctl \in Counters /\ ~ctl.jmp_act
        /\ ctl.pc = Entry(Current, Steps(Current, "init"))
    BY <1>1, <1>2 DEF Inv, Together, Returned, Offset, Parts, Sizes
  <2>2. CASE Current.loops > 0
    <3>1. /\ stage' = "body"
          /\ Offset(Current, "body") + 0 = Steps(Current, "init")
      BY <1>1, <1>2, <2>2 DEF Offset, Sizes
    <3>2. Returned' => Steps(Current, "body") = 0 /\ Current.loops > 1
      BY <1>1, <1>2 DEF Returned
    <3>3. ~Returned'
      BY <1>1, <3>2 DEF PhaseOK, LoopCounts
    <3> QED BY <1>1, <1>2, <2>1, <3>1, <3>3 DEF Together, Parts
  <2>3. CASE ~(Current.loops > 0)
    <3>1. Current.loops = 0
      BY <1>2, <2>3
    <3>2. /\ stage' = "tail"
          /\ Offset(Current, "tail") + 0 = Steps(Current, "init")
      BY <1>1, <1>2, <3>1 DEF Offset, Sizes, PhaseOK, LoopCounts
    <3> QED BY <1>1, <1>2, <2>1, <3>2 DEF Together, Parts, Returned
  <2> QED BY <2>2, <2>3
<1> QED BY <1>3, <1>4, <1>5 DEF Inv

(* The host's test after an iteration. *)
LEMMA IterationInv ==
    ASSUME AllWellFormed, Inv, NextIteration
    PROVE  Inv'
<1>1. PhaseOK(Current) /\ Sizes(Current) /\ Current' = Current
  BY CurrentOK, Lengths DEF Inv, NextIteration, Current
<1>2. /\ stage = "body" /\ k = Steps(Current, "body") /\ k' = 0
      /\ iter \in Nat /\ iter < Current.loops /\ iter' = iter + 1
      /\ ctl' = ctl /\ crf' = crf /\ Current.loops \in Nat
      /\ stage' = IF iter + 1 < Current.loops THEN "body" ELSE "tail"
  BY <1>1 DEF NextIteration, core, Sizes, Inv, Place
<1>3. Place'
  BY <1>1, <1>2 DEF Inv, Place, NextIteration, Parts, Sizes
<1>4. Listing'
  BY <1>1, <1>2 DEF Inv, Listing, Parts
<1>5. Together'
  <2>1. CASE iter + 1 < Current.loops
    <3>1. /\ ctl \in Counters /\ ctl.pc = Steps(Current, "init")
          /\ ctl.jmp_act /\ ctl.jmp_cnt = Current.loops - 2 - iter
      BY <1>2, <2>1 DEF Inv, Together, Returned
    <3>2. /\ Current.loops > 1
          /\ Current.loops - 1 - iter' = Current.loops - 2 - iter
      BY <1>2, <2>1
    <3>3. Steps(Current, "body") > 0
      BY <1>1, <3>2 DEF PhaseOK, LoopCounts
    <3>4. ~Returned'
      BY <1>1, <1>2, <3>3 DEF Returned, Sizes
    <3>5. stage' = "body" /\ iter' > 0
      BY <1>2, <2>1
    <3>6. Entry(Current, Offset(Current, "body") + 0) = Steps(Current, "init")
      BY <1>1, <3>3 DEF Entry, Offset, Sizes
    <3> QED
      BY <1>1, <1>2, <3>1, <3>2, <3>3, <3>4, <3>5, <3>6 DEF Together, Parts
  <2>2. CASE ~(iter + 1 < Current.loops)
    <3>1. /\ ctl \in Counters /\ ~ctl.jmp_act
          /\ ctl.pc = Entry(Current, Offset(Current, "body") + k)
      BY <1>2, <2>2 DEF Inv, Together, Returned, Parts
    <3>2. Offset(Current, "body") + k = Offset(Current, "tail") + 0
      BY <1>1, <1>2 DEF Offset, Sizes
    <3> QED BY <1>1, <1>2, <2>2, <3>1, <3>2 DEF Together, Parts, Returned
  <2> QED BY <2>1, <2>2
<1> QED BY <1>3, <1>4, <1>5 DEF Inv

(* At the end of a repetition the core is at the first instruction. *)
LEMMA LineDone ==
    ASSUME AllWellFormed, Inv, stage = "tail", k = Steps(Current, "tail")
    PROVE  /\ PhaseOK(Current) /\ Sizes(Current)
           /\ ctl \in Counters /\ ctl.pc = 0 /\ ~ctl.jmp_act
           /\ \A n \in 1..Length(Current) : crf[n - 1] = At(Current, n).instr
<1>1. PhaseOK(Current) /\ Sizes(Current)
  BY CurrentOK, Lengths DEF Inv
<1>2. /\ ctl \in Counters /\ ~ctl.jmp_act
      /\ ctl.pc = Entry(Current, Offset(Current, "tail") + k)
  BY DEF Inv, Together, Returned, Parts
<1>3. Offset(Current, "tail") + k = Length(Current)
  BY <1>1 DEF Offset, Sizes
<1> QED BY <1>1, <1>2, <1>3 DEF Entry, Inv, Listing, Parts

(* The next repetition of the line. *)
LEMMA RepetitionInv ==
    ASSUME AllWellFormed, Inv, NextRepetition
    PROVE  Inv'
<1>1. /\ PhaseOK(Current) /\ Sizes(Current) /\ Current' = Current
      /\ ctl \in Counters /\ ctl.pc = 0 /\ ~ctl.jmp_act
  BY LineDone DEF NextRepetition, Current
<1>2. stage' = "init" /\ k' = 0 /\ ctl' = ctl /\ crf' = crf /\ stage = "tail"
  BY DEF NextRepetition, core
<1>3. Place'
  BY <1>1, <1>2 DEF Inv, Place, NextRepetition, Parts, Sizes
<1>4. Listing'
  BY <1>1, <1>2 DEF Inv, Listing, Parts
<1>5. Together'
  <2>1. Entry(Current, Offset(Current, "init") + 0) = 0
    BY DEF Entry, Offset
  <2> QED BY <1>1, <1>2, <2>1 DEF Together, Returned, Parts
<1> QED BY <1>3, <1>4, <1>5 DEF Inv

(* The next phase, or the end of the kernel. *)
LEMMA PhaseInv ==
    ASSUME AllWellFormed, Inv, NextPhase
    PROVE  Inv'
<1>1. /\ PhaseOK(Current) /\ Sizes(Current) /\ ctl \in Counters
      /\ ctl.pc = 0 /\ ~ctl.jmp_act
      /\ \A n \in 1..Length(Current) : crf[n - 1] = At(Current, n).instr
  BY LineDone DEF NextPhase
<1>2. /\ stage' \in {"write", "idle"} /\ k' = 0 /\ ctl' = ctl /\ crf' = crf
      /\ kern' = kern
  BY DEF NextPhase, core
<1>3. WellFormed(Kernels[kern]) /\ kern \in DOMAIN Kernels
  BY DEF AllWellFormed, Inv, Place
<1>4. phase' \in 1..Phases(Kernels[kern])
  BY <1>3 DEF NextPhase, WellFormed, Inv, Place
<1>5. PhaseOK(Current') /\ Sizes(Current')
  <2>1. PhaseOK(Current')
    BY <1>2, <1>3, <1>4 DEF Current, WellFormed
  <2> QED BY <2>1, Lengths
<1>6. Place'
  BY <1>2, <1>3, <1>4, <1>5 DEF Inv, Place, NextPhase, Parts, Sizes
<1>7. Listing'
  <2>1. CASE stage' = "idle"
    BY <1>2, <2>1 DEF Inv, Listing, Parts
  <2>2. CASE stage' = "write"
    <3>1. /\ phase' = phase + 1 /\ phase \in Nat
          /\ phase \in 1..Phases(Kernels[kern])
      BY <1>3, <2>2 DEF NextPhase, Inv, Place, WellFormed
    <3>2. phase' > 1 /\ phase' - 1 = phase
      BY <3>1
    <3>3. Relies(Current', Current)
      BY <1>2, <1>3, <1>4, <3>2 DEF WellFormed, Current
    <3>4. ASSUME NEW n \in 1..Length(Current'), n <= Current'.base + 0
          PROVE  crf[n - 1] = At(Current', n).instr
      <4>1. n <= Current'.base
        BY <1>5, <3>4 DEF Sizes
      <4>2. n \in 1..Length(Current)
        BY <1>1, <1>5, <3>3, <4>1 DEF Relies, Sizes
      <4> QED BY <1>1, <3>3, <4>1, <4>2 DEF Relies
    <3> QED BY <1>2, <2>2, <3>4 DEF Inv, Listing, Parts
  <2> QED BY <1>2, <2>1, <2>2
<1>8. Together'
  BY <1>1, <1>2 DEF Together, Returned, Parts
<1> QED BY <1>6, <1>7, <1>8 DEF Inv

(* Every step keeps the invariant. *)
LEMMA NextInv ==
    ASSUME AllWellFormed, Inv, [Next]_vars
    PROVE  Inv'
<1>1. CASE UNCHANGED vars
  BY <1>1
  DEF vars, core, host, Inv, Place, Listing, Together, Current, Returned
<1> QED
  BY <1>1, StartInv, WriteInv, BeginInv, CommandInv, EnterInv, IterationInv,
     RepetitionInv, PhaseInv
  DEF Next

-----------------------------------------------------------------------------
(* The inductive invariant holds throughout. *)
LEMMA Invariance ==
    ASSUME AllWellFormed
    PROVE  Spec => []Inv
  BY InitInv, NextInv, PTL DEF Spec

(* Whatever kernels the program executes, in whatever order and with       *)
(* whatever numbers of loops and repetitions, the core stays inside its    *)
(* CRF and its jump counter in its range, provided the kernels are well    *)
(* formed.                                                                 *)
THEOREM TypeCorrect ==
    ASSUME AllWellFormed
    PROVE  Spec => []TypeOK
<1>1. Inv => TypeOK
  BY DEF AllWellFormed, Inv, Place, Listing, Together, Counters, TypeOK,
         WellFormed, Parts
<1> QED BY <1>1, Invariance, PTL

(* Every bank command of the host finds the instruction it was issued for, *)
(* on the bank and in the direction that instruction needs.                *)
THEOREM StaysInLockstep ==
    ASSUME AllWellFormed
    PROVE  Spec => []Lockstep
<1>1. ASSUME Inv PROVE Lockstep
  <2>1. SUFFICES ASSUME Issuing
                 PROVE  Fetch(crf, ctl.pc) = Cmd.instr /\ Fits(Cmd.instr, Cmd)
    BY <1>1 DEF Lockstep
  <2> QED BY <1>1, <2>1, FoundInstr DEF PhaseOK, LineOK
<1> QED BY <1>1, Invariance, PTL

(* Whenever the host rewrites the program, starts it again or is done, the *)
(* core is at its first instruction with no jump pending.                  *)
THEOREM ComesHome ==
    ASSUME AllWellFormed
    PROVE  Spec => []Home
<1>1. Inv => Home
  <2>1. Entry(Current, Offset(Current, "init") + 0) = 0
    BY DEF Entry, Offset
  <2> QED BY <2>1 DEF Inv, Together, Home, Returned, Parts
<1> QED BY <1>1, Invariance, PTL
-----------------------------------------------------------------------------
(* The scalars an accumulator has taken.  An outline of a phase says, for   *)
(* the places of its line in "known", which scalars have been taken since   *)
(* the last load when the core stands there: it agrees with every           *)
(* instruction of the line and with the way back to the loop, assumes       *)
(* nothing at the start of a repetition, and has all terms of the phase,    *)
(* once and in order, wherever a result is stored.                          *)
TakeFrom(t, i) ==
    CASE i.src1 = "SRF_M" /\ i.op = "MAC" -> Append(t, i.n1)
      [] i.src1 = "SRF_M" /\ i.op = "MAD" -> <<i.n1>>
      [] i.op = "MOV" /\ i.src0 \in Banks -> <<>>
      [] OTHER -> t

AllTerms(p) == [n \in 1..p.terms |-> n - 1]

Outline(p, known, T) ==
    /\ 0 \notin known
    /\ \A n \in 1..Length(p) : n \in known =>
          \A t : (n - 1 \in known => t = T[n - 1])
                 => TakeFrom(t, At(p, n).instr) = T[n]
    /\ p.loops > 1 /\ Steps(p, "init") \in known =>
          LoopEnd(p) \in known /\ T[LoopEnd(p)] = T[Steps(p, "init")]
    /\ \A n \in 1..Length(p) : At(p, n).cmd = "WR" =>
          n - 1 \in known /\ T[n - 1] = AllTerms(p)

TermsOK(p) == \E known, T : Outline(p, known, T)

AllTermsOK ==
    \A n \in DOMAIN Kernels : \A m \in DOMAIN Kernels[n] : TermsOK(Kernels[n][m])

TakenInv ==
    stage \in Parts =>
        \A known, T : Outline(Current, known, T)
                      /\ Offset(Current, stage) + k \in known
                      => taken = T[Offset(Current, stage) + k]

(* What a command does to the scalars taken. *)
LEMMA TakeIs ==
    ASSUME NEW i
    PROVE  Take(i) = TakeFrom(taken, i)
  BY DEF Take, TakeFrom

(* A command takes the core one place on in the line. *)
LEMMA CommandTaken ==
    ASSUME AllWellFormed, Inv, TakenInv, Command
    PROVE  TakenInv'
<1> DEFINE n == Offset(Current, stage) + k + 1
<1>1. /\ Issuing /\ Current' = Current /\ stage' = stage /\ k' = k + 1
      /\ taken' = Take(Fetch(crf, ctl.pc))
  BY DEF Command, Current
<1>2. /\ Sizes(Current) /\ n \in 1..Length(Current)
      /\ Fetch(crf, ctl.pc) = At(Current, n).instr
  BY <1>1, FoundInstr
<1>3. /\ stage \in Parts /\ k \in Nat /\ Offset(Current, stage) \in Nat
  BY <1>1, <1>2 DEF Issuing, Offset, Sizes, Parts, Inv, Place
<1>4. /\ n - 1 = Offset(Current, stage) + k /\ Offset(Current, stage) + k' = n
  BY <1>1, <1>3
<1>5. Offset(Current, stage)' = Offset(Current, stage)
  BY <1>1
<1> SUFFICES ASSUME NEW known, NEW T, Outline(Current, known, T), n \in known
             PROVE  taken' = T[n]
  BY <1>1, <1>4, <1>5 DEF TakenInv
<1>6. n - 1 \in known => taken = T[n - 1]
  BY <1>3, <1>4 DEF TakenInv
<1>7. TakeFrom(taken, At(Current, n).instr) = T[n]
  <2> HIDE DEF n
  <2> QED
    BY <1>2, <1>6 DEF Outline
<1> QED
  BY <1>1, <1>2, <1>7, TakeIs

(* Entering the loop, or passing it by when it is empty, stays at the same  *)
(* place of the line.                                                       *)
LEMMA EnterTaken ==
    ASSUME AllWellFormed, Inv, TakenInv, EnterLoop
    PROVE  TakenInv'
<1>1. PhaseOK(Current) /\ Sizes(Current) /\ Current' = Current
  BY CurrentOK, Lengths DEF Inv, EnterLoop, Current
<1>2. /\ stage = "init" /\ k = Steps(Current, "init") /\ k' = 0 /\ taken' = taken
      /\ stage' = IF Current.loops > 0 THEN "body" ELSE "tail"
  BY DEF EnterLoop, core
<1>3. Offset(Current, stage) + k = Offset(Current, stage') + k'
  <2>1. Current.loops \in Nat /\ (Current.loops = 0 => Steps(Current, "body") = 0)
    BY <1>1 DEF PhaseOK, LoopCounts, Sizes
  <2> QED
    BY <1>1, <1>2, <2>1 DEF Offset, Sizes
<1>4. stage \in Parts
  BY <1>2 DEF Parts
<1> QED
  BY <1>1, <1>2, <1>3, <1>4 DEF TakenInv

(* The end of the loop body is the place before the tail; back at the start *)
(* of the body an outline has the same scalars.                             *)
LEMMA IterationTaken ==
    ASSUME AllWellFormed, Inv, TakenInv, NextIteration
    PROVE  TakenInv'
<1>1. PhaseOK(Current) /\ Sizes(Current) /\ Current' = Current
  BY CurrentOK, Lengths DEF Inv, NextIteration, Current
<1>2. /\ stage = "body" /\ k = Steps(Current, "body") /\ k' = 0 /\ taken' = taken
      /\ iter \in Nat /\ Current.loops \in Nat
      /\ stage' = IF iter + 1 < Current.loops THEN "body" ELSE "tail"
  BY <1>1 DEF NextIteration, core, Sizes, Inv, Place
<1>3. Offset(Current, stage) + k = LoopEnd(Current) /\ stage \in Parts
  BY <1>1, <1>2 DEF Offset, Sizes, Parts
<1>4. CASE iter + 1 < Current.loops
  <2>1. /\ stage' = "body" /\ Current.loops > 1
        /\ Offset(Current, "body") + 0 = Steps(Current, "init")
    BY <1>1, <1>2, <1>4 DEF Offset, Sizes
  <2> SUFFICES ASSUME NEW known, NEW T, Outline(Current, known, T),
                      Steps(Current, "init") \in known
               PROVE  taken = T[Steps(Current, "init")]
    BY <1>1, <1>2, <2>1 DEF TakenInv
  <2>2. LoopEnd(Current) \in known
        /\ T[LoopEnd(Current)] = T[Steps(Current, "init")]
    BY <2>1 DEF Outline
  <2> QED
    BY <1>3, <2>2 DEF TakenInv
<1>5. CASE ~(iter + 1 < Current.loops)
  <2>1. stage' = "tail" /\ Offset(Current, "tail") + 0 = LoopEnd(Current)
    BY <1>1, <1>2, <1>5 DEF Offset, Sizes
  <2> QED
    BY <1>1, <1>2, <1>3, <2>1 DEF TakenInv
<1> QED
  BY <1>4, <1>5

(* A repetition starts with nothing assumed. *)
LEMMA StartOfLineTaken ==
    ASSUME stage' = "init", k' = 0
    PROVE  TakenInv'
<1>1. Offset(Current, stage)' + k' = 0
  BY DEF Offset
<1>2. \A known, T : Outline(Current, known, T)' => 0 \notin known
  BY DEF Outline
<1> QED
  BY <1>1, <1>2 DEF TakenInv

(* Every step keeps the core on the outlines of the phase. *)
LEMMA TakenStep ==
    ASSUME AllWellFormed, Inv, TakenInv, [Next]_vars
    PROVE  TakenInv'
<1>1. CASE UNCHANGED vars
  BY <1>1 DEF vars, core, host, TakenInv, Current
<1>2. CASE \E n \in DOMAIN Kernels : Start(n)
  BY <1>2 DEF Start, TakenInv, Parts
<1>3. CASE WriteInstr
  BY <1>3 DEF WriteInstr, TakenInv, Parts
<1>4. CASE BeginCommands
  BY <1>4, StartOfLineTaken DEF BeginCommands
<1>5. CASE NextRepetition
  BY <1>5, StartOfLineTaken DEF NextRepetition
<1>6. CASE NextPhase
  BY <1>6 DEF NextPhase, TakenInv, Parts
<1> QED
  BY <1>1, <1>2, <1>3, <1>4, <1>5, <1>6, CommandTaken, EnterTaken, IterationTaken
  DEF Next

(* Every result that is stored has taken all scalars of the phase, each     *)
(* once and in order, since its accumulator was loaded: through all jumps,  *)
(* repetitions and kernels, for kernels whose phases have an outline.       *)
THEOREM TermsTakenOnce ==
    ASSUME AllWellFormed, AllTermsOK
    PROVE  Spec => []EveryTermOnce
<1>1. Init => TakenInv
  BY DEF Init, TakenInv, Parts
<1>2. Inv /\ TakenInv /\ [Next]_vars => TakenInv'
  BY TakenStep
<1>3. ASSUME Inv, TakenInv PROVE EveryTermOnce
  <2> SUFFICES ASSUME Issuing, Cmd.cmd = "WR"
               PROVE  taken = AllTerms(Current)
    BY DEF EveryTermOnce, AllTerms
  <2> DEFINE n == Offset(Current, stage) + k + 1
  <2>1. /\ Sizes(Current) /\ n \in 1..Length(Current) /\ Cmd = At(Current, n)
    BY <1>3, FoundInstr
  <2>2. /\ stage \in Parts /\ k \in Nat /\ Offset(Current, stage) \in Nat
    BY <1>3, <2>1 DEF Issuing, Offset, Sizes, Parts, Inv, Place
  <2>3. n - 1 = Offset(Current, stage) + k
    BY <2>2
  <2>4. TermsOK(Current)
    <3>1. kern \in DOMAIN Kernels /\ phase \in DOMAIN Kernels[kern]
      BY <1>3 DEF Inv, Place, AllWellFormed, WellFormed
    <3> QED
      BY <3>1 DEF AllTermsOK, Current
  <2>5. PICK known, T : Outline(Current, known, T)
    BY <2>4 DEF TermsOK
  <2>6. n - 1 \in known /\ T[n - 1] = AllTerms(Current)
    <3> HIDE DEF n
    <3> QED
      BY <2>1, <2>5 DEF Outline
  <2> QED
    BY <1>3, <2>2, <2>3, <2>5, <2>6 DEF TakenInv
<1> QED
  BY <1>1, <1>2, <1>3, Invariance, PTL DEF Spec

(* A program only ever starts kernels that are safe to execute. *)
LEMMA OnlyWellFormedStarts ==
    ASSUME AllWellFormed
    PROVE  Spec => []StartedWellFormed
<1>1. Inv => StartedWellFormed
  BY DEF Inv, Place, AllWellFormed, StartedWellFormed
<1> QED
  BY <1>1, Invariance, PTL
=============================================================================
