------------------------------- MODULE CnmCore -------------------------------
(***************************************************************************)
(* A near-memory core cycle by cycle (ANEMOS/src): interface unit, program *)
(* counter, instruction decoder with its control pipelines, register       *)
(* files, floating-point unit, and the driver's side of the buses          *)
(* (tb/cnm_driver_gem5.cpp: the words of a register on DQ, the bank data   *)
(* one cycle after a read).  The device is in PIM mode.                    *)
(*                                                                         *)
(* The decoder turns an instruction into control signals, each due in some *)
(* cycle to come.  The code keeps one shift register per signal and ORs    *)
(* into it at the stage from which the signal arrives in time; here        *)
(* pipe[d] is the set of <<signal, value>> pairs due in d cycles, and a    *)
(* signal's value is the OR of its pairs.                                  *)
(***************************************************************************)
EXTENDS CnmOps

CONSTANTS
    Programs,     \* contents of the CRF at the start
    RFWrites,     \* registers the host may write: <<rf, idx>>
    CRFWrites,    \* instructions the host may write: <<idx, instr>>
    Accesses,     \* accesses of banks the host may make: <<op, bank>>
    AAMs,         \* register numbers a bank address may carry: <<src, dst>>
    MinGap,       \* environment: least distance of the commands that run a
                  \*   program (the memory controller keeps nCCDL)
    MaxCmds       \* bound: commands issued

(* The largest values of the fields IMM0 and IMM1 (opcodes.h). *)
IMM0_Max == 255
IMM1_Max == 2047

(* What the programs of the host keep to: a JUMP leads to an instruction   *)
(* before it and counts at least one repetition in its eleven bits, and a  *)
(* result goes to a general register.                                      *)
Placed(i, n) ==
    /\ i.imm0 \in 0..IMM0_Max
    /\ i.op = "JUMP" => i.imm0 <= n /\ i.imm1 \in 1..IMM1_Max
    /\ i.op \in Arithmetic => i.dst \in GRFs

ASSUME ProgramsAssumption ==
    /\ \A p \in Programs :
          DOMAIN p = 0..(CRF_ENTRIES - 1) /\ \A n \in DOMAIN p : Placed(p[n], n)
    /\ \A w \in CRFWrites : w[1] \in 0..(CRF_ENTRIES - 1) /\ Placed(w[2], w[1])
    /\ \A w \in RFWrites : w[1] \in RFs
    /\ \A a \in Accesses : a[1] \in {"RD", "WR"} /\ a[2] \in Banks
    /\ \A p \in Programs : MinGap[p] \in Nat
    /\ MaxCmds \in Nat

VARIABLES
    core,         \* the core and the driver's bus state
    cmd,          \* the command of the last cycle
    age,          \* cycles since the last command, up to Depth + 1
    gap,          \* the least distance of commands in this execution
    issued,       \* commands issued
    settled       \* auxiliary: the register files with nothing in flight

vars == <<core, cmd, age, gap, issued, settled>>

(* The last stage: an operation that loads, multiplies and adds. *)
Depth == 1 + MULT_STAGES + ADD_STAGES

-----------------------------------------------------------------------------
(* The instruction decoder: signals and the cycle each one is due in.      *)
(* Select codes are those of opcodes.h; a code 0 is the default.           *)

M1 == [GRF_A |-> 0, GRF_B |-> 2, EVEN_BANK |-> 4, ODD_BANK |-> 5]
M2 == [SRF_M |-> 0, GRF_A |-> 2, GRF_B |-> 4, EVEN_BANK |-> 5, ODD_BANK |-> 6]
A1 == [SRF_A |-> 1, GRF_A |-> 2, GRF_B |-> 4, EVEN_BANK |-> 6, ODD_BANK |-> 7]
A2 == [SRF_A |-> 1, GRF_A |-> 3, GRF_B |-> 5, EVEN_BANK |-> 6, ODD_BANK |-> 7]
MUX == [EXT |-> 0, FPU |-> 1, GRF_A |-> 2, GRF_B |-> 3, SRF |-> 4,
        EVEN_BANK |-> 5, ODD_BANK |-> 6]
MuxOf(src) == MUX[IF src \in SRFs THEN "SRF" ELSE src]

RdAddr == [GRF_A |-> <<"grfa_rd_addr1", "grfa_rd_addr2">>,
           GRF_B |-> <<"grfb_rd_addr1", "grfb_rd_addr2">>]
Wr == [GRF_A |-> [en |-> "grfa_wr_en", addr |-> "grfa_wr_addr",
                  from |-> "grfa_wr_from", relu |-> "grfa_relu_en"],
       GRF_B |-> [en |-> "grfb_wr_en", addr |-> "grfb_wr_addr",
                  from |-> "grfb_wr_from", relu |-> "grfb_relu_en"]]

(* Present register n of src at read port "port" in cycle d. *)
Read(src, n, port, d) ==
    CASE src \in GRFs -> {<<d, RdAddr[src][port], n>>}
      [] src = "SRF_M" -> {<<d, "srf_rd_addr", n>>}
      [] src = "SRF_A" -> {<<d, "srf_rd_addr", n>>, <<d, "srf_rd_a_nm", 1>>}
      [] OTHER -> {}

Select(input, codes, src, n, port, d) ==
    IF src \in DOMAIN codes
    THEN Read(src, n, port, d) \cup {<<d, input, codes[src]>>} ELSE {}

Enable(unit, d, stages) == {<<k, unit, 1>> : k \in d..(d + stages - 1)}

Write(dst, n, from, d) ==
    IF dst \in GRFs
    THEN {<<d, Wr[dst].en, 1>>, <<d, Wr[dst].addr, n>>,
          <<d, Wr[dst].from, from>>}
    ELSE {}

(* The first operand of an addition; one port reads the scalar file, and a *)
(* second scalar operand takes it over.                                    *)
AddSignals(i, c, b) ==
    (IF i.src0 = "SRF_A" /\ i.src1 = "SRF_A"
     THEN {<<b, "add_in1_sel", A1["SRF_A"]>>}
     ELSE Select("add_in1_sel", A1, i.src0, SrcN(i, i.n0, c), 1, b))
    \cup Select("add_in2_sel", A2, i.src1, SrcN(i, i.n1, c), 2, b)
    \cup Enable("add_en", b, ADD_STAGES)
    \cup Write(i.dst, DstN(i, i.dn, c), MUX.FPU, b + ADD_STAGES)

(* The two factors. A MAD that loads from a bank and whose second factor   *)
(* is in GRF_B drives the read port of GRF_A instead (line 976).           *)
Factors(i, c, b) ==
    LET n1 == SrcN(i, i.n1, c)
    IN Select("mult_in1_sel", M1, i.src0, SrcN(i, i.n0, c), 1, b)
       \cup (IF i.op = "MAD" /\ b = 1 /\ i.src1 = "GRF_B"
             THEN {<<b, "mult_in2_sel", M2["GRF_B"]>>}
                  \cup Read("GRF_A", n1, 2, b)
             ELSE Select("mult_in2_sel", M2, i.src1, n1, 2, b))
       \cup Enable("mult_en", b, MULT_STAGES)

MulSignals(i, c, b) ==
    Factors(i, c, b) \cup {<<b + MULT_STAGES, "out_sel", 1>>}
    \cup Write(i.dst, DstN(i, i.dn, c), MUX.FPU, b + MULT_STAGES)

(* Mutant: the addend is fetched together with the factors. *)
MultiplyAddEarly(i, c, b, addend, n, codes, dsts) ==
    LET a == b + MULT_STAGES
    IN Factors(i, c, b)
       \cup Select("add_in1_sel", codes, addend, n, 1, b)
       \cup Enable("add_en", a, ADD_STAGES)
       \cup (IF i.dst \in dsts
             THEN Write(i.dst, DstN(i, i.dn, c), MUX.FPU, a + ADD_STAGES)
             ELSE {})

(* Addend and destination of MAD and MAC, one multiplication later. *)
MultiplyAdd(i, c, b, addend, n, codes, dsts) ==
    LET a == b + MULT_STAGES
    IN Factors(i, c, b)
       \cup Select("add_in1_sel", codes, addend, n, 1, a)
       \cup Enable("add_en", a, ADD_STAGES)
       \cup (IF i.dst \in dsts
             THEN Write(i.dst, DstN(i, i.dn, c), MUX.FPU, a + ADD_STAGES)
             ELSE {})

MadSignals(i, c, b) ==
    MultiplyAdd(i, c, b, i.src2, DstN(i, i.n1, c), A1, GRFs)
MacSignals(i, c, b) ==
    MultiplyAdd(i, c, b, i.dst, DstN(i, i.dn, c),
                [GRF_B |-> A1["GRF_B"]], {"GRF_B"})

MovSignals(i) ==
    IF i.src0 \in Banks
    THEN IF <<i.src0, i.dst>> \in {<<"EVEN_BANK", "GRF_A">>,
                                   <<"ODD_BANK", "GRF_B">>}
         THEN Write(i.dst, i.dn, MuxOf(i.src0), 1)
              \cup (IF i.bit THEN {<<1, Wr[i.dst].relu, 1>>} ELSE {})
         ELSE {}
    ELSE Read(i.src0, i.n0, 1, 0) \cup
         CASE i.dst \in GRFs ->
                Write(i.dst, i.dn, MuxOf(i.src0), 0)
                \cup (IF i.bit THEN {<<0, Wr[i.dst].relu, 1>>} ELSE {})
           [] i.dst \in SRFs ->
                {<<0, "srf_wr_en", 1>>, <<0, "srf_wr_addr", i.dn>>,
                 <<0, "srf_wr_from", MuxOf(i.src0)>>,
                 <<0, "srf_wr_a_nm", IF i.dst = "SRF_A" THEN 1 ELSE 0>>}
           [] i.dst = "EVEN_BANK" /\ i.src0 = "GRF_A" ->
                {<<0, "even_out_en", 1>>}
           [] i.dst = "ODD_BANK" /\ i.src0 = "GRF_B" ->
                {<<0, "odd_out_en", 1>>}
           [] OTHER -> {}

Decode(i, c) ==
    LET b == IF AftLoad(i) THEN 1 ELSE 0
    IN CASE i.op = "MOV" -> MovSignals(i)
         [] i.op = "ADD" -> AddSignals(i, c, b)
         [] i.op = "MUL" -> MulSignals(i, c, b)
         [] i.op = "MAD" -> MadSignals(i, c, b)
         [] i.op = "MAC" -> MacSignals(i, c, b)
         [] OTHER -> {}

(* A write of a register file by the host (rf_access). *)
AccessSignals(rf, idx) ==
    CASE rf \in GRFs -> Write(rf, idx, MUX.EXT, 0)
      [] rf \in SRFs -> {<<0, "srf_wr_en", 1>>, <<0, "srf_wr_addr", idx>>,
                         <<0, "srf_wr_from", MUX.EXT>>,
                         <<0, "srf_wr_a_nm", IF rf = "SRF_A" THEN 1 ELSE 0>>}
      [] OTHER -> {}

-----------------------------------------------------------------------------
(* Interface unit: what the command means, and the serial-to-parallel      *)
(* register that collects the words of a general register.                 *)

DQ(s, c) ==
    CASE c.row \in RFs -> DQWord(c.n, 0)
      [] s.DQCycle > 0 -> DQWord(s.DQn, s.DQCycle)
      [] OTHER -> Zero

Interface(s, c) ==
    LET row == IF c.cmd = "none" THEN s.row ELSE c.row
        idx == IF c.cmd = "none" THEN s.idx ELSE c.idx
        cnt == s.grf_wr_cnt
        off == [decode_en |-> FALSE, rf_access |-> FALSE, row |-> row,
                idx |-> idx, cnt |-> cnt, ser2par |-> s.ser2par,
                data_out |-> Zero]
    IN CASE row \in Banks ->
              [off EXCEPT !.decode_en = c.cmd # "none", !.cnt = 0]
         [] cnt = 0 /\ row \in {"CRF", "SRF_M", "SRF_A"} ->
              [off EXCEPT !.data_out = DQ(s, c), !.rf_access = c.cmd = "WR"]
         [] cnt = 0 /\ row \in GRFs ->
              IF c.cmd = "WR"
              THEN [off EXCEPT !.cnt = 1, !.ser2par[1] = DQ(s, c)] ELSE off
         [] cnt \in 1..(DQ_CLK - 2) ->
              [off EXCEPT !.cnt = cnt + 1, !.ser2par[cnt + 1] = DQ(s, c)]
         [] cnt = DQ_CLK - 1 ->
              [off EXCEPT !.cnt = 0, !.rf_access = TRUE,
                          !.data_out = Vector(s.ser2par \o <<DQ(s, c)>>)]
         [] OTHER -> off

(* Mutant: the counter wraps one instruction late. *)
PCUnitLate(s, pc_rst, jump_num, jump_en) ==
    CASE pc_rst -> 0
      [] ~pc_rst /\ jump_en -> (s.pc - jump_num) % 256
      [] OTHER -> IF s.pc < CRF_ENTRIES THEN s.pc + 1 ELSE 0

(* Program counter and the control registers of the decoder. *)
PCUnit(s, pc_rst, jump_num, jump_en) ==
    CASE pc_rst -> 0
      [] ~pc_rst /\ jump_en -> (s.pc - jump_num) % 256
      [] OTHER -> IF s.pc < CRF_ENTRIES - 1 THEN s.pc + 1 ELSE 0

Control(s, i) ==
    LET jumps == i.op = "JUMP" /\ (~s.jmp_act \/ s.jmp_cnt > 0)
    IN [pc |-> PCUnit(s, i.op = "EXIT", i.imm0, jumps),
        jmp_act |-> IF i.op = "JUMP" THEN jumps ELSE s.jmp_act,
        jmp_cnt |-> IF jumps
                    THEN (IF s.jmp_act THEN s.jmp_cnt ELSE i.imm1) - 1
                    ELSE s.jmp_cnt,
        nop_cnt |-> IF i.op = "NOP" THEN (i.imm0 - 1) % 256 ELSE 0]

-----------------------------------------------------------------------------
(* Datapath: register-file ports, multiplexers, arithmetic units.          *)

Or(S) ==
    LET Bit(b) == IF \E x \in S : (x \div b) % 2 = 1 THEN b ELSE 0
    IN Bit(1) + Bit(2) + Bit(4) + Bit(8) + Bit(16)

Value(active, signal) == Or({p[2] : p \in {q \in active : q[1] = signal}})

Reg(s, rf, n) == IF n \in DOMAIN s[rf] THEN s[rf][n] ELSE Zero

Ports(s, active) ==
    LET v(signal) == Value(active, signal)
    IN [a1 |-> Reg(s, "GRF_A", v("grfa_rd_addr1")),
        a2 |-> Reg(s, "GRF_A", v("grfa_rd_addr2")),
        b1 |-> Reg(s, "GRF_B", v("grfb_rd_addr1")),
        b2 |-> Reg(s, "GRF_B", v("grfb_rd_addr2")),
        srf |-> Reg(s, IF v("srf_rd_a_nm") = 1 THEN "SRF_A" ELSE "SRF_M",
                    v("srf_rd_addr"))]

(* fpu.cpp: multiplex_method, update_output; fp_multiplier, fp_adder. *)
MultIn1(s, p, sel) ==
    CASE sel = 1 -> p.a2 [] sel = 2 -> p.b1 [] sel = 3 -> p.b2
      [] sel = 4 -> s.bus["EVEN_BANK"] [] sel = 5 -> s.bus["ODD_BANK"]
      [] OTHER -> p.a1
MultIn2(s, p, sel) ==
    CASE sel = 1 -> p.a1 [] sel = 2 -> p.a2 [] sel = 3 -> p.b1
      [] sel = 4 -> p.b2
      [] sel = 5 -> s.bus["EVEN_BANK"] [] sel = 6 -> s.bus["ODD_BANK"]
      [] OTHER -> AllLanes(p.srf)
AddIn(s, p, sel) ==
    CASE sel = 0 -> s.mult[MULT_STAGES] [] sel = 1 -> AllLanes(p.srf)
      [] sel = 2 -> p.a1 [] sel = 3 -> p.a2 [] sel = 4 -> p.b1
      [] sel = 5 -> p.b2
      [] sel = 6 -> s.bus["EVEN_BANK"] [] sel = 7 -> s.bus["ODD_BANK"]

Shift(stages, en, x) ==
    IF en = 1 THEN <<x>> \o SubSeq(stages, 1, Len(stages) - 1) ELSE stages

(* grf.cpp and srf.cpp: the value at the write port. *)
GrfIn(s, p, rf, from, relu, ext, fpu) ==
    LET v == CASE from = 0 -> ext [] from = 1 -> fpu
               [] from = 2 -> p.a1 [] from = 3 -> p.b1
               [] from = 4 -> AllLanes(p.srf)
               [] from \in {5, 6} ->
                    s.bus[IF rf = "GRF_A" THEN "EVEN_BANK" ELSE "ODD_BANK"]
               [] OTHER -> Zero
    IN IF relu = 1 THEN ReLU(v) ELSE v
SrfIn(p, from, ext) ==
    CASE from = 0 -> Lane0(ext) [] from = 2 -> Lane0(p.a1)
      [] from = 3 -> Lane0(p.b1) [] from = 4 -> p.srf [] OTHER -> Zero

-----------------------------------------------------------------------------
(* One clock cycle: everything combinational settles, then all registers   *)
(* take their next value.                                                  *)

Step(s, c) ==
    LET iu == Interface(s, c)
        instr == Fetch(s.crf, s.pc)
        decodes == iu.decode_en /\ s.nop_cnt = 0
        new == (IF decodes THEN Decode(instr, c) ELSE {})
               \cup (IF iu.rf_access THEN AccessSignals(iu.row, iu.idx)
                     ELSE {})
        Due(d) == {<<t[2], t[3]>> : t \in {u \in new : u[1] = d}}
        active == Due(0) \cup s.pipe[1]
        v(signal) == Value(active, signal)
        p == Ports(s, active)
        fpu == IF v("out_sel") = 1 THEN s.mult[MULT_STAGES]
               ELSE s.add[ADD_STAGES]
        Grf(rf) ==
            [n \in DOMAIN s[rf] |->
                IF v(Wr[rf].en) = 1 /\ n = v(Wr[rf].addr)
                THEN GrfIn(s, p, rf, v(Wr[rf].from), v(Wr[rf].relu),
                           iu.data_out, fpu)
                ELSE s[rf][n]]
        Srf(rf, a_nm) ==
            [n \in DOMAIN s[rf] |->
                IF /\ v("srf_wr_en") = 1 /\ v("srf_wr_a_nm") = a_nm
                   /\ n = v("srf_wr_addr")
                THEN SrfIn(p, v("srf_wr_from"), iu.data_out)
                ELSE s[rf][n]]
        ctrl == IF decodes THEN Control(s, instr)
                ELSE [pc |-> s.pc, jmp_act |-> s.jmp_act,
                      jmp_cnt |-> s.jmp_cnt,
                      nop_cnt |-> IF s.nop_cnt = 0 THEN 0 ELSE s.nop_cnt - 1]
        grfWrite == c.cmd = "WR" /\ c.row \in GRFs
    IN [pc |-> ctrl.pc, jmp_act |-> ctrl.jmp_act, jmp_cnt |-> ctrl.jmp_cnt,
        nop_cnt |-> ctrl.nop_cnt,
        crf |-> IF iu.rf_access /\ iu.row = "CRF"
                THEN [s.crf EXCEPT ![iu.idx] = c.data] ELSE s.crf,
        GRF_A |-> Grf("GRF_A"), GRF_B |-> Grf("GRF_B"),
        SRF_M |-> Srf("SRF_M", 0), SRF_A |-> Srf("SRF_A", 1),
        pipe |-> [d \in 1..Depth |->
                    Due(d) \cup (IF d < Depth THEN s.pipe[d + 1] ELSE {})],
        mult |-> Shift(s.mult, v("mult_en"),
                       Mul(MultIn1(s, p, v("mult_in1_sel")),
                           MultIn2(s, p, v("mult_in2_sel")))),
        add |-> Shift(s.add, v("add_en"),
                      Add(AddIn(s, p, v("add_in1_sel")),
                          AddIn(s, p, v("add_in2_sel")))),
        grf_wr_cnt |-> iu.cnt, ser2par |-> iu.ser2par,
        row |-> iu.row, idx |-> iu.idx,
        DQCycle |-> IF grfWrite THEN 1
                    ELSE IF s.DQCycle = 0 THEN 0
                    ELSE (s.DQCycle + 1) % DQ_CLK,
        DQn |-> IF grfWrite THEN c.n ELSE s.DQn,
        bus |-> [k \in Banks |-> IF c.cmd = "RD" /\ c.row = k
                                 THEN Bank(c.n) ELSE Zero],
        out |-> CASE c.cmd = "WR" /\ c.row = "EVEN_BANK" ->
                       IF v("even_out_en") = 1 THEN p.a1 ELSE Zero
                  [] c.cmd = "WR" /\ c.row = "ODD_BANK" ->
                       IF v("odd_out_en") = 1 THEN p.b1 ELSE Zero
                  [] OTHER -> Zero]

-----------------------------------------------------------------------------
Start(program) ==
    [pc |-> 0, jmp_act |-> FALSE, jmp_cnt |-> 0, nop_cnt |-> 0,
     crf |-> program, GRF_A |-> Loaded("GRF_A"), GRF_B |-> Loaded("GRF_B"),
     SRF_M |-> Loaded("SRF_M"), SRF_A |-> Loaded("SRF_A"),
     pipe |-> [d \in 1..Depth |-> {}],
     mult |-> [k \in 1..MULT_STAGES |-> Zero],
     add |-> [k \in 1..ADD_STAGES |-> Zero],
     grf_wr_cnt |-> 0, ser2par |-> [k \in 1..(DQ_CLK - 1) |-> Zero],
     row |-> "CRF", idx |-> 0, DQCycle |-> 0, DQn |-> 0,
     bus |-> [k \in Banks |-> Zero], out |-> Zero]

(* The register files when everything in flight is let out by idle cycles; *)
(* After[d] holds the one state that d of them lead to.                    *)
FlushDepth == IF Depth > DQ_CLK - 1 THEN Depth ELSE DQ_CLK - 1

Flush(s) ==
    LET After[d \in 0..FlushDepth] ==
            IF d = 0 THEN {s} ELSE {Step(t, Idle) : t \in After[d - 1]}
    IN CHOOSE r \in {[rf \in RFs |-> t[rf]] : t \in After[FlushDepth]} : TRUE

Init ==
    /\ core \in {Start(program) : program \in Programs}
    /\ cmd = Idle /\ age = Depth + 1 /\ gap = MinGap[core.crf]
    /\ issued = 0 /\ settled = Flush(core)

Cycle(c) ==
    /\ core' = Step(core, c) /\ cmd' = c /\ settled' = Flush(core')
    /\ age' = IF c.cmd # "none" THEN 1
              ELSE IF age > Depth THEN age ELSE age + 1
    /\ issued' = IF c.cmd = "none" THEN issued ELSE issued + 1
    /\ UNCHANGED gap

IdleCycle == Cycle(Idle)

(* The commands arrive at least "gap" cycles apart, and the driver does    *)
(* not start one before a register is on DQ completely.  No unit looks at  *)
(* what is still in the pipelines.                                         *)
BankCommand(op, bank, aam) ==
    /\ issued < MaxCmds
    /\ age >= gap /\ core.DQCycle = 0
    /\ Cycle(Access(op, bank, aam[1], aam[2], issued + 1))

(* Mutant: the driver does not wait for the register that is on DQ. *)
RegisterCommandAnytime(rf, idx) ==
    /\ issued < MaxCmds
    /\ age >= gap
    /\ Cycle(WriteRF(rf, idx, issued + 1))

RegisterCommand(rf, idx) ==
    /\ issued < MaxCmds
    /\ age >= gap /\ core.DQCycle = 0
    /\ Cycle(WriteRF(rf, idx, issued + 1))

InstructionWrite(idx, instr) ==
    /\ issued < MaxCmds
    /\ age >= gap /\ core.DQCycle = 0
    /\ Cycle(WriteCRF(idx, instr, issued + 1))

Next ==
    \/ IdleCycle
    \/ \E a \in Accesses, aam \in AAMs : BankCommand(a[1], a[2], aam)
    \/ \E w \in RFWrites : RegisterCommand(w[1], w[2])
    \/ \E w \in CRFWrites : InstructionWrite(w[1], w[2])

Spec == Init /\ [][Next]_vars

-----------------------------------------------------------------------------
(* Types: the program counter stays inside the CRF, counters in their      *)
(* range, and nothing is scheduled for a stage the pipelines do not have.  *)
TypeOK ==
    /\ core.pc \in 0..(CRF_ENTRIES - 1) /\ core.nop_cnt \in 0..IMM0_Max
    /\ core.jmp_act \in BOOLEAN /\ core.jmp_cnt \in 0..IMM1_Max
    /\ core.grf_wr_cnt \in 0..(DQ_CLK - 1) /\ core.DQCycle \in 0..(DQ_CLK - 1)
    /\ DOMAIN core.crf = 0..(CRF_ENTRIES - 1)
    /\ \A rf \in RFs : DOMAIN core[rf] = 0..(RF_ENTRIES - 1)
    /\ Len(core.mult) = MULT_STAGES /\ Len(core.add) = ADD_STAGES
    /\ Len(core.ser2par) = DQ_CLK - 1
    /\ age \in 0..(Depth + 1) /\ issued \in 0..MaxCmds

(* The interface unit counts the words of a register write in step with    *)
(* the driver that puts them on DQ, and what it has collected so far are   *)
(* the first words of that one write (interface_unit::comb_method).        *)
SerialInStep ==
    /\ core.grf_wr_cnt = core.DQCycle
    /\ \A k \in 1..core.grf_wr_cnt :
          core.ser2par[k] = DQWord(core.DQn, k - 1)

(* The inductive invariant: TypeOK of sequences that are functions, a      *)
(* program whose jumps stay inside it, and, while a register is on DQ, its *)
(* row still selected.                                                     *)
Stages(f, n) == f \in [1..n -> {f[k] : k \in 1..n}]

RegistersInv ==
    /\ Stages(core.mult, MULT_STAGES) /\ Stages(core.add, ADD_STAGES)
    /\ Stages(core.ser2par, DQ_CLK - 1)
    /\ \A n \in 0..(CRF_ENTRIES - 1) : Placed(core.crf[n], n)
    /\ core.DQCycle > 0 => core.row \in GRFs

(* Refinement: control registers map to themselves, register files to what *)
(* they hold once everything in flight has been written.                   *)

Arch ==
    [pc |-> core.pc, jmp_act |-> core.jmp_act, jmp_cnt |-> core.jmp_cnt,
     nop_cnt |-> core.nop_cnt, crf |-> core.crf, out |-> core.out,
     GRF_A |-> settled["GRF_A"], GRF_B |-> settled["GRF_B"],
     SRF_M |-> settled["SRF_M"], SRF_A |-> settled["SRF_A"]]

Commands ==
    {Access(a[1], a[2], aam[1], aam[2], n) :
        a \in Accesses, aam \in AAMs, n \in 1..MaxCmds}
    \cup {WriteRF(w[1], w[2], n) : w \in RFWrites, n \in 1..MaxCmds}
    \cup {WriteCRF(w[1], w[2], n) : w \in CRFWrites, n \in 1..MaxCmds}

ISA == INSTANCE CnmISA
         WITH arch <- Arch, cmd <- cmd, Programs <- Programs,
              Commands <- Commands

(* Whatever the distances of the commands, from the least one on, the      *)
(* pipelined core computes what executing one instruction at a time        *)
(* computes, stores the same data and follows the same path through the    *)
(* program (instr_decoder, fpu, register files).  The least distance that  *)
(* is enough depends on the program: MCCnmCore says which needs more than  *)
(* nCCDL.                                                                  *)
ImplementsISA == ISA!Spec
=============================================================================
