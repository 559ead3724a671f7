----------------------------- MODULE MCCnmCore -----------------------------
(* The core on programs of two instructions, so that every instruction is  *)
(* followed by every other one and the program counter wraps around.       *)
EXTENDS CnmCore, Functions

Mov(dst, dn, src, n, relu) == Instr("MOV", dst, dn, src, n, "-", 0, "-", relu)
Arith(op, dst, dn, s0, n0, s1, n1, aam) ==
    Instr(op, dst, dn, s0, n0, s1, n1, "-", aam)

DataInstrs == <<
    Mov("GRF_A", 1, "EVEN_BANK", 0, TRUE),
    Mov("GRF_B", 0, "ODD_BANK", 0, FALSE),
    Arith("ADD", "GRF_A", 0, "GRF_A", 1, "EVEN_BANK", 0, FALSE),
    Arith("ADD", "GRF_B", 1, "ODD_BANK", 0, "SRF_A", 1, FALSE),
    Arith("MUL", "GRF_B", 1, "ODD_BANK", 0, "SRF_M", 1, FALSE),
    Arith("MUL", "GRF_A", 1, "GRF_A", 1, "EVEN_BANK", 0, TRUE),
    Arith("MAC", "GRF_B", 0, "EVEN_BANK", 0, "SRF_M", 1, FALSE),
    Arith("MAC", "GRF_B", 1, "GRF_A", 0, "ODD_BANK", 0, TRUE),
    Instr("MAD", "GRF_A", 0, "EVEN_BANK", 0, "GRF_A", 1, "GRF_B", FALSE),
    Instr("MAD", "GRF_B", 1, "ODD_BANK", 0, "SRF_M", 1, "SRF_A", TRUE),
    Mov("GRF_B", 1, "GRF_B", 0, TRUE),
    Mov("GRF_A", 0, "SRF_M", 1, FALSE),
    Mov("SRF_A", 1, "GRF_B", 1, FALSE),
    Mov("EVEN_BANK", 0, "GRF_A", 1, FALSE),
    Mov("ODD_BANK", 0, "GRF_B", 0, FALSE),
    Arith("ADD", "GRF_B", 0, "GRF_A", 0, "GRF_B", 1, FALSE),
    Arith("MUL", "GRF_A", 1, "GRF_B", 0, "GRF_A", 0, TRUE),
    Arith("MAC", "GRF_B", 0, "GRF_A", 1, "GRF_B", 1, FALSE),
    Instr("MAD", "GRF_A", 1, "GRF_B", 1, "GRF_B", 0, "GRF_A", FALSE)>>

ControlInstrs == {Ctrl("NOP", 5, 0), Ctrl("JUMP", 1, 2), Ctrl("EXIT", 0, 0)}

(* Multiply-add forms that load and take the second factor from GRF_B. *)
MadInstrs == {
    Instr("MAD", "GRF_A", 0, "EVEN_BANK", 0, "GRF_B", 1, "GRF_A", FALSE)}

TwoInstrs(I) == {[n \in 0..1 |-> IF n = 0 THEN p[1] ELSE p[2]] : p \in I}

(* A program wraps around, so one order of two instructions shows both. *)
AllPrograms ==
    TwoInstrs({<<DataInstrs[p[1]], DataInstrs[p[2]]>> :
                   p \in {q \in (DOMAIN DataInstrs) \X (DOMAIN DataInstrs) :
                              q[1] <= q[2]}}
              \cup (Range(DataInstrs) \X ControlInstrs))
MadPrograms == TwoInstrs(MadInstrs \X Range(DataInstrs))

(* The end of a convolution with ReLU: the last MAC and the move of its sum, *)
(* both run by loads from an odd bank.                                       *)
ReluPrograms == TwoInstrs({
    <<Arith("MAC", "GRF_B", 0, "ODD_BANK", 0, "SRF_M", 1, FALSE),
      Mov("GRF_B", 1, "GRF_B", 0, TRUE)>>})

(* A MAD or MAC that loads writes its result Depth cycles after its command; *)
(* an instruction on registers only reads and writes in its own cycle.  The  *)
(* second may come nCCDL after the first unless they meet in one file.       *)
Late(i) == i.op \in {"MAD", "MAC"} /\ AftLoad(i)
Uses(i) ==
    IF i.op \in Arithmetic THEN {i.src0, i.src1, i.src2}
    ELSE IF i.op = "MOV" THEN {i.src0, i.dst} ELSE {}
Conflict(x, y) == Late(x) /\ ~AftLoad(y) /\ x.dst \in Uses(y)

nCCDL == 3

(* A distance that is enough for each program, and the controller's own. *)
SafeGap ==
    [p \in AllPrograms \cup MadPrograms |->
        IF Conflict(p[0], p[1]) \/ Conflict(p[1], p[0])
        THEN Depth + 1 ELSE nCCDL]
ControllerGap == [p \in ReluPrograms |-> nCCDL]

SomeRFWrites == {<<"GRF_B", 0>>, <<"SRF_M", 1>>}
SomeCRFWrites == {<<0, Mov("GRF_A", 1, "EVEN_BANK", 0, FALSE)>>}
NoWrites == {}
SomeAAMs == {<<1, 0>>}
AllAccesses == {"RD", "WR"} \X Banks
ReluAccesses == {<<"RD", "ODD_BANK">>}
=============================================================================
