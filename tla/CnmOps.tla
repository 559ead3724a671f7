------------------------------- MODULE CnmOps -------------------------------
(***************************************************************************)
(* Instructions, commands and data of a near-memory core (ANEMOS).  Data   *)
(* is symbolic: a register holds the term of the operations that produced  *)
(* its contents, so two values are equal exactly when they were computed   *)
(* in the same way from the same inputs.                                   *)
(***************************************************************************)
EXTENDS Integers, Sequences

CONSTANTS
    MULT_STAGES, ADD_STAGES,   \* depth of the two arithmetic pipelines
    CRF_ENTRIES, RF_ENTRIES,   \* instructions, registers of each other file
    DQ_CLK                     \* cycles in which DQ carries one register

ASSUME StagesAssumption ==
    /\ MULT_STAGES \in Nat \ {0} /\ ADD_STAGES \in Nat \ {0}
    /\ CRF_ENTRIES \in Nat \ {0} /\ CRF_ENTRIES <= 256
    /\ RF_ENTRIES \in Nat \ {0} /\ RF_ENTRIES <= 32
    /\ DQ_CLK \in {2, 4, 8, 16}

(* opcodes.h: storages.  An instruction has one bit that MOV reads as ReLU *)
(* and the arithmetic operations as AAM: "take the register numbers from   *)
(* the address of the command".                                            *)
GRFs == {"GRF_A", "GRF_B"}
SRFs == {"SRF_M", "SRF_A"}
RFs == GRFs \cup SRFs
Banks == {"EVEN_BANK", "ODD_BANK"}

Instr(op, dst, dn, src0, n0, src1, n1, src2, bit) ==
    [op |-> op, dst |-> dst, dn |-> dn, src0 |-> src0, n0 |-> n0,
     src1 |-> src1, n1 |-> n1, src2 |-> src2, bit |-> bit,
     imm0 |-> 0, imm1 |-> 0]
Ctrl(op, imm0, imm1) ==
    [op |-> op, dst |-> "-", dn |-> 0, src0 |-> "-", n0 |-> 0,
     src1 |-> "-", n1 |-> 0, src2 |-> "-", bit |-> FALSE,
     imm0 |-> imm0, imm1 |-> imm1]

(* crf.cpp reads 0 beyond its last entry: a NOP of zero cycles. *)
Fetch(crf, pc) == IF pc \in DOMAIN crf THEN crf[pc] ELSE Ctrl("NOP", 0, 0)

(* The path through the program: what executing instruction i does to the  *)
(* control registers a.pc, a.jmp_act and a.jmp_cnt.                        *)
NextPC(pc) == IF pc < CRF_ENTRIES - 1 THEN pc + 1 ELSE 0

Jump(a, i) ==
    IF a.jmp_act /\ a.jmp_cnt = 0
    THEN [a EXCEPT !.jmp_act = FALSE, !.pc = NextPC(a.pc)]
    ELSE [a EXCEPT !.jmp_act = TRUE,
                   !.jmp_cnt = (IF a.jmp_act THEN a.jmp_cnt ELSE i.imm1) - 1,
                   !.pc = (a.pc - i.imm0) % 256]

Walk(a, i) ==
    CASE i.op = "JUMP" -> Jump(a, i)
      [] i.op = "EXIT" -> [a EXCEPT !.pc = 0]
      [] OTHER -> [a EXCEPT !.pc = NextPC(a.pc)]

Arithmetic == {"ADD", "MUL", "MAD", "MAC"}

(* "Loading from bank": the operands are read one cycle later. *)
AftLoad(i) == i.src0 \in Banks \/ (i.op \in Arithmetic /\ i.src1 \in Banks)

SrcN(i, n, c) == IF i.bit THEN c.aam_src ELSE n
DstN(i, n, c) == IF i.bit THEN c.aam_dst ELSE n

(* Terms. A general register is a vector of words; a scalar register holds *)
(* one word, which the vector units see in every lane (srf_in[i]).         *)
Zero == <<"zero">>
Bank(n) == <<"bank", n>>           \* the column that the n-th command reads
DQWord(n, k) == <<"dq", n, k>>     \* word k that the n-th command puts on DQ
Vector(words) == <<"ext", words>>
AllLanes(x) == <<"all", x>>
Lane0(v) == <<"lane0", v>>
ReLU(v) == <<"relu", v>>
Add(x, y) == <<"add", x, y>>
Mul(x, y) == <<"mul", x, y>>

(* A command on the channel: RD or WR of a bank (row MSB 0) or WR of a     *)
(* register file (row MSB 1).  "data" is the instruction of a CRF write.   *)
Idle == [cmd |-> "none", row |-> "-", idx |-> 0, aam_src |-> 0,
         aam_dst |-> 0, n |-> 0, data |-> Ctrl("NOP", 0, 0)]
Access(cmd, bank, as, ad, n) ==
    [Idle EXCEPT !.cmd = cmd, !.row = bank, !.aam_src = as, !.aam_dst = ad,
                 !.n = n]
WriteRF(rf, idx, n) ==
    [Idle EXCEPT !.cmd = "WR", !.row = rf, !.idx = idx, !.n = n]
WriteCRF(idx, instr, n) == [WriteRF("CRF", idx, n) EXCEPT !.data = instr]

(* Registers hold what the host wrote before it starts the program. *)
Loaded(rf) == [n \in 0..(RF_ENTRIES - 1) |-> <<rf, n>>]
=============================================================================
