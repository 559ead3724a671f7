------------------------------- MODULE CnmISA -------------------------------
(***************************************************************************)
(* What a near-memory core promises its programmer: every command takes    *)
(* effect at once.  A bank command executes the instruction at pc as the   *)
(* comments of instr_decoder::comb_method describe it, for instance        *)
(* "DST(DST_N) = SRC0(SRC0_N) * SRC1(SRC1_N) + SRC2(SRC1_N)"; a command to *)
(* a register file replaces the whole register.  Nothing here has stages.  *)
(***************************************************************************)
EXTENDS CnmOps

CONSTANTS Programs, Commands

VARIABLES
    arch,     \* the registers a program can observe
    cmd       \* the command of the last cycle

vars == <<arch, cmd>>

RFRead(a, rf, n) == IF n \in DOMAIN a[rf] THEN a[rf][n] ELSE Zero
RFWrite(a, rf, n, v) ==
    IF n \in DOMAIN a[rf] THEN [a EXCEPT ![rf][n] = v] ELSE a

(* The vector that operand "src" of number n denotes under command c. *)
Operand(a, src, n, c) ==
    CASE src \in GRFs -> RFRead(a, src, n)
      [] src \in SRFs -> AllLanes(RFRead(a, src, n))
      [] OTHER -> IF c.cmd = "RD" /\ c.row = src THEN Bank(c.n) ELSE Zero

Mov(a, i, c) ==
    LET v == Operand(a, i.src0, i.n0, c)
    IN CASE i.dst \in GRFs /\ (i.src0 \in Banks =>
                <<i.src0, i.dst>> \in {<<"EVEN_BANK", "GRF_A">>,
                                       <<"ODD_BANK", "GRF_B">>}) ->
                RFWrite(a, i.dst, i.dn, IF i.bit THEN ReLU(v) ELSE v)
         [] i.dst \in SRFs /\ i.src0 \in RFs ->
                RFWrite(a, i.dst, i.dn, IF i.src0 \in SRFs
                                        THEN RFRead(a, i.src0, i.n0)
                                        ELSE Lane0(v))
         [] <<i.src0, i.dst>> \in {<<"GRF_A", "EVEN_BANK">>,
                                   <<"GRF_B", "ODD_BANK">>} ->
                IF c.cmd = "WR" /\ c.row = i.dst
                THEN [a EXCEPT !.out = v] ELSE a
         [] OTHER -> a

Compute(a, i, c) ==
    LET x == Operand(a, i.src0, SrcN(i, i.n0, c), c)
        y == Operand(a, i.src1, SrcN(i, i.n1, c), c)
        d == DstN(i, i.dn, c)
    IN RFWrite(a, i.dst, d,
               CASE i.op = "ADD" -> Add(x, y)
                 [] i.op = "MUL" -> Mul(x, y)
                 [] i.op = "MAD" ->
                      Add(Operand(a, i.src2, DstN(i, i.n1, c), c), Mul(x, y))
                 [] i.op = "MAC" -> Add(RFRead(a, i.dst, d), Mul(x, y)))

Execute(a, c) ==
    LET i == Fetch(a.crf, a.pc)
        next == Walk(a, i)
    IN CASE i.op = "NOP" -> [next EXCEPT !.nop_cnt = (i.imm0 - 1) % 256]
         [] i.op = "MOV" -> Mov(next, i, c)
         [] i.op \in Arithmetic -> Compute(next, i, c)
         [] OTHER -> next

RegisterWrite(a, c) ==
    CASE c.row = "CRF" -> [a EXCEPT !.crf[c.idx] = c.data]
      [] c.row \in SRFs -> RFWrite(a, c.row, c.idx, Lane0(DQWord(c.n, 0)))
      [] c.row \in GRFs ->
           RFWrite(a, c.row, c.idx,
                   Vector([k \in 1..DQ_CLK |-> DQWord(c.n, k - 1)]))

(* One cycle: while a NOP lasts, bank commands are ignored.  A bank that   *)
(* no core drives reads as zero.                                           *)
Cycle(a, c) ==
    LET stalled == a.nop_cnt > 0
        b == [a EXCEPT !.out = Zero,
                       !.nop_cnt = IF stalled THEN @ - 1 ELSE 0]
    IN CASE c.row \in Banks -> IF stalled THEN b ELSE Execute(b, c)
         [] c.row = "-" -> b
         [] OTHER -> RegisterWrite(b, c)

Fresh(program) ==
    [pc |-> 0, jmp_act |-> FALSE, jmp_cnt |-> 0, nop_cnt |-> 0,
     crf |-> program, out |-> Zero,
     GRF_A |-> Loaded("GRF_A"), GRF_B |-> Loaded("GRF_B"),
     SRF_M |-> Loaded("SRF_M"), SRF_A |-> Loaded("SRF_A")]

Init == cmd = Idle /\ \E program \in Programs : arch = Fresh(program)
Next == cmd' \in Commands \cup {Idle} /\ arch' = Cycle(arch, cmd')
Spec == Init /\ [][Next]_vars
=============================================================================
