------------------------------- MODULE NMClib -------------------------------
(***************************************************************************)
(* The kernels of the host library (softwareStack/NMClib): vector addition,*)
(* dot product, matrix multiplication, convolution.  A kernel is a         *)
(* sequence of phases.  In a phase the host writes a program into the CRF  *)
(* (the generate functions) and then issues bank commands (the execute     *)
(* functions), each meant to trigger one certain instruction, which the    *)
(* code names in a comment.  The core knows nothing of that: it executes   *)
(* what its program counter points to.                                     *)
(*                                                                         *)
(* Of the data layout only the bank of a command is kept: rows, columns    *)
(* and the contents of the scalar registers do not decide what is executed.*)
(***************************************************************************)
EXTENDS CnmOps

CONSTANT IMM1_BITS        \* width of the loop counter in a JUMP

IMM1_Limit == 2^IMM1_BITS

ASSUME Imm1Assumption ==
    IMM1_BITS \in Nat \ {0} /\ IMM1_Limit \in Nat \ {0}

GRF_ENTRIES == RF_ENTRIES
SRF_M_ENTRIES == RF_ENTRIES

-----------------------------------------------------------------------------
(* Instructions, and the commands meant to trigger them. *)

Op(op, dst, dn, src0, n0, src1, n1) ==
    Instr(op, dst, dn, src0, n0, src1, n1, "-", FALSE)
MovIn(rf, n, bank) == Op("MOV", rf, n, bank, 0, "-", 0)
MovOut(bank, rf, n) == Op("MOV", bank, 0, rf, n, "-", 0)
MovReLU(dn, src, n) == Instr("MOV", "GRF_B", dn, src, n, "-", 0, "-", TRUE)
MacSRF(bank, n) == Op("MAC", "GRF_B", 0, bank, 0, "SRF_M", n)
MadSRF ==
    Instr("MAD", "GRF_B", 0, "EVEN_BANK", 0, "SRF_M", 0, "SRF_A", FALSE)
(* Mutant: the jump also passes over the JUMP itself. *)
JumpBackTooFar(len, n) == Ctrl("JUMP", (len + 1) % 256, n % IMM1_Limit)
JumpBack(len, n) == Ctrl("JUMP", len % 256, n % IMM1_Limit)
Exit == Ctrl("EXIT", 0, 0)

Load(bank, instr) == [cmd |-> "RD", bank |-> bank, instr |-> instr]
Store(bank, instr) == [cmd |-> "WR", bank |-> bank, instr |-> instr]
Step(instr) == Load("any", instr)    \* JUMP and EXIT do not look at the bank

(* Most loops alternate between the two banks and register files; with an  *)
(* odd number of steps the last one is on the even side.                   *)
Side(k) == IF k % 2 = 1 THEN [bank |-> "EVEN_BANK", rf |-> "GRF_A"]
                        ELSE [bank |-> "ODD_BANK", rf |-> "GRF_B"]
Index(k) == (k - 1) \div 2

Loads(p) ==
    [k \in 1..p |-> Load(Side(k).bank,
                         MovIn(Side(k).rf, Index(k), Side(k).bank))]
Adds(p) ==
    [k \in 1..p |-> Load(Side(k).bank,
                         Op("ADD", Side(k).rf, Index(k), Side(k).rf, Index(k),
                            Side(k).bank, 0))]
Stores(p) ==
    [k \in 1..p |-> Store(Side(k).bank,
                          MovOut(Side(k).bank, Side(k).rf, Index(k)))]
Products(p) ==
    [k \in 1..p |-> Load(Side(k).bank,
                         Op("MAC", "GRF_B", GRF_ENTRIES - 1, Side(k).rf,
                            Index(k), Side(k).bank, 0))]
(* Mutant: the scalars are counted from one. *)
MacsFromOne(p) ==
    [k \in 1..p |-> Load(Side(k).bank, MacSRF(Side(k).bank, k))]
Macs(p) ==
    [k \in 1..p |-> Load(Side(k).bank, MacSRF(Side(k).bank, k - 1))]

-----------------------------------------------------------------------------
(* A phase: the program is the straight line of its commands' instructions *)
(* with a JUMP behind the loop body, and an EXIT if there is room; it is   *)
(* written from entry "base" on.  The host repeats "reps" times: init,     *)
(* "loops" times body and the command of the JUMP, tail, and, if its own   *)
(* test "exits" holds, the command of the EXIT.                            *)

Instrs(cmds) == [k \in DOMAIN cmds |-> cmds[k].instr]

Phase(base, init, body, loops, loopLen, tail, reps, exits, terms) ==
    LET iteration == IF loops > 1
                     THEN Append(body, Step(JumpBack(loopLen, loops - 1)))
                     ELSE body
        line == Instrs(init \o iteration \o tail)
        code == IF Len(line) < CRF_ENTRIES THEN Append(line, Exit) ELSE line
    IN [base |-> base, code |-> SubSeq(code, base + 1, Len(code)),
        init |-> init, body |-> iteration, loops |-> loops,
        tail |-> IF exits THEN Append(tail, Step(Exit)) ELSE tail,
        reps |-> reps, terms |-> terms]

When(cond, phase) == IF cond THEN <<phase>> ELSE <<>>

-----------------------------------------------------------------------------
(* Vector addition of "blocks" column groups (cnm_va.h, C-limited: the     *)
(* constructor never chooses the other form).                              *)

Least(x, y) == IF x < y THEN x ELSE y

VA(blocks) ==
    LET third == (CRF_ENTRIES - 2) \div 3
        crfSegment == Least(third - (third % 2), 2 * GRF_ENTRIES)
        all == blocks \div crfSegment
        loops == Least(all, IMM1_Limit - 1)
        extraLoops == all - loops
        peeling == blocks % crfSegment
        loopLen == IF loops > 0 THEN 3 * crfSegment ELSE 0
        Body(p) == Loads(p) \o Adds(p) \o Stores(p)
        Exits(n) == \/ n > 1 /\ loopLen + 2 <= CRF_ENTRIES
                    \/ n > 0 /\ loopLen + 1 <= CRF_ENTRIES
        Loop(n) == Phase(0, <<>>, Body(crfSegment), n, loopLen, <<>>, 1,
                         Exits(n), 0)
    IN When(loops > 0, Loop(loops)) \o When(extraLoops > 0, Loop(extraLoops))
       \o When(peeling > 0,
               Phase(0, <<>>, Body(peeling), 1, 0, <<>>, 1,
                     peeling + 1 <= CRF_ENTRIES, 0))

-----------------------------------------------------------------------------
(* Dot products of vectors of "dims" elements, in "ext_loops" groups       *)
(* (cnm_dp.h).                                                             *)

GetSum == <<Load("ODD_BANK", MovIn("GRF_B", GRF_ENTRIES - 1, "ODD_BANK"))>>
PutSum == <<Store("ODD_BANK", MovOut("ODD_BANK", "GRF_B", GRF_ENTRIES - 1))>>

DPisLimC(dims) ==
    CRF_ENTRIES < 4 * (GRF_ENTRIES - 1) + 2 * (dims % (2 * (GRF_ENTRIES - 1)))
                  + 4

DPLimR(dims, ext_loops) ==
    LET segment == 2 * (GRF_ENTRIES - 1)
        loops == dims \div segment
        peeling == dims % segment
        loopLen == IF loops > 0 THEN 4 * (GRF_ENTRIES - 1) ELSE 0
    IN <<Phase(0, GetSum,
               IF loops > 0 THEN Loads(segment) \o Products(segment) ELSE <<>>,
               loops, loopLen, Loads(peeling) \o Products(peeling) \o PutSum,
               ext_loops,
               1 + loopLen + 1 + peeling * 2 + 1 < CRF_ENTRIES - 1, 0)>>

DPLimC(dims, ext_loops) ==
    LET crfSegment == Least(((CRF_ENTRIES - 4) \div 4) * 2,
                            2 * (GRF_ENTRIES - 1))
        loops == dims \div crfSegment
        peeling == dims % crfSegment
        loopLen == 2 * crfSegment
        Part(p, n, exits) ==
            Phase(0, GetSum, Loads(p) \o Products(p), n, loopLen, PutSum,
                  ext_loops, exits, 0)
    IN When(loops > 0,
            Part(crfSegment, loops,
                 \/ loops > 1 /\ 1 + loopLen + 1 + 1 < CRF_ENTRIES - 1
                 \/ loops > 0 /\ 1 + loopLen + 1 < CRF_ENTRIES - 1))
       \o When(peeling > 0,
               Part(peeling, 1, 1 + peeling * 2 + 1 < CRF_ENTRIES - 1))

DP(dims, ext_loops) ==
    IF DPisLimC(dims) THEN DPLimC(dims, ext_loops) ELSE DPLimR(dims, ext_loops)

-----------------------------------------------------------------------------
(* The accumulating loops that matrix multiplication and convolution share *)

(* Mutant: no command for the EXIT of a program without JUMP. *)
HostExitsAfterJump(loops, len) == loops > 1 /\ len + 1 < CRF_ENTRIES - 1
HostExits(loops, len) ==
    (loops > 1 /\ len + 1 < CRF_ENTRIES - 1)
    \/ (loops > 0 /\ len < CRF_ENTRIES - 1)

Partial == <<Load("ODD_BANK", MovIn("GRF_B", 0, "ODD_BANK"))>>

Result(relu) ==
    IF relu
    THEN <<Load("ODD_BANK", MovReLU(1, "GRF_B", 0)),
           Store("ODD_BANK", MovOut("ODD_BANK", "GRF_B", 1))>>
    ELSE <<Store("ODD_BANK", MovOut("ODD_BANK", "GRF_B", 0))>>

Bit(relu) == IF relu THEN 1 ELSE 0

(* Mutant: the jump forgets the move through the ReLU. *)
AccumulateShortLoop(base, p, loops, reps, relu) ==
    LET loopLen == p + 2
    IN Phase(base, <<>>, Partial \o Macs(p) \o Result(relu), loops, loopLen,
             <<>>, reps, HostExits(loops, loopLen + Bit(relu)), p)

(* p products are added to the partial result in the bank. *)
Accumulate(base, p, loops, reps, relu) ==
    LET loopLen == p + 2 + Bit(relu)
    IN Phase(base, <<>>, Partial \o Macs(p) \o Result(relu), loops, loopLen,
             <<>>, reps, HostExits(loops, loopLen + Bit(relu)), p)

(* Mutant: the peeling keeps one entry too many. *)
MMOverwriteLate(m, n, loops) ==
    LET ext_loops == n \div SRF_M_ENTRIES
        ext_peeling == n % SRF_M_ENTRIES
    IN When(ext_loops > 0,
            Accumulate(0, SRF_M_ENTRIES, loops, m * ext_loops, FALSE))
       \o When(ext_peeling > 0,
               Accumulate(IF ext_loops > 0 THEN ext_peeling + 2 ELSE 0,
                          ext_peeling, loops, m, FALSE))
(* Matrix multiplication, m x n by n x q with q in "loops" column groups   *)
(* (cnm_mm.h, R-limited).                                                  *)
MM(m, n, loops) ==
    LET ext_loops == n \div SRF_M_ENTRIES
        ext_peeling == n % SRF_M_ENTRIES
    IN When(ext_loops > 0,
            Accumulate(0, SRF_M_ENTRIES, loops, m * ext_loops, FALSE))
       \o When(ext_peeling > 0,
               Accumulate(IF ext_loops > 0 THEN ext_peeling + 1 ELSE 0,
                          ext_peeling, loops, m, FALSE))

(* Convolution with kkci = k*k*ci weights per output channel, co of them,  *)
(* and the output in "loops" column groups (cnm_conv.h, R-limited).        *)
BiasAndMacs(p) ==
    <<Load("EVEN_BANK", MadSRF)>>
    \o SubSeq(Macs(2 * (p \div 2)), 2, 2 * (p \div 2))

ConvFirst(loops, co, relu) ==
    LET loopLen == SRF_M_ENTRIES + 1 + Bit(relu)
    IN Phase(0, <<>>, BiasAndMacs(SRF_M_ENTRIES) \o Result(relu), loops,
             loopLen, <<>>, co, HostExits(loops, loopLen + Bit(relu)),
             SRF_M_ENTRIES)

(* ReLU of results that are complete in the bank. *)
ConvReLU(loops, co) ==
    Phase(0, <<>>, <<Load("ODD_BANK", MovReLU(0, "ODD_BANK", 0)),
                     Store("ODD_BANK", MovOut("ODD_BANK", "GRF_B", 0))>>,
          loops, 2, <<>>, co, 2 + 1 < CRF_ENTRIES - 1, 0)

(* Fewer weights than scalar registers: one phase with the bias. *)
ConvSmall(p, loops, co, relu) ==
    LET loopLen == p + 1 + Bit(relu)
        last == IF (p - 1) % 2 = 1
                THEN <<Load("EVEN_BANK", MacSRF("EVEN_BANK", p - 1))>>
                ELSE <<>>
    IN Phase(0, <<>>, BiasAndMacs(p) \o last \o Result(relu), loops, loopLen,
             <<>>, co, HostExits(loops, loopLen + Bit(relu)), p)

Conv(kkci, loops, co, relu) ==
    LET ext_loops == (kkci \div SRF_M_ENTRIES) - 1
        ext_peeling == kkci % SRF_M_ENTRIES
    IN When(ext_loops > -1,
            ConvFirst(loops, co, relu /\ ext_peeling = 0 /\ ext_loops = 0))
       \o When(ext_loops > 0,
               Accumulate(0, SRF_M_ENTRIES, loops, co * ext_loops, FALSE))
       \o When(relu /\ ext_loops > 0 /\ ext_peeling = 0, ConvReLU(loops, co))
       \o When(ext_peeling > 0 /\ ext_loops > -1,
               Accumulate(IF ext_loops > 0 THEN ext_peeling + 1 ELSE 0,
                          ext_peeling, loops, co, relu))
       \o When(ext_peeling > 0 /\ ext_loops = -1,
               ConvSmall(ext_peeling, loops, co, relu))
=============================================================================
