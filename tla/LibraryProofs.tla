---------------------------- MODULE LibraryProofs ----------------------------
(***************************************************************************)
(* The library's convolution and dot product, and programs of all four     *)
(* kernels.  NMClibProofs has matrix multiplication and vector addition.   *)
(* Left out are the calls the code gets wrong: convolutions with more than *)
(* one and fewer weights than scalar registers, and dot products whose     *)
(* program fills the CRF.  That they are wrong is proved too.              *)
(***************************************************************************)
EXTENDS NMClibProofs

(* Division with remainder. *)
LEMMA Division ==
    ASSUME NEW a \in Nat, NEW b \in Nat \ {0}
    PROVE  a \div b \in Nat /\ a % b \in 0..(b - 1) /\ a = b * (a \div b) + (a % b)
  OBVIOUS

(* A loop as the generate functions write it: the distance of the JUMP and *)
(* the host's test for the EXIT are computed, not read off the program.    *)
LEMMA PhaseIsLoop ==
    ASSUME NEW body, NEW loops, NEW reps, NEW terms, NEW base,
           NEW len, len = Len(body), NEW exits, exits = TRUE
    PROVE  Phase(base, <<>>, body, loops, len, <<>>, reps, exits, terms)
             = Loop(base, body, loops, reps, terms)
  BY Zenon DEF Loop, Routine

(* The first loop of an output: nothing is loaded before it, and its first *)
(* command replaces what was summed before.                                *)
LEMMA FirstLoop ==
    ASSUME NEW n \in Nat, NEW h \in 0..n, NEW relu \in BOOLEAN,
           NEW head, Begins(head, h),
           NEW loops \in 1..IMM1_Limit, NEW reps \in Nat,
           NEW len \in Nat, len = n - h + 2 + Bit(relu),
           NEW exits, exits = TRUE, len + 2 <= CRF_ENTRIES
    PROVE  Independent(Phase(0, <<>>, Summing(head, h, n, relu), loops, len,
                             <<>>, reps, exits, n))
<1> DEFINE body == Summing(head, h, n, relu)
           q == Loop(0, body, loops, reps, n)
<1>1. PICK r \in Nat : r = Bit(relu)
  BY ResultIs
<1>2. 0 \in 0..(n - h + 1) /\ n - h + 4 + Bit(relu) <= CRF_ENTRIES
  <2>1. n - h + 4 + r <= CRF_ENTRIES
    BY <1>1, StagesAssumption
  <2>2. 0 \in 0..(n - h + 1)
    OBVIOUS
  <2> QED BY <1>1, <2>1, <2>2, Zenon
<1>3. Sums(q, 0, head, h, n) /\ Len(body) = n - h + 2 + Bit(relu)
  BY <1>2, SummingOK
<1> HIDE DEF body
<1>4. Phase(0, <<>>, body, loops, len, <<>>, reps, exits, n) = q
  <2>1. len = Len(body)
    BY <1>3, Zenon
  <2> QED BY <2>1, PhaseIsLoop
<1> HIDE DEF q
<1>5. Independent(q)
  BY <1>3 DEF Sums, Independent
<1> QED BY <1>4, <1>5, Zenon DEF body

-----------------------------------------------------------------------------
(* Convolution: the first loop starts from the bias. *)

Bias == Load("EVEN_BANK", MadSRF)

(* The multiplication with the bias takes the first scalar. *)
LEMMA BiasBegins == Begins(Bias, 1)
<1> DEFINE i == MadSRF
<1>1. /\ i = Instr("MAD", "GRF_B", 0, "EVEN_BANK", 0, "SRF_M", 0, "SRF_A", FALSE)
      /\ i.op = "MAD" /\ i.src1 = "SRF_M" /\ i.n1 = 0
  BY DEF MadSRF, Instr
<1>2. Plain(Load("EVEN_BANK", i))
  BY <1>1, PlainInstr DEF Banks
<1> HIDE DEF i
<1>3. Load("EVEN_BANK", i).cmd = "RD" /\ Load("EVEN_BANK", i).instr = i
  BY DEF Load
<1>4. \A t : TakeFrom(t, i) = First(1)
  BY <1>1, Takes, FirstOne
<1> QED BY <1>2, <1>3, <1>4 DEF Begins, Bias, i

(* With an even number of scalar registers the bias and the products of    *)
(* the loop take all of them.                                              *)
LEMMA BiasAndAllMacs ==
    ASSUME NEW n \in Nat, n % 2 = 0, n >= 2
    PROVE  BiasAndMacs(n) = <<Bias>> \o Middle(1, n)
<1> DEFINE s == Macs(n)
           u == SubSeq(s, 2, n)
           v == Middle(1, n)
           S == {Macs(n)[j] : j \in 1..n}
<1>1. 2 * (n \div 2) = n
  OBVIOUS
<1>2. \A j \in 2..n : s[j] \in S
  OBVIOUS
<1>3. v \in [1..(n - 1) -> S] /\ \A j \in 1..(n - 1) : v[j] = s[1 + j]
  BY DEF Middle
<1> HIDE DEF S, s, v
<1>4. u \in Seq(S) /\ Len(u) = n - 1 /\ \A j \in 1..(n - 1) : u[j] = s[1 + j]
  <2>1. /\ u \in Seq(S) /\ Len(u) = IF 2 <= n THEN n - 2 + 1 ELSE 0
        /\ \A j \in 1..(n - 2 + 1) : u[j] = s[2 + j - 1]
    BY <1>2, SubSeqProperties
  <2>2. n - 2 + 1 = n - 1 /\ 2 <= n /\ \A j \in 1..(n - 1) : 2 + j - 1 = 1 + j
    OBVIOUS
  <2> HIDE DEF u
  <2> QED BY <2>1, <2>2
<1>5. v \in Seq(S) /\ Len(v) = n - 1
  <2>1. n - 1 \in Nat
    OBVIOUS
  <2> QED BY <1>3, <2>1, FunctionIsSeq
<1> HIDE DEF u
<1>6. u = v
  BY <1>3, <1>4, <1>5, SeqEqual
<1>7. BiasAndMacs(n) = <<Bias>> \o SubSeq(Macs(n), 2, n)
  BY <1>1, Zenon DEF BiasAndMacs, Bias
<1> QED BY <1>6, <1>7 DEF u, v, s

(* A single weight: the bias alone. *)
LEMMA BiasAlone == BiasAndMacs(1) \o <<>> = <<Bias>> \o Middle(1, 1)
<1>1. 2 * (1 \div 2) = 0
  OBVIOUS
<1>2. SubSeq(Macs(0), 2, 0) = <<>>
  BY SubSeqEmpty
<1>3. BiasAndMacs(1) = <<Bias>> \o <<>>
  BY <1>1, <1>2, Zenon DEF BiasAndMacs, Bias
<1>4. <<Bias>> \o <<>> = <<Bias>>
  <2>1. <<Bias>> \in Seq({Bias})
    OBVIOUS
  <2> QED BY <2>1, ConcatEmptySeq
<1>5. Middle(1, 1) = <<>>
  <2>1. Middle(1, 1) \in [1..0 -> {}]
    BY DEF Middle
  <2>2. Middle(1, 1) \in Seq({}) /\ Len(Middle(1, 1)) = 0
    BY <2>1, FunctionIsSeq
  <2> QED BY <2>2, EmptySeq
<1> QED BY <1>3, <1>4, <1>5, Zenon

(* The host issues the EXIT when it thinks there is one. *)
LEMMA Exits ==
    ASSUME NEW loops \in 1..IMM1_Limit, NEW len \in Nat, len + 2 <= CRF_ENTRIES
    PROVE  HostExits(loops, len) = TRUE
<1>1. loops > 0 /\ len < CRF_ENTRIES - 1
  BY StagesAssumption, Imm1Assumption
<1> QED BY <1>1, Zenon DEF HostExits

(* The loops that start a convolution, for all weights that fit the scalar *)
(* registers exactly or a single one.                                      *)
LEMMA ConvFirstOK ==
    ASSUME NEW loops \in 1..IMM1_Limit, NEW co \in Nat, NEW relu \in BOOLEAN,
           SRF_M_ENTRIES % 2 = 0, SRF_M_ENTRIES + 4 + Bit(relu) <= CRF_ENTRIES
    PROVE  /\ Independent(ConvFirst(loops, co, relu))
           /\ Independent(ConvSmall(1, loops, co, relu))
<1> DEFINE E == SRF_M_ENTRIES
<1>0. E \in Nat \ {0} /\ CRF_ENTRIES \in Nat /\ E % 2 = 0
      /\ E + 4 + Bit(relu) <= CRF_ENTRIES
  BY StagesAssumption DEF SRF_M_ENTRIES
<1> HIDE DEF E
<1>1. PICK r \in Nat : r = Bit(relu) /\ r \in 0..1
  BY ResultIs
<1>2. E + 4 + r <= CRF_ENTRIES /\ E >= 2
  <2>1. E + 4 + r <= CRF_ENTRIES
    BY <1>0, <1>1, Zenon
  <2> QED BY <1>0, <2>1
<1>3. Independent(ConvFirst(loops, co, relu))
  <2>1. PICK len \in Nat : len = E + 1 + r
    BY <1>0
  <2>2. len = E - 1 + 2 + r /\ len + 2 <= CRF_ENTRIES /\ 1 \in 0..E
        /\ len + r \in Nat /\ len + r + 2 <= CRF_ENTRIES
    BY <1>0, <1>1, <1>2, <2>1
  <2>3. HostExits(loops, len + r) = TRUE
    BY <2>2, Exits
  <2>4. BiasAndMacs(E) \o Result(relu) = Summing(Bias, 1, E, relu)
    BY <1>0, <1>2, BiasAndAllMacs, Zenon DEF Summing
  <2>5. ConvFirst(loops, co, relu)
          = Phase(0, <<>>, BiasAndMacs(E) \o Result(relu), loops, E + 1 + r,
                  <<>>, co, HostExits(loops, E + 1 + r + r), E)
    BY <1>1, Zenon DEF ConvFirst, E
  <2>6. ConvFirst(loops, co, relu)
          = Phase(0, <<>>, Summing(Bias, 1, E, relu), loops, len, <<>>, co,
                  HostExits(loops, len + r), E)
    BY <2>1, <2>4, <2>5, Zenon
  <2>7. len = E - 1 + 2 + Bit(relu)
    BY <1>1, <2>2, Zenon
  <2>8. E \in Nat
    BY <1>0
  <2>9. Independent(Phase(0, <<>>, Summing(Bias, 1, E, relu), loops, len, <<>>,
                          co, HostExits(loops, len + r), E))
    BY <2>2, <2>3, <2>7, <2>8, BiasBegins, FirstLoop
  <2> QED BY <2>6, <2>9, Zenon
<1>4. Independent(ConvSmall(1, loops, co, relu))
  <2>1. PICK len \in Nat : len = 1 + 1 + r
    OBVIOUS
  <2>2. len = 1 - 1 + 2 + r /\ len + 2 <= CRF_ENTRIES /\ 1 \in 0..1 /\ 1 \in Nat
        /\ len + r \in Nat /\ len + r + 2 <= CRF_ENTRIES
    BY <1>0, <1>1, <1>2, <2>1
  <2>3. HostExits(loops, len + r) = TRUE
    BY <2>2, Exits
  <2>4. BiasAndMacs(1) \o <<>> \o Result(relu) = Summing(Bias, 1, 1, relu)
    BY BiasAlone, Zenon DEF Summing
  <2>5. ~((1 - 1) % 2 = 1)
    OBVIOUS
  <2>6. ConvSmall(1, loops, co, relu)
          = Phase(0, <<>>, BiasAndMacs(1) \o <<>> \o Result(relu), loops,
                  1 + 1 + r, <<>>, co, HostExits(loops, 1 + 1 + r + r), 1)
    BY <1>1, <2>5, Zenon DEF ConvSmall
  <2>7. ConvSmall(1, loops, co, relu)
          = Phase(0, <<>>, Summing(Bias, 1, 1, relu), loops, len, <<>>, co,
                  HostExits(loops, len + r), 1)
    BY <2>1, <2>4, <2>6, Zenon
  <2>8. len = 1 - 1 + 2 + Bit(relu)
    BY <1>1, <2>2, Zenon
  <2>9. Independent(Phase(0, <<>>, Summing(Bias, 1, 1, relu), loops, len, <<>>,
                          co, HostExits(loops, len + r), 1))
    BY <2>2, <2>3, <2>8, BiasBegins, FirstLoop
  <2> QED BY <2>7, <2>9, Zenon
<1> QED BY <1>3, <1>4

(* The pass that takes finished results through the ReLU. *)
LEMMA ConvReLUOK ==
    ASSUME NEW loops \in 1..IMM1_Limit, NEW co \in Nat, CRF_ENTRIES >= 5
    PROVE  Independent(ConvReLU(loops, co))
<1> DEFINE i == MovReLU(0, "ODD_BANK", 0)
           head == Load("ODD_BANK", i)
           store == Store("ODD_BANK", MovOut("ODD_BANK", "GRF_B", 0))
<1>1. /\ i = Instr("MOV", "GRF_B", 0, "ODD_BANK", 0, "-", 0, "-", TRUE)
      /\ i.op = "MOV" /\ i.src0 = "ODD_BANK" /\ i.src1 = "-"
  BY DEF MovReLU, Instr
<1>2. Plain(head)
  BY <1>1, PlainInstr DEF Banks
<1>3. Begins(head, 0)
  <2> HIDE DEF i
  <2>1. head.cmd = "RD" /\ head.instr = i
    BY DEF Load
  <2>2. \A t : TakeFrom(t, i) = First(0)
    BY <1>1, Takes, FirstNone
  <2> QED BY <1>2, <2>1, <2>2 DEF Begins
<1>4. ConvReLU(loops, co) = Phase(0, <<>>, <<head, store>>, loops, 2, <<>>, co,
                                  2 + 1 < CRF_ENTRIES - 1, 0)
  BY Zenon DEF ConvReLU
<1>5. Result(FALSE) = <<store>> /\ Bit(FALSE) = 0
  BY DEF Result, Bit
<1> HIDE DEF head, store
<1>6. Summing(head, 0, 0, FALSE) = <<head, store>>
  <2>1. Middle(0, 0) = <<>>
    <3>1. Middle(0, 0) \in [1..0 -> {}]
      BY DEF Middle
    <3>2. Middle(0, 0) \in Seq({}) /\ Len(Middle(0, 0)) = 0
      BY <3>1, FunctionIsSeq
    <3> QED BY <3>2, EmptySeq
  <2>2. <<head>> \o <<>> \o <<store>> = <<head, store>>
    <3>1. <<head>> \in Seq({head, store}) /\ store \in {head, store}
      OBVIOUS
    <3>2. <<head>> \o <<>> = <<head>>
      BY <3>1, ConcatEmptySeq
    <3>3. <<head>> \o <<store>> = Append(<<head>>, store)
      BY <3>1, AppendIsConcat
    <3> DEFINE a == Append(<<head>>, store)
               d == <<head, store>>
    <3>4. a = d
      <4>1. /\ a \in Seq({head, store}) /\ Len(a) = 2
            /\ a[1] = head /\ a[2] = store
        OBVIOUS
      <4>2. /\ d \in Seq({head, store}) /\ Len(d) = 2
            /\ d[1] = head /\ d[2] = store
        OBVIOUS
      <4> HIDE DEF a, d
      <4>3. \A i1 \in 1..Len(a) : a[i1] = d[i1]
        BY <4>1, <4>2
      <4> QED BY <4>1, <4>2, <4>3, SeqEqual
    <3> QED BY <3>2, <3>3, <3>4, Zenon
  <2> QED BY <1>5, <2>1, <2>2, Zenon DEF Summing
<1>7. (2 + 1 < CRF_ENTRIES - 1) = TRUE /\ 2 + 2 <= CRF_ENTRIES
  BY StagesAssumption
<1>8. 2 = 0 - 0 + 2 + Bit(FALSE)
  <2>1. 2 = 0 - 0 + 2 + 0
    OBVIOUS
  <2> QED BY <1>5, <2>1, Zenon
<1> DEFINE exits == 2 + 1 < CRF_ENTRIES - 1
<1>9. exits = TRUE
  BY <1>7
<1> HIDE DEF exits
<1>10. Independent(Phase(0, <<>>, Summing(head, 0, 0, FALSE), loops, 2, <<>>, co,
                         exits, 0))
  <2>1. 0 \in Nat /\ 0 \in 0..0 /\ FALSE \in BOOLEAN /\ 2 \in Nat
    OBVIOUS
  <2> QED BY <1>3, <1>7, <1>8, <1>9, <2>1, FirstLoop
<1> QED BY <1>4, <1>6, <1>10, Zenon DEF exits

(* Convolution with one weight per output channel, or at least as many as  *)
(* there are scalar registers, whenever the constructor chooses the        *)
(* R-limited form: whatever the passes over the weights, the peeling and   *)
(* the ReLU, the kernel is safe and takes every weight of a pass once.     *)
THEOREM ConvWellFormed ==
    ASSUME NEW kkci \in Nat \ {0}, NEW loops \in 1..IMM1_Limit,
           NEW co \in Nat \ {0}, NEW relu \in BOOLEAN,
           kkci = 1 \/ kkci >= SRF_M_ENTRIES, SRF_M_ENTRIES % 2 = 0,
           ~(CRF_ENTRIES < SRF_M_ENTRIES + 4 + Bit(relu))
    PROVE  /\ WellFormed(Conv(kkci, loops, co, relu))
           /\ \A i \in DOMAIN Conv(kkci, loops, co, relu) :
                 TermsOK(Conv(kkci, loops, co, relu)[i])
<1> DEFINE E == SRF_M_ENTRIES
           ext_loops == (kkci \div E) - 1
           ext_peeling == kkci % E
           begun == ext_loops > -1
           more == ext_loops > 0
           through == relu /\ ext_loops > 0 /\ ext_peeling = 0
           peel == ext_peeling > 0 /\ ext_loops > -1
           small == ext_peeling > 0 /\ ext_loops = -1
           only == relu /\ ext_peeling = 0 /\ ext_loops = 0
           base == IF ext_loops > 0 THEN ext_peeling + 1 ELSE 0
           first == ConvFirst(loops, co, only)
           next == Accumulate(0, E, loops, co * ext_loops, FALSE)
           pass == ConvReLU(loops, co)
           last == Accumulate(base, ext_peeling, loops, co, relu)
           alone == ConvSmall(ext_peeling, loops, co, relu)
           kernel == Conv(kkci, loops, co, relu)
<1>1. kernel = When(begun, first) \o When(more, next) \o When(through, pass)
                 \o When(peel, last) \o When(small, alone)
  BY DEF Conv
<1>2. PICK r \in Nat : r = Bit(relu) /\ r \in 0..1
  BY ResultIs
<1>3. E \in Nat \ {0} /\ CRF_ENTRIES \in Nat /\ E + 4 + r <= CRF_ENTRIES /\ E >= 2
  <2>1. E \in Nat \ {0} /\ CRF_ENTRIES \in Nat /\ E % 2 = 0
    BY StagesAssumption DEF SRF_M_ENTRIES
  <2>2. ~(CRF_ENTRIES < E + 4 + r)
    BY <1>2, Zenon
  <2> HIDE DEF E
  <2> QED BY <2>1, <2>2
<1>4. E % 2 = 0 /\ (kkci = 1 \/ kkci >= E)
  OBVIOUS
<1>5. Bit(FALSE) = 0 /\ FALSE \in BOOLEAN /\ 2 * 0 = 0
  BY DEF Bit
<1> HIDE DEF E
<1>6. /\ ext_peeling \in 0..(E - 1)
      /\ \/ ext_loops \in Nat
         \/ ext_loops = -1 /\ ext_peeling = 1
  <2> DEFINE d == kkci \div E
  <2>1. d \in Nat /\ ext_peeling \in 0..(E - 1) /\ kkci = E * d + ext_peeling
    BY <1>3, Division
  <2> HIDE DEF d, ext_peeling
  <2>2. CASE d > 0
    BY <2>1, <2>2 DEF d
  <2>3. CASE d = 0
    <3>1. kkci = ext_peeling
      BY <1>3, <2>1, <2>3
    <3>2. kkci = 1
      BY <1>3, <1>4, <2>1, <3>1
    <3> QED BY <2>1, <2>3, <3>1, <3>2 DEF d
  <2> QED BY <2>1, <2>2, <2>3
<1> HIDE DEF ext_loops, ext_peeling
<1>7. /\ begun \in BOOLEAN /\ more \in BOOLEAN /\ through \in BOOLEAN
      /\ peel \in BOOLEAN /\ small \in BOOLEAN /\ only \in BOOLEAN
  OBVIOUS
<1>8. begun => Independent(first)
  <2>1. CASE only
    <3>1. relu /\ only = TRUE /\ relu = TRUE
      BY <1>7, <2>1
    <3>2. E + 4 + Bit(TRUE) <= CRF_ENTRIES
      <4>1. r = Bit(TRUE)
        BY <1>2, <3>1, Zenon
      <4> QED BY <1>3, <4>1, Zenon
    <3>3. Independent(ConvFirst(loops, co, TRUE))
      BY <1>4, <3>2, ConvFirstOK DEF E
    <3> QED BY <3>1, <3>3, Zenon
  <2>2. CASE ~only
    <3>1. only = FALSE
      BY <1>7, <2>2
    <3>2. E + 4 + Bit(FALSE) <= CRF_ENTRIES
      <4>1. E + 4 + 0 <= CRF_ENTRIES
        BY <1>3
      <4> QED BY <1>5, <4>1, Zenon
    <3>3. Independent(ConvFirst(loops, co, FALSE))
      BY <1>4, <1>5, <3>2, ConvFirstOK DEF E
    <3> QED BY <3>1, <3>3, Zenon
  <2> QED BY <2>1, <2>2
<1>9. more => Sums(next, 0, Partial[1], 0, E)
  <2>1. SUFFICES ASSUME more PROVE Sums(next, 0, Partial[1], 0, E)
    OBVIOUS
  <2>2. co * ext_loops \in Nat /\ E \in Nat /\ 0 \in 0..(E + 1)
    BY <1>3, <1>6, <2>1
  <2>3. E + 4 + 2 * Bit(FALSE) <= CRF_ENTRIES
    <3>1. E + 4 + 0 <= CRF_ENTRIES
      BY <1>3
    <3> QED BY <1>5, <3>1, Zenon
  <2> QED BY <1>5, <2>2, <2>3, AccumulateOK
<1>10. Independent(pass)
  <2>1. CRF_ENTRIES >= 5
    BY <1>3
  <2> QED BY <2>1, ConvReLUOK
<1>11. peel => Sums(last, base, Partial[1], 0, ext_peeling)
  <2>1. base \in 0..(ext_peeling + 1) /\ ext_peeling \in Nat
    BY <1>6
  <2>2. ext_peeling + 4 + 2 * r <= CRF_ENTRIES
    BY <1>2, <1>3, <1>6
  <2>3. ext_peeling + 4 + 2 * Bit(relu) <= CRF_ENTRIES
    BY <1>2, <2>2, Zenon
  <2> HIDE DEF base
  <2> QED BY <2>1, <2>3, AccumulateOK
<1>12. small => Independent(alone)
  <2>1. SUFFICES ASSUME small PROVE Independent(alone)
    OBVIOUS
  <2>2. ext_peeling = 1
    BY <1>6, <2>1
  <2>3. E + 4 + Bit(relu) <= CRF_ENTRIES
    BY <1>2, <1>3, Zenon
  <2>4. Independent(ConvSmall(1, loops, co, relu))
    BY <1>4, <2>3, ConvFirstOK DEF E
  <2> QED BY <2>2, <2>4, Zenon
<1>13. /\ more => begun /\ ~small
       /\ through => more /\ ~peel
       /\ peel => begun /\ ~small /\ ~through
       /\ begun <=> ~small
       /\ peel /\ more => base = ext_peeling + 1
       /\ peel /\ ~more => base = 0
  BY <1>6
<1> HIDE DEF first, next, pass, last, alone, begun, more, through, peel, small,
             only, base, kernel
<1>14. CASE small
  <2>1. ~begun /\ ~more /\ ~through /\ ~peel
    BY <1>13, <1>14
  <2>2. kernel = <<>> \o <<>> \o <<>> \o <<>> \o <<alone>>
    BY <1>1, <1>14, <2>1, Zenon DEF When
  <2>3. kernel = <<alone>>
    <3>1. <<>> \o <<>> = <<>> /\ <<>> \o <<alone>> = <<alone>>
      OBVIOUS
    <3> QED BY <2>2, <3>1, Zenon
  <2>4. Sound(<<alone>>)
    BY <1>12, <1>14, OnePhase
  <2> QED BY <2>3, <2>4 DEF Sound, kernel
<1>15. CASE ~small
  <2> DEFINE k1 == <<first>>
             k2 == k1 \o When(more, next)
             k3 == k2 \o When(through, pass)
             k4 == k3 \o When(peel, last)
  <2>1. begun /\ kernel = k4 \o <<>>
    BY <1>1, <1>13, <1>15, Zenon DEF When
  <2>2. Sound(k1) /\ k1[Len(k1)] = first
    BY <1>8, <2>1, OnePhase
  <2> HIDE DEF k1
  <2>3. /\ Sound(k2)
        /\ more => k2[Len(k2)] = next
    <3>1. ASSUME more
          PROVE  k2 = Append(k1, next) /\ Independent(next)
      BY <1>7, <1>9, <2>2, <3>1, MaybeOnePhase DEF Sums, Independent
    <3>2. ASSUME more PROVE Sound(k2) /\ k2[Len(k2)] = next
      <4>1. PhaseOK(next) /\ TermsOK(next) /\ Relies(next, k1[Len(k1)])
        BY <2>2, <3>1, <3>2, LastPhaseOK, ReliesOnNothing DEF Independent
      <4> QED BY <2>2, <3>1, <3>2, <4>1, OneMorePhase
    <3>3. ASSUME ~more PROVE Sound(k2)
      BY <1>7, <2>2, <3>3, MaybeOnePhase
    <3> QED BY <3>2, <3>3
  <2> HIDE DEF k2
  <2>4. Sound(k3) /\ (peel => k3 = k2)
    BY <1>7, <1>10, <1>13, <2>3, MaybeOnePhase
  <2> HIDE DEF k3
  <2>5. Sound(k4)
    <3>1. CASE ~peel
      BY <1>7, <2>4, <3>1, MaybeOnePhase
    <3>2. CASE peel /\ more
      <4>1. Sums(last, ext_peeling + 1, Partial[1], 0, ext_peeling)
        BY <1>11, <1>13, <3>2, Zenon
      <4>2. ext_peeling \in Nat /\ ext_peeling <= E /\ E \in Nat
        BY <1>3, <1>6
      <4>3. Relies(last, next)
        BY <1>9, <3>2, <4>1, <4>2, PeelingRelies
      <4>4. k3[Len(k3)] = next
        BY <2>3, <2>4, <3>2, Zenon
      <4>5. Sound(Append(k3, last))
        BY <2>4, <4>1, <4>3, <4>4, OneMorePhase DEF Sums
      <4> QED BY <1>7, <2>4, <3>2, <4>5, MaybeOnePhase
    <3>3. CASE peel /\ ~more
      <4>1. Sums(last, 0, Partial[1], 0, ext_peeling)
        BY <1>11, <1>13, <3>3, Zenon
      <4>2. Independent(last)
        BY <4>1 DEF Sums, Independent
      <4> QED BY <1>7, <2>4, <4>2, MaybeOnePhase
    <3> QED BY <3>1, <3>2, <3>3
  <2> HIDE DEF k4
  <2>6. kernel = k4
    <3>1. PICK S : k4 \in Seq(S)
      BY <2>5 DEF Sound
    <3> QED BY <2>1, <3>1, ConcatEmptySeq
  <2> QED BY <2>5, <2>6 DEF Sound, kernel
<1> QED BY <1>14, <1>15

(* The condition on the weights is exact: between one and the number of    *)
(* scalar registers the loop that generateConvolutionKernelLimR writes for *)
(* them is one product too long or too short for the distance of its JUMP, *)
(* so with more than one column group the kernel is never safe.            *)
THEOREM ConvFewWeights ==
    ASSUME NEW kkci \in 2..(SRF_M_ENTRIES - 1), NEW loops \in 2..IMM1_Limit,
           NEW co \in Nat \ {0}, NEW relu \in BOOLEAN,
           ~(CRF_ENTRIES < SRF_M_ENTRIES + 4 + Bit(relu))
    PROVE  ~WellFormed(Conv(kkci, loops, co, relu))
<1> DEFINE E == SRF_M_ENTRIES
           ext_loops == (kkci \div E) - 1
           ext_peeling == kkci % E
           kernel == Conv(kkci, loops, co, relu)
           p == ConvSmall(kkci, loops, co, relu)
           first == ConvFirst(loops, co, relu /\ ext_peeling = 0 /\ ext_loops = 0)
           next == Accumulate(0, E, loops, co * ext_loops, FALSE)
           pass == ConvReLU(loops, co)
           last == Accumulate(IF ext_loops > 0 THEN ext_peeling + 1 ELSE 0,
                              ext_peeling, loops, co, relu)
           alone == ConvSmall(ext_peeling, loops, co, relu)
<1>1. kernel = When(ext_loops > -1, first) \o When(ext_loops > 0, next)
                 \o When(relu /\ ext_loops > 0 /\ ext_peeling = 0, pass)
                 \o When(ext_peeling > 0 /\ ext_loops > -1, last)
                 \o When(ext_peeling > 0 /\ ext_loops = -1, alone)
  BY DEF Conv
<1>2. PICK r \in Nat : r = Bit(relu) /\ r \in 0..1
  BY ResultIs
<1>3. /\ E \in Nat \ {0} /\ CRF_ENTRIES \in Nat /\ CRF_ENTRIES <= 256
      /\ E + 4 + r <= CRF_ENTRIES /\ kkci \in 2..(E - 1)
  <2>1. E \in Nat \ {0} /\ CRF_ENTRIES \in Nat /\ CRF_ENTRIES <= 256
    BY StagesAssumption DEF SRF_M_ENTRIES
  <2>2. ~(CRF_ENTRIES < E + 4 + r) /\ kkci \in 2..(E - 1)
    BY <1>2, Zenon
  <2> HIDE DEF E
  <2> QED BY <2>1, <2>2
<1> HIDE DEF E
<1>4. ext_loops = -1 /\ ext_peeling = kkci /\ kkci > 0
  <2> DEFINE d == kkci \div E
  <2>1. d \in Nat /\ ext_peeling \in 0..(E - 1) /\ kkci = E * d + ext_peeling
    <3>1. kkci \in Nat
      BY <1>3
    <3> QED BY <1>3, <3>1, Division
  <2> HIDE DEF d, ext_peeling
  <2>2. d = 0
    <3>1. SUFFICES ASSUME d >= 1 PROVE FALSE
      BY <2>1
    <3>2. E * d >= E
      BY <1>3, <2>1, <3>1
    <3> QED BY <1>3, <2>1, <3>2
  <2> QED BY <1>3, <2>1, <2>2 DEF d
<1> HIDE DEF ext_loops, ext_peeling
<1>5. kernel = <<p>>
  <2>1. /\ ~(ext_loops > -1) /\ ~(ext_loops > 0) /\ ext_peeling > 0
        /\ ext_loops = -1
    BY <1>4
  <2>2. alone = p
    BY <1>4, Zenon
  <2> HIDE DEF first, next, pass, last, alone, p, kernel
  <2>3. kernel = <<>> \o <<>> \o <<>> \o <<>> \o <<p>>
    BY <1>1, <2>1, <2>2, Zenon DEF When
  <2>4. <<>> \o <<>> = <<>> /\ <<>> \o <<p>> = <<p>>
    OBVIOUS
  <2> QED BY <2>3, <2>4, Zenon
<1> DEFINE even == 2 * (kkci \div 2)
           u == <<Bias>> \o SubSeq(Macs(even), 2, even)
           v == IF (kkci - 1) % 2 = 1
                THEN <<Load("EVEN_BANK", MacSRF("EVEN_BANK", kkci - 1))>>
                ELSE <<>>
           w == Result(relu)
           body == u \o v \o w
           J == Step(JumpBack(kkci + 1 + r, loops - 1))
<1>6. p.init = <<>> /\ p.body = Append(body, J) /\ p.loops = loops
  <2>1. loops > 1
    BY Imm1Assumption
  <2>2. p = Phase(0, <<>>, body, loops, kkci + 1 + r, <<>>, co,
                  HostExits(loops, kkci + 1 + r + r), kkci)
    BY <1>2, Zenon DEF ConvSmall, BiasAndMacs, Bias
  <2> HIDE DEF body, p
  <2> QED BY <2>1, <2>2 DEF Phase
<1>7. /\ even \in Nat /\ even >= 2
      /\ \/ even = kkci /\ (kkci - 1) % 2 = 1
         \/ even = kkci - 1 /\ (kkci - 1) % 2 = 0
  <2>1. kkci \in Nat /\ kkci >= 2
    BY <1>3
  <2> QED BY <2>1
<1> HIDE DEF even
<1>8. \E S : u \in Seq(S) /\ Len(u) = even
  <2> DEFINE M == {Macs(even)[j] : j \in 1..even}
             C == M \cup {Bias}
             x == SubSeq(Macs(even), 2, even)
             h == <<Bias>>
  <2>1. \A j \in 2..even : Macs(even)[j] \in C
    BY <1>7
  <2>2. h \in Seq(C) /\ Len(h) = 1
    OBVIOUS
  <2> HIDE DEF C, h
  <2>3. x \in Seq(C) /\ Len(x) = even - 1
    <3>1. 2 \in Int /\ even \in Int /\ 2 <= even /\ even - 2 + 1 = even - 1
      BY <1>7
    <3>2. x \in Seq(C) /\ Len(x) = IF 2 <= even THEN even - 2 + 1 ELSE 0
      BY <2>1, <3>1, SubSeqProperties
    <3> QED BY <3>1, <3>2
  <2> HIDE DEF x
  <2>4. h \o x \in Seq(C) /\ Len(h \o x) = Len(h) + Len(x)
    BY <2>2, <2>3, ConcatFacts
  <2>5. Len(h \o x) = even
    BY <1>7, <2>2, <2>3, <2>4
  <2> QED BY <2>4, <2>5 DEF h, x
<1>9. /\ \E S : v \in Seq(S)
      /\ Len(v) = IF (kkci - 1) % 2 = 1 THEN 1 ELSE 0
  <2> DEFINE c == Load("EVEN_BANK", MacSRF("EVEN_BANK", kkci - 1))
  <2> HIDE DEF c
  <2>1. CASE (kkci - 1) % 2 = 1
    <3>1. v = <<c>>
      BY <2>1 DEF c
    <3>2. <<c>> \in Seq({c}) /\ Len(<<c>>) = 1
      OBVIOUS
    <3> HIDE DEF v
    <3> QED BY <2>1, <3>1, <3>2
  <2>2. CASE ~((kkci - 1) % 2 = 1)
    <3>1. v = <<>>
      BY <2>2
    <3>2. <<>> \in Seq({}) /\ Len(<<>>) = 0
      OBVIOUS
    <3> HIDE DEF v
    <3> QED BY <2>2, <3>1, <3>2
  <2> QED BY <2>1, <2>2
<1>10. \E S : w \in Seq(S) /\ Len(w) = 1 + r
  BY <1>2, ResultIs
<1> HIDE DEF u, v, w
<1>11. PICK D : u \in Seq(D) /\ v \in Seq(D) /\ w \in Seq(D)
  <2>1. PICK A : u \in Seq(A)
    BY <1>8
  <2>2. PICK B : v \in Seq(B)
    BY <1>9
  <2>3. PICK C : w \in Seq(C)
    BY <1>10
  <2> DEFINE X == A \cup B \cup C
  <2>4. A \subseteq X /\ B \subseteq X /\ C \subseteq X
    OBVIOUS
  <2> HIDE DEF X
  <2>5. u \in Seq(X) /\ v \in Seq(X) /\ w \in Seq(X)
    BY <2>1, <2>2, <2>3, <2>4, SeqMonotonic
  <2> QED BY <2>5
<1>12. body \in Seq(D) /\ Len(body) = Len(u) + Len(v) + Len(w)
  BY <1>11, ConcatThree
<1> HIDE DEF body
<1>13. PICK b \in Nat : b = Len(body) /\ b # kkci + 1 + r
  <2>1. PICK y \in Nat : y = Len(v) /\ y = IF (kkci - 1) % 2 = 1 THEN 1 ELSE 0
    BY <1>9
  <2>2. Len(body) = even + y + (1 + r)
    BY <1>8, <1>10, <1>12, <2>1
  <2> QED BY <1>7, <2>1, <2>2
<1>14. Len(Append(body, J)) = b + 1 /\ Append(body, J)[b + 1] = J
  <2>1. body \in Seq(D \cup {J}) /\ J \in D \cup {J}
    BY <1>12, SeqMonotonic
  <2> HIDE DEF J
  <2> QED BY <1>13, <2>1, AppendProperties
<1>15. J.instr.imm0 = kkci + 1 + r
  <2>1. J.instr.imm0 = (kkci + 1 + r) % 256
    BY ControlCommands
  <2>2. kkci + 1 + r \in Nat /\ kkci + 1 + r < 256
    BY <1>3
  <2> QED BY <2>1, <2>2, ByteMod
<1> HIDE DEF J, p
<1>16. /\ Steps(p, "init") = 0 /\ Steps(p, "body") = b + 1
       /\ At(p, LoopEnd(p)) = J
  <2>1. Steps(p, "init") = 0 /\ Steps(p, "body") = b + 1
    BY <1>6, <1>14 DEF Steps
  <2>2. LoopEnd(p) = b + 1
    BY <2>1 DEF LoopEnd
  <2>3. ~(b + 1 <= 0) /\ b + 1 <= b + 1 /\ (b + 1) - 0 = b + 1
    OBVIOUS
  <2>4. At(p, b + 1) = p.body[b + 1]
    BY <2>1, <2>2, <2>3, Zenon DEF At
  <2> QED BY <1>6, <1>14, <2>1, <2>2, <2>4
<1>17. ~PhaseOK(p)
  <2>1. SUFFICES ASSUME PhaseOK(p) PROVE FALSE
    OBVIOUS
  <2>2. p.loops > 1
    BY <1>6, Imm1Assumption
  <2>3. At(p, LoopEnd(p)).instr.imm0 = Steps(p, "body") - 1
    BY <2>1, <2>2 DEF PhaseOK, LoopCounts
  <2>4. (b + 1) - 1 = b
    OBVIOUS
  <2> QED BY <1>13, <1>15, <1>16, <2>3, <2>4, Zenon
<1>18. 1 \in DOMAIN <<p>> /\ <<p>>[1] = p
  OBVIOUS
<1> QED BY <1>5, <1>17, <1>18 DEF WellFormed

-----------------------------------------------------------------------------
(* Dot product: the sum is loaded, products are added to it, and it is     *)
(* stored; no scalars.                                                     *)

DPPart(p) == Loads(p) \o Products(p)

DPSegment(dims) ==
    IF DPisLimC(dims)
    THEN Least(((CRF_ENTRIES - 4) \div 4) * 2, 2 * (GRF_ENTRIES - 1))
    ELSE 2 * (GRF_ENTRIES - 1)

DPNeeds(dims) ==
    4 * (GRF_ENTRIES - 1) + 2 * (dims % (2 * (GRF_ENTRIES - 1))) + 4

(* The commands of a dot product, one by one. *)
LEMMA DPCommands ==
    /\ \A p \in Nat : \A j \in 1..p :
          NoScalar(Loads(p)[j]) /\ NoScalar(Products(p)[j])
    /\ NoScalar(GetSum[1]) /\ LoadsVector(GetSum[1]) /\ NoScalar(PutSum[1])
<1>1. ASSUME NEW p \in Nat, NEW j \in 1..p PROVE NoScalar(Products(p)[j])
  <2> DEFINE b == Side(j).bank
             rf == Side(j).rf
             i == Op("MAC", "GRF_B", GRF_ENTRIES - 1, rf, Index(j), b, 0)
  <2>1. b \in Banks /\ rf \in {"GRF_A", "GRF_B"} /\ rf \notin Banks
        /\ b # "SRF_M" /\ "GRF_B" \notin Banks
    BY DEF Side, Banks
  <2>2. Products(p)[j] = Load(b, i)
    BY DEF Products
  <2> HIDE DEF b, rf
  <2>3. Plain(Load(b, i))
    BY <2>1, PlainOp
  <2>4. Load(b, i).instr.src1 = b
    BY DEF Load, Op, Instr
  <2> QED BY <2>1, <2>2, <2>3, <2>4 DEF NoScalar
<1>2. NoScalar(GetSum[1]) /\ LoadsVector(GetSum[1])
  <2> DEFINE i == MovIn("GRF_B", GRF_ENTRIES - 1, "ODD_BANK")
  <2>1. GetSum[1] = Load("ODD_BANK", i)
    BY DEF GetSum
  <2>2. /\ i = Op("MOV", "GRF_B", GRF_ENTRIES - 1, "ODD_BANK", 0, "-", 0)
        /\ i.op = "MOV" /\ i.src0 = "ODD_BANK" /\ i.src1 = "-"
    BY DEF MovIn, Op, Instr
  <2>3. Plain(Load("ODD_BANK", i))
    BY <2>2, PlainOp DEF Banks
  <2> HIDE DEF i
  <2>4. Load("ODD_BANK", i).instr = i /\ Load("ODD_BANK", i).cmd = "RD"
    BY DEF Load
  <2> QED BY <2>1, <2>2, <2>3, <2>4 DEF NoScalar, LoadsVector, Banks
<1>3. NoScalar(PutSum[1])
  <2> DEFINE i == MovOut("ODD_BANK", "GRF_B", GRF_ENTRIES - 1)
  <2>1. PutSum[1] = Store("ODD_BANK", i)
    BY DEF PutSum
  <2>2. /\ i = Op("MOV", "ODD_BANK", 0, "GRF_B", GRF_ENTRIES - 1, "-", 0)
        /\ i.src1 = "-"
    BY DEF MovOut, Op, Instr
  <2>3. Plain(Store("ODD_BANK", i))
    BY <2>2, PlainOp DEF Banks
  <2> HIDE DEF i
  <2>4. Store("ODD_BANK", i).instr = i
    BY DEF Store
  <2> QED BY <2>1, <2>2, <2>3, <2>4 DEF NoScalar
<1> QED BY <1>1, <1>2, <1>3, VACommands

(* Loads and products are as many as they should be. *)
LEMMA DPPartPlain ==
    ASSUME NEW p \in Nat
    PROVE  \E S : /\ DPPart(p) \in Seq(S) /\ Len(DPPart(p)) = 2 * p
                  /\ \A c \in S : NoScalar(c)
<1> DEFINE S == {Loads(p)[j] : j \in 1..p} \cup {Products(p)[j] : j \in 1..p}
           u == Loads(p)
           v == Products(p)
<1>1. u \in Seq(S) /\ Len(u) = p
  <2>1. Loads(p) \in [1..p -> S]
    BY DEF Loads
  <2> QED BY <2>1, FunctionIsSeq
<1>2. v \in Seq(S) /\ Len(v) = p
  <2>1. Products(p) \in [1..p -> S]
    BY DEF Products
  <2> QED BY <2>1, FunctionIsSeq
<1>3. \A c \in S : NoScalar(c)
  BY DPCommands
<1> HIDE DEF S, u, v
<1>4. u \o v \in Seq(S) /\ Len(u \o v) = p + p
  <2>1. u \o v \in Seq(S) /\ Len(u \o v) = Len(u) + Len(v)
    BY <1>1, <1>2, ConcatFacts
  <2> QED BY <1>1, <1>2, <2>1, Zenon
<1>5. DPPart(p) = u \o v /\ p + p = 2 * p
  BY DEF DPPart, u, v
<1> QED BY <1>3, <1>4, <1>5

(* None of them. *)
LEMMA DPPartNone == DPPart(0) = <<>>
<1>1. PICK S : DPPart(0) \in Seq(S) /\ Len(DPPart(0)) = 2 * 0
  BY DPPartPlain
<1> QED BY <1>1, EmptySeq

(* A phase of a dot product: p elements in the loop and r behind it. *)
LEMMA DPPhase ==
    ASSUME NEW p \in Nat, NEW r \in Nat, NEW reps \in Nat,
           NEW loops \in 0..IMM1_Limit, loops = 0 => p = 0,
           2 * p + 2 * r + 4 <= CRF_ENTRIES
    PROVE  /\ Independent(Routine(0, GetSum, DPPart(p), loops,
                                  DPPart(r) \o PutSum, reps, 0))
           /\ Len(DPPart(p)) = 2 * p
<1> DEFINE b == DPPart(p)
           f == DPPart(r)
           init == GetSum
           put == PutSum
           tail == f \o put
           q == Routine(0, init, b, loops, tail, reps, 0)
<1>1. PICK P : b \in Seq(P) /\ Len(b) = 2 * p /\ \A c \in P : NoScalar(c)
  BY DPPartPlain
<1>2. PICK R : f \in Seq(R) /\ Len(f) = 2 * r /\ \A c \in R : NoScalar(c)
  BY DPPartPlain
<1> DEFINE S == P \cup R \cup {GetSum[1], PutSum[1]}
<1>3. \A c \in S : NoScalar(c)
  BY <1>1, <1>2, DPCommands
<1>4. /\ init \in Seq({GetSum[1]}) /\ Len(init) = 1 /\ init[1] = GetSum[1]
      /\ put \in Seq({PutSum[1]}) /\ Len(put) = 1
  BY DEF GetSum, PutSum
<1>5. P \subseteq S /\ R \subseteq S /\ {GetSum[1]} \subseteq S /\ {PutSum[1]} \subseteq S
  OBVIOUS
<1>t. q.terms = 0
  BY DEF Routine, Phase
<1> HIDE DEF b, f, init, put, S
<1>6. b \in Seq(S) /\ f \in Seq(S) /\ init \in Seq(S) /\ put \in Seq(S)
  BY <1>1, <1>2, <1>4, <1>5, SeqMonotonic
<1>7. tail \in Seq(S) /\ Len(tail) = 2 * r + 1
  <2>1. tail \in Seq(S) /\ Len(tail) = Len(f) + Len(put)
    BY <1>6, ConcatFacts
  <2> HIDE DEF tail
  <2> QED BY <1>2, <1>4, <2>1, Zenon
<1> HIDE DEF tail
<1>8. \A c \in S : Plain(c)
  BY <1>3 DEF NoScalar
<1>9. Runs(q, S, 0, init, b, loops, tail)
  <2>1. /\ 0 \in 0..(Len(init) + Len(b)) /\ (loops = 0 => Len(b) = 0)
        /\ Len(init) + Len(b) + Len(tail) + 2 <= CRF_ENTRIES
    BY <1>1, <1>4, <1>7, StagesAssumption
  <2> QED BY <1>6, <1>7, <1>8, <2>1, RoutineOK
<1> HIDE DEF q
<1>10. /\ PhaseOK(q) /\ q.base = 0
       /\ \A n \in 1..Len(init) : At(q, n) = init[n]
       /\ \A n \in 1..Length(q) : At(q, n) \in S \/ OnlyMoves(At(q, n))
  BY <1>9, Zenon DEF Runs, RoutineShape
<1>11. At(q, 1) = GetSum[1]
  <2>1. 1 \in 1..Len(init)
    BY <1>4
  <2> QED BY <1>4, <1>10, <2>1, Zenon
<1>12. TermsOK(q)
  BY <1>t, <1>3, <1>10, <1>11, DPCommands, NoTerms
<1> QED BY <1>1, <1>10, <1>12 DEF Independent, q, tail, b, f, init, put

(* A phase without peeling behind the loop. *)
LEMMA DPWithoutTail == DPPart(0) \o PutSum = PutSum
<1>1. PutSum \in Seq({PutSum[1]})
  BY DEF PutSum
<1> QED BY <1>1, DPPartNone, ConcatEmptySeq

(* The form for segments that fill the register files: one phase, with the *)
(* peeling behind the loop.                                                *)
LEMMA DPLimROK ==
    ASSUME NEW dims \in Nat \ {0}, NEW ext_loops \in Nat, RF_ENTRIES >= 2,
           ~DPisLimC(dims), dims \div (2 * (GRF_ENTRIES - 1)) <= IMM1_Limit,
           dims < 2 * (GRF_ENTRIES - 1) \/ CRF_ENTRIES # DPNeeds(dims)
    PROVE  Sound(DPLimR(dims, ext_loops))
<1> DEFINE g == GRF_ENTRIES - 1
           segment == 2 * g
           loops == dims \div segment
           peeling == dims % segment
           loopLen == IF loops > 0 THEN 4 * g ELSE 0
           body == IF loops > 0 THEN DPPart(segment) ELSE <<>>
           tail == DPPart(peeling) \o PutSum
           exits == 1 + loopLen + 1 + peeling * 2 + 1 < CRF_ENTRIES - 1
           phase1 == Phase(0, GetSum, body, loops, loopLen, tail, ext_loops,
                           exits, 0)
           p == IF loops > 0 THEN segment ELSE 0
<1>1. DPLimR(dims, ext_loops) = <<phase1>>
  BY DEF DPLimR, DPPart
<1>2. /\ g \in Nat \ {0} /\ CRF_ENTRIES \in Nat /\ IMM1_Limit \in Nat
  BY StagesAssumption, Imm1Assumption DEF GRF_ENTRIES
<1>3. /\ CRF_ENTRIES >= 4 * g + 2 * peeling + 4
      /\ dims < segment \/ CRF_ENTRIES # 4 * g + 2 * peeling + 4
      /\ loops <= IMM1_Limit
  <2>1. /\ ~(CRF_ENTRIES < 4 * g + 2 * peeling + 4)
        /\ dims < segment \/ CRF_ENTRIES # 4 * g + 2 * peeling + 4
        /\ loops <= IMM1_Limit
    BY Zenon DEF DPisLimC, DPNeeds
  <2> HIDE DEF g
  <2>2. peeling \in Nat
    <3>1. segment \in Nat \ {0}
      BY <1>2
    <3> HIDE DEF segment
    <3> QED BY <3>1, Division
  <2> HIDE DEF peeling
  <2> QED BY <1>2, <2>1, <2>2
<1> HIDE DEF g
<1>4. segment \in Nat \ {0} /\ segment = 2 * g
  BY <1>2
<1> HIDE DEF segment
<1>5. loops \in Nat /\ peeling \in Nat /\ (dims < segment => loops = 0)
  <2>1. /\ loops \in Nat /\ peeling \in 0..(segment - 1)
        /\ dims = segment * loops + peeling
    BY <1>4, Division
  <2> HIDE DEF loops, peeling
  <2>2. ASSUME dims < segment, loops # 0 PROVE FALSE
    BY <1>4, <2>1, <2>2
  <2> QED BY <2>1, <2>2
<1> HIDE DEF loops, peeling
<1>6. /\ p \in Nat /\ (loops = 0 => p = 0) /\ loops \in 0..IMM1_Limit
      /\ 2 * p + 2 * peeling + 4 <= CRF_ENTRIES /\ 2 * p = loopLen
  BY <1>2, <1>3, <1>4, <1>5
<1>7. exits = TRUE
  BY <1>2, <1>3, <1>4, <1>5
<1>8. body = DPPart(p)
  <2>1. CASE loops > 0
    BY <2>1, Zenon
  <2>2. CASE ~(loops > 0)
    BY <2>2, DPPartNone, Zenon
  <2> QED BY <2>1, <2>2
<1> HIDE DEF p, exits, loopLen
<1>9. /\ Independent(Routine(0, GetSum, DPPart(p), loops, tail, ext_loops, 0))
      /\ Len(DPPart(p)) = 2 * p
  BY <1>5, <1>6, DPPhase
<1> HIDE DEF body, tail
<1>10. Len(body) = loopLen
  BY <1>6, <1>8, <1>9, Zenon
<1>11. phase1 = Routine(0, GetSum, body, loops, tail, ext_loops, 0)
  BY <1>7, <1>10, Zenon DEF Routine
<1>12. Independent(phase1)
  BY <1>8, <1>9, <1>11, Zenon
<1> HIDE DEF phase1
<1> QED BY <1>1, <1>12, OnePhase

(* The form for a CRF that is too short for that: a phase for the loop and *)
(* one for the peeling.                                                    *)
LEMMA DPLimCOK ==
    ASSUME NEW dims \in Nat \ {0}, NEW ext_loops \in Nat, RF_ENTRIES >= 2,
           CRF_ENTRIES >= 8, DPisLimC(dims),
           dims \div DPSegment(dims) <= IMM1_Limit
    PROVE  Sound(DPLimC(dims, ext_loops))
<1> DEFINE g == 2 * (GRF_ENTRIES - 1)
           c == ((CRF_ENTRIES - 4) \div 4) * 2
           seg == Least(c, g)
           loops == dims \div seg
           peeling == dims % seg
           loopLen == 2 * seg
           exits1 == \/ loops > 1 /\ 1 + loopLen + 1 + 1 < CRF_ENTRIES - 1
                     \/ loops > 0 /\ 1 + loopLen + 1 < CRF_ENTRIES - 1
           exits2 == 1 + peeling * 2 + 1 < CRF_ENTRIES - 1
           first == Phase(0, GetSum, DPPart(seg), loops, loopLen, PutSum,
                          ext_loops, exits1, 0)
           last == Phase(0, GetSum, DPPart(peeling), 1, loopLen, PutSum,
                         ext_loops, exits2, 0)
<1>1. DPLimC(dims, ext_loops) = When(loops > 0, first) \o When(peeling > 0, last)
  BY DEF DPLimC, DPPart
<1>2. /\ g \in Nat /\ g >= 2 /\ CRF_ENTRIES \in Nat /\ IMM1_Limit \in Nat \ {0}
  BY StagesAssumption, Imm1Assumption DEF GRF_ENTRIES
<1>3. c \in Nat /\ c >= 2 /\ 2 * c + 4 <= CRF_ENTRIES
  <2> DEFINE x == (CRF_ENTRIES - 4) \div 4
  <2>1. x \in Nat /\ x >= 1 /\ 4 * x <= CRF_ENTRIES - 4
    BY <1>2
  <2> HIDE DEF x
  <2>2. c = x * 2
    BY DEF x
  <2> HIDE DEF c
  <2> QED BY <1>2, <2>1, <2>2
<1>4. loops <= IMM1_Limit
  BY Zenon DEF DPSegment
<1> HIDE DEF g, c
<1>5. seg \in Nat \ {0} /\ 2 * seg + 4 <= CRF_ENTRIES
  BY <1>2, <1>3 DEF Least
<1> HIDE DEF seg
<1>6. /\ loops \in Nat /\ peeling \in 0..(seg - 1)
      /\ dims = seg * loops + peeling
  BY <1>5, Division
<1> HIDE DEF loops, peeling
<1>7. loops > 0 \/ peeling > 0
  BY <1>5, <1>6
<1>8. loops > 0 => Independent(first)
  <2>1. SUFFICES ASSUME loops > 0 PROVE Independent(first)
    OBVIOUS
  <2>2. /\ seg \in Nat /\ 0 \in Nat /\ loops \in 0..IMM1_Limit
        /\ (loops = 0 => seg = 0) /\ 2 * seg + 2 * 0 + 4 <= CRF_ENTRIES
    BY <1>2, <1>4, <1>5, <1>6, <2>1
  <2>3. exits1 = TRUE
    <3>1. loops > 0 /\ 1 + loopLen + 1 < CRF_ENTRIES - 1
      BY <1>2, <1>5, <2>1
    <3> QED BY <3>1, Zenon
  <2>4. /\ Independent(Routine(0, GetSum, DPPart(seg), loops,
                               DPPart(0) \o PutSum, ext_loops, 0))
        /\ Len(DPPart(seg)) = 2 * seg
    BY <2>2, DPPhase
  <2> HIDE DEF exits1
  <2>5. first = Routine(0, GetSum, DPPart(seg), loops, PutSum, ext_loops, 0)
    BY <2>3, <2>4, Zenon DEF Routine
  <2> QED BY <2>4, <2>5, DPWithoutTail, Zenon
<1>9. peeling > 0 => Independent(last)
  <2>1. SUFFICES ASSUME peeling > 0 PROVE Independent(last)
    OBVIOUS
  <2>2. /\ peeling \in Nat /\ 0 \in Nat /\ 1 \in 0..IMM1_Limit
        /\ (1 = 0 => peeling = 0) /\ 2 * peeling + 2 * 0 + 4 <= CRF_ENTRIES
    BY <1>2, <1>5, <1>6, <2>1
  <2>3. exits2 = TRUE
    BY <1>2, <1>5, <1>6
  <2>4. Independent(Routine(0, GetSum, DPPart(peeling), 1, DPPart(0) \o PutSum,
                            ext_loops, 0))
    BY <2>2, DPPhase
  <2> HIDE DEF exits2
  <2>5. last = Routine(0, GetSum, DPPart(peeling), 1, PutSum, ext_loops, 0)
    <3>1. ~(1 > 1)
      OBVIOUS
    <3> QED BY <2>3, <3>1, Zenon DEF Routine, Phase
  <2> QED BY <2>4, <2>5, DPWithoutTail, Zenon
<1>10. (loops > 0) \in BOOLEAN /\ (peeling > 0) \in BOOLEAN
  OBVIOUS
<1> HIDE DEF first, last
<1>11. CASE loops > 0
  <2>1. DPLimC(dims, ext_loops) = <<first>> \o When(peeling > 0, last)
    BY <1>1, <1>10, <1>11, MaybeFirst
  <2>2. Sound(<<first>>)
    BY <1>8, <1>11, OnePhase
  <2> QED BY <1>9, <1>10, <2>1, <2>2, MaybeOnePhase
<1>12. CASE ~(loops > 0)
  <2>1. DPLimC(dims, ext_loops) = <<last>>
    BY <1>1, <1>7, <1>10, <1>12, MaybeFirst
  <2> QED BY <1>7, <1>9, <1>12, <2>1, OnePhase
<1> QED BY <1>11, <1>12

(* Dot products of every length, in whichever form the constructor chooses,*)
(* as long as the jump counter can count the loop, and loop, peeling, JUMP *)
(* and EXIT do not take exactly the CRF.                                   *)
THEOREM DPWellFormed ==
    ASSUME NEW dims \in Nat \ {0}, NEW ext_loops \in Nat, RF_ENTRIES >= 2,
           CRF_ENTRIES >= 8, dims \div DPSegment(dims) <= IMM1_Limit,
           \/ dims < 2 * (GRF_ENTRIES - 1)
           \/ CRF_ENTRIES # DPNeeds(dims)
    PROVE  /\ WellFormed(DP(dims, ext_loops))
           /\ \A i \in DOMAIN DP(dims, ext_loops) : TermsOK(DP(dims, ext_loops)[i])
<1>1. CASE DPisLimC(dims)
  <2>1. Sound(DPLimC(dims, ext_loops))
    BY <1>1, DPLimCOK
  <2>2. DP(dims, ext_loops) = DPLimC(dims, ext_loops)
    BY <1>1, Zenon DEF DP
  <2> QED BY <2>1, <2>2 DEF Sound
<1>2. CASE ~DPisLimC(dims)
  <2>1. DPSegment(dims) = 2 * (GRF_ENTRIES - 1)
    BY <1>2, Zenon DEF DPSegment
  <2>2. Sound(DPLimR(dims, ext_loops))
    BY <1>2, <2>1, DPLimROK
  <2>3. DP(dims, ext_loops) = DPLimR(dims, ext_loops)
    BY <1>2, Zenon DEF DP
  <2> QED BY <2>2, <2>3 DEF Sound
<1> QED BY <1>1, <1>2

(* The condition is exact: a dot product that takes exactly the CRF is     *)
(* never safe.  The program ends with an EXIT, but the host's test of      *)
(* whether it does (cnm_dp.h:346) is off by one and no command is issued   *)
(* for it.                                                                 *)
THEOREM DPFillingCRF ==
    ASSUME NEW dims \in Nat \ {0}, NEW ext_loops \in Nat, RF_ENTRIES >= 2,
           dims >= 2 * (GRF_ENTRIES - 1), CRF_ENTRIES = DPNeeds(dims)
    PROVE  ~WellFormed(DP(dims, ext_loops))
<1> DEFINE g == GRF_ENTRIES - 1
           segment == 2 * g
           loops == dims \div segment
           peeling == dims % segment
           loopLen == IF loops > 0 THEN 4 * g ELSE 0
           body == IF loops > 0 THEN DPPart(segment) ELSE <<>>
           f == DPPart(peeling)
           tail == f \o PutSum
           exits == 1 + loopLen + 1 + peeling * 2 + 1 < CRF_ENTRIES - 1
           p == Phase(0, GetSum, body, loops, loopLen, tail, ext_loops, exits, 0)
<1>1. CRF_ENTRIES = 4 * g + 2 * peeling + 4
  BY Zenon DEF DPNeeds
<1>2. DPLimR(dims, ext_loops) = <<p>>
  BY DEF DPLimR, DPPart
<1>3. g \in Nat \ {0} /\ CRF_ENTRIES \in Nat
  BY StagesAssumption DEF GRF_ENTRIES
<1>4. DP(dims, ext_loops) = <<p>>
  <2>1. ~(CRF_ENTRIES < 4 * g + 2 * peeling + 4)
    <3>1. ~(CRF_ENTRIES < CRF_ENTRIES)
      BY <1>3
    <3> QED BY <1>1, <3>1, Zenon
  <2>2. ~DPisLimC(dims)
    BY <2>1, Zenon DEF DPisLimC
  <2> QED BY <1>2, <2>2, Zenon DEF DP
<1>5. dims >= segment
  OBVIOUS
<1> HIDE DEF g
<1>6. segment \in Nat \ {0} /\ segment = 2 * g
  BY <1>3
<1> HIDE DEF segment
<1>7. loops \in Nat /\ peeling \in Nat /\ loops > 0
  <2>1. /\ loops \in Nat /\ peeling \in 0..(segment - 1)
        /\ dims = segment * loops + peeling
    BY <1>6, Division
  <2> HIDE DEF loops, peeling
  <2>2. loops # 0
    BY <1>5, <1>6, <2>1
  <2> QED BY <2>1, <2>2
<1> HIDE DEF loops, peeling
<1>8. exits = FALSE
  BY <1>1, <1>3, <1>6, <1>7
<1>9. body = DPPart(segment)
  BY <1>7, Zenon
<1> DEFINE J == Step(JumpBack(loopLen, loops - 1))
           T == IF loops > 1 THEN Append(body, J) ELSE body
<1>10. p.init = GetSum /\ p.body = T /\ p.tail = tail
  BY <1>8 DEF Phase
<1> HIDE DEF p, J, body
<1>11. PICK t \in Nat : t = Len(T) /\ t \in (2 * segment)..(2 * segment + 1)
  <2>1. PICK S : body \in Seq(S) /\ Len(body) = 2 * segment
    BY <1>6, <1>9, DPPartPlain
  <2>2. CASE loops > 1
    <3>1. T = Append(body, J)
      BY <2>2
    <3>2. body \in Seq(S \cup {J}) /\ J \in S \cup {J}
      BY <2>1, SeqMonotonic
    <3>3. Len(Append(body, J)) = Len(body) + 1
      BY <3>2, AppendProperties
    <3> QED BY <1>6, <2>1, <3>1, <3>3
  <2>3. CASE ~(loops > 1)
    BY <1>6, <2>1, <2>3
  <2> QED BY <2>2, <2>3
<1> HIDE DEF T
<1>12. Len(tail) = 2 * peeling + 1 /\ tail[2 * peeling + 1] = PutSum[1]
  <2>1. PICK S : f \in Seq(S) /\ Len(f) = 2 * peeling
    BY <1>7, DPPartPlain
  <2> DEFINE R == S \cup {PutSum[1]}
             put == PutSum
  <2>2. put \in Seq({PutSum[1]}) /\ Len(put) = 1 /\ put[1] = PutSum[1]
    BY DEF PutSum
  <2> HIDE DEF f, put
  <2>3. f \in Seq(R) /\ put \in Seq(R)
    BY <2>1, <2>2, SeqMonotonic
  <2> HIDE DEF R
  <2>4. /\ Len(f \o put) = Len(f) + Len(put)
        /\ \A i \in 1..Len(put) : (f \o put)[Len(f) + i] = put[i]
    BY <2>3, ConcatFacts
  <2>5. 1 \in 1..1
    OBVIOUS
  <2> QED BY <2>1, <2>2, <2>4, <2>5, Zenon DEF put
<1>13. Len(GetSum) = 1
  BY DEF GetSum
<1> HIDE DEF tail
<1>14. PICK c \in Nat : c = 2 * peeling + 1
  BY <1>7
<1>15. /\ Steps(p, "init") = 1 /\ Steps(p, "body") = t /\ Steps(p, "tail") = c
  BY <1>10, <1>11, <1>12, <1>13, <1>14 DEF Steps
<1>16. Length(p) = 1 + t + c /\ LoopEnd(p) = 1 + t
  BY <1>15, Zenon DEF Length, LoopEnd
<1>17. At(p, Length(p)) = PutSum[1]
  <2>1. ~(1 + t + c <= 1) /\ ~(1 + t + c <= 1 + t) /\ (1 + t + c) - (1 + t) = c
    BY <1>7, <1>14
  <2>2. At(p, 1 + t + c) = p.tail[c]
    BY <1>15, <1>16, <2>1, Zenon DEF At
  <2> QED BY <1>10, <1>12, <1>14, <1>16, <2>2, Zenon
<1>18. PutSum[1].instr.op = "MOV"
  BY DEF PutSum, Store, MovOut, Op, Instr
<1>19. Length(p) < CRF_ENTRIES
  BY <1>1, <1>3, <1>6, <1>7, <1>11, <1>14, <1>16
<1>20. ~PhaseOK(p)
  BY <1>17, <1>18, <1>19 DEF PhaseOK, LineOK
<1>21. 1 \in DOMAIN <<p>> /\ <<p>>[1] = p
  OBVIOUS
<1> QED BY <1>4, <1>20, <1>21 DEF WellFormed

-----------------------------------------------------------------------------
(* Programs of the four kernels, of whatever sizes and in whatever order,  *)
(* on a core whose CRF takes the bodies of their loops.                    *)
IsMM(kernel) ==
    \E m, n \in Nat \ {0}, loops \in 1..IMM1_Limit : kernel = MM(m, n, loops)
IsVA(kernel) ==
    \E blocks \in Nat \ {0} :
        blocks \div VASegment < 2 * IMM1_Limit /\ kernel = VA(blocks)
IsDP(kernel) ==
    \E dims \in Nat \ {0}, ext_loops \in Nat :
        /\ dims \div DPSegment(dims) <= IMM1_Limit
        /\ dims < 2 * (GRF_ENTRIES - 1) \/ CRF_ENTRIES # DPNeeds(dims)
        /\ kernel = DP(dims, ext_loops)
IsConv(kernel) ==
    \E kkci, co \in Nat \ {0}, loops \in 1..IMM1_Limit, relu \in BOOLEAN :
        /\ kkci = 1 \/ kkci >= SRF_M_ENTRIES
        /\ ~(CRF_ENTRIES < SRF_M_ENTRIES + 4 + Bit(relu))
        /\ kernel = Conv(kkci, loops, co, relu)

OnlySafeCalls ==
    /\ 1 \in DOMAIN Kernels
    /\ \A i \in DOMAIN Kernels :
          IsMM(Kernels[i]) \/ IsVA(Kernels[i]) \/ IsDP(Kernels[i]) \/ IsConv(Kernels[i])

RoomInCRF ==
    /\ ~(CRF_ENTRIES < SRF_M_ENTRIES + 4) /\ CRF_ENTRIES >= 8
    /\ RF_ENTRIES % 2 = 0 /\ IMM1_Limit > 1

(* All their kernels are safe to execute and take every scalar once. *)
LEMMA ProgramOK ==
    ASSUME RoomInCRF, OnlySafeCalls
    PROVE  AllWellFormed /\ AllTermsOK
<1>0. RF_ENTRIES >= 2 /\ SRF_M_ENTRIES % 2 = 0
  <2>1. RF_ENTRIES \in Nat \ {0} /\ RF_ENTRIES % 2 = 0
    BY StagesAssumption DEF RoomInCRF
  <2> QED BY <2>1 DEF SRF_M_ENTRIES
<1>1. ASSUME NEW i \in DOMAIN Kernels
      PROVE  /\ WellFormed(Kernels[i])
             /\ \A j \in DOMAIN Kernels[i] : TermsOK(Kernels[i][j])
  <2>1. CASE IsMM(Kernels[i])
    <3>1. PICK m, n \in Nat \ {0}, loops \in 1..IMM1_Limit :
                 Kernels[i] = MM(m, n, loops)
      BY <2>1 DEF IsMM
    <3> QED BY <3>1, MMWellFormed DEF RoomInCRF
  <2>2. CASE IsVA(Kernels[i])
    <3>1. PICK blocks \in Nat \ {0} :
                 blocks \div VASegment < 2 * IMM1_Limit /\ Kernels[i] = VA(blocks)
      BY <2>2 DEF IsVA
    <3> QED BY <3>1, VAWellFormed DEF RoomInCRF
  <2>3. CASE IsDP(Kernels[i])
    <3>1. PICK dims \in Nat \ {0}, ext_loops \in Nat :
                 /\ dims \div DPSegment(dims) <= IMM1_Limit
                 /\ dims < 2 * (GRF_ENTRIES - 1) \/ CRF_ENTRIES # DPNeeds(dims)
                 /\ Kernels[i] = DP(dims, ext_loops)
      BY <2>3 DEF IsDP
    <3> QED BY <1>0, <3>1, DPWellFormed DEF RoomInCRF
  <2>4. CASE IsConv(Kernels[i])
    <3>1. PICK kkci, co \in Nat \ {0}, loops \in 1..IMM1_Limit, relu \in BOOLEAN :
                 /\ kkci = 1 \/ kkci >= SRF_M_ENTRIES
                 /\ ~(CRF_ENTRIES < SRF_M_ENTRIES + 4 + Bit(relu))
                 /\ Kernels[i] = Conv(kkci, loops, co, relu)
      BY <2>4 DEF IsConv
    <3> QED BY <1>0, <3>1, ConvWellFormed
  <2> QED BY <2>1, <2>2, <2>3, <2>4 DEF OnlySafeCalls
<1> QED BY <1>1 DEF AllWellFormed, AllTermsOK, OnlySafeCalls

(* Such a program keeps the host and the core in step: every command finds *)
(* the instruction it was issued for.                                      *)
THEOREM ProgramLockstep ==
    ASSUME RoomInCRF, OnlySafeCalls
    PROVE  Spec => []Lockstep
<1>1. AllWellFormed
  BY ProgramOK
<1> QED BY <1>1, StaysInLockstep

(* It never starts a kernel that is not safe to execute. *)
THEOREM ProgramStartsWellFormed ==
    ASSUME RoomInCRF, OnlySafeCalls
    PROVE  Spec => []StartedWellFormed
<1>1. AllWellFormed
  BY ProgramOK
<1> QED BY <1>1, OnlyWellFormedStarts

(* Every result that is stored has summed each term of its pass exactly    *)
(* once and in order, through all jumps, passes over the columns or        *)
(* weights, peeled rows and whatever kernels ran before.                   *)
THEOREM ProgramTermsOnce ==
    ASSUME RoomInCRF, OnlySafeCalls
    PROVE  Spec => []EveryTermOnce
<1>1. AllWellFormed /\ AllTermsOK
  BY ProgramOK
<1> QED BY <1>1, TermsTakenOnce
=============================================================================
