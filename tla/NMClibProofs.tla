---------------------------- MODULE NMClibProofs ----------------------------
(***************************************************************************)
(* What the library's programs have in common, and its matrix              *)
(* multiplication, for matrices of every size whose rows take at most      *)
(* 2^IMM1_BITS column groups, and its vector addition, for every length    *)
(* that two phases can count: they are well formed and have the outlines   *)
(* that KernelRunProofs asks for.  LibraryProofs has the other kernels.    *)
(***************************************************************************)
EXTENDS KernelRunProofs, SequenceTheorems

(* Commands whose instruction neither jumps nor exits and suits the bank. *)
Plain(c) == c.instr.op \notin {"JUMP", "EXIT"} /\ Fits(c.instr, c)

-----------------------------------------------------------------------------
(* Sequences. *)

(* Two ranges from 1 that are equal have the same end. *)
LEMMA RangeLength ==
    ASSUME NEW n \in Nat, NEW m \in Nat, 1..n = 1..m
    PROVE  n = m
<1>1. CASE n < m
  <2>1. m \in 1..m /\ m \notin 1..n
    BY <1>1
  <2> QED BY <2>1
<1>2. CASE m < n
  <2>1. n \in 1..n /\ n \notin 1..m
    BY <1>2
  <2> QED BY <2>1
<1> QED BY <1>1, <1>2

(* A function on 1..n is a sequence of length n. *)
LEMMA FunctionIsSeq ==
    ASSUME NEW S, NEW n \in Nat, NEW f \in [1..n -> S]
    PROVE  f \in Seq(S) /\ Len(f) = n
<1>1. f \in Seq(S)
  BY SeqDef
<1>2. Len(f) \in Nat /\ 1..n = 1..Len(f)
  BY <1>1, LenProperties
<1> QED BY <1>1, <1>2, RangeLength

(* Length and elements of a subsequence. *)
LEMMA SubSeqFacts ==
    \A S, s : \A a, b \in Int :
        (\A i \in a..b : s[i] \in S) =>
            /\ Len(SubSeq(s, a, b)) = IF a <= b THEN b - a + 1 ELSE 0
            /\ \A i \in 1..(b - a + 1) : SubSeq(s, a, b)[i] = s[a + i - 1]
<1> TAKE S, s
<1> TAKE a, b \in Int
<1> HAVE \A i \in a..b : s[i] \in S
<1> QED BY SubSeqProperties

(* Length and elements of a concatenation. *)
LEMMA ConcatFacts ==
    ASSUME NEW S, NEW s \in Seq(S), NEW t \in Seq(S)
    PROVE  /\ s \o t \in Seq(S) /\ Len(s \o t) = Len(s) + Len(t)
           /\ \A i \in 1..Len(s) : (s \o t)[i] = s[i]
           /\ \A i \in 1..Len(t) : (s \o t)[Len(s) + i] = t[i]
<1>1. PICK a \in Nat : a = Len(s)
  BY LenProperties
<1>2. PICK b \in Nat : b = Len(t)
  BY LenProperties
<1>3. /\ s \o t \in Seq(S) /\ Len(s \o t) = a + b
      /\ \A i \in 1..(a + b) :
            (s \o t)[i] = IF i <= a THEN s[i] ELSE t[i - a]
  BY <1>1, <1>2, ConcatProperties, Zenon
<1>4. ASSUME NEW i \in 1..a PROVE (s \o t)[i] = s[i]
  <2>1. i \in 1..(a + b) /\ i <= a
    OBVIOUS
  <2> QED BY <1>3, <2>1, Zenon
<1>5. ASSUME NEW i \in 1..b PROVE (s \o t)[a + i] = t[i]
  <2>1. a + i \in 1..(a + b) /\ ~(a + i <= a) /\ (a + i) - a = i
    OBVIOUS
  <2> QED BY <1>3, <2>1, Zenon
<1> QED BY <1>1, <1>2, <1>3, <1>4, <1>5, Zenon

(* Three sequences in a row. *)
LEMMA ConcatThree ==
    ASSUME NEW S, NEW u \in Seq(S), NEW v \in Seq(S), NEW w \in Seq(S)
    PROVE  /\ u \o v \o w \in Seq(S)
           /\ Len(u \o v \o w) = Len(u) + Len(v) + Len(w)
           /\ \A i \in 1..Len(u) : (u \o v \o w)[i] = u[i]
           /\ \A i \in 1..Len(v) : (u \o v \o w)[Len(u) + i] = v[i]
           /\ \A i \in 1..Len(w) : (u \o v \o w)[Len(u) + Len(v) + i] = w[i]
<1> DEFINE x == u \o v
<1>1. /\ x \in Seq(S) /\ Len(x) = Len(u) + Len(v)
      /\ \A i \in 1..Len(u) : x[i] = u[i]
      /\ \A i \in 1..Len(v) : x[Len(u) + i] = v[i]
  BY ConcatFacts
<1> HIDE DEF x
<1>2. /\ x \o w \in Seq(S) /\ Len(x \o w) = Len(x) + Len(w)
      /\ \A i \in 1..Len(x) : (x \o w)[i] = x[i]
      /\ \A i \in 1..Len(w) : (x \o w)[Len(x) + i] = w[i]
  <2>1. x \in Seq(S)
    BY <1>1
  <2> QED BY <2>1, ConcatFacts
<1>3. PICK a \in Nat : a = Len(u)
  BY LenProperties
<1>4. PICK b \in Nat : b = Len(v)
  BY LenProperties
<1>5. /\ \A i \in 1..a : i \in 1..(a + b)
      /\ \A i \in 1..b : a + i \in 1..(a + b)
  OBVIOUS
<1>6. \A i \in 1..Len(u) : (x \o w)[i] = u[i]
  BY <1>1, <1>2, <1>3, <1>4, <1>5, Zenon
<1>7. \A i \in 1..Len(v) : (x \o w)[Len(u) + i] = v[i]
  BY <1>1, <1>2, <1>3, <1>4, <1>5, Zenon
<1> QED BY <1>1, <1>2, <1>6, <1>7, Zenon DEF x

(* The instructions of a sequence of commands. *)
LEMMA InstrsSeq ==
    ASSUME NEW S, NEW s \in Seq(S)
    PROVE  /\ Instrs(s) \in Seq({c.instr : c \in S})
           /\ Len(Instrs(s)) = Len(s)
           /\ \A n \in 1..Len(s) : Instrs(s)[n] = s[n].instr
<1>1. Len(s) \in Nat /\ s \in [1..Len(s) -> S] /\ DOMAIN s = 1..Len(s)
  BY LenProperties
<1>2. Instrs(s) \in [1..Len(s) -> {c.instr : c \in S}]
  BY <1>1 DEF Instrs
<1>3. \A n \in 1..Len(s) : Instrs(s)[n] = s[n].instr
  BY <1>1 DEF Instrs
<1> QED BY <1>1, <1>2, <1>3, FunctionIsSeq

(* The fields of JUMP and EXIT, and that they suit any bank. *)
LEMMA ControlCommands ==
    ASSUME NEW len, NEW n
    PROVE  /\ Step(Exit).instr = Exit /\ Exit.op = "EXIT"
           /\ Fits(Exit, Step(Exit))
           /\ Step(JumpBack(len, n)).instr = JumpBack(len, n)
           /\ JumpBack(len, n).op = "JUMP"
           /\ JumpBack(len, n).imm0 = len % 256
           /\ JumpBack(len, n).imm1 = n % IMM1_Limit
           /\ Fits(JumpBack(len, n), Step(JumpBack(len, n)))
           /\ Step(Exit).cmd = "RD" /\ Step(JumpBack(len, n)).cmd = "RD"
<1>1. ASSUME NEW op, NEW imm0, NEW imm1
      PROVE  /\ Ctrl(op, imm0, imm1).op = op
             /\ Ctrl(op, imm0, imm1).imm0 = imm0
             /\ Ctrl(op, imm0, imm1).imm1 = imm1
             /\ Ctrl(op, imm0, imm1).src0 = "-"
             /\ Ctrl(op, imm0, imm1).src1 = "-"
             /\ Ctrl(op, imm0, imm1).dst = "-"
  BY DEF Ctrl
<1>2. /\ Step(Exit).instr = Exit
      /\ Step(JumpBack(len, n)).instr = JumpBack(len, n)
      /\ Step(Exit).cmd = "RD" /\ Step(JumpBack(len, n)).cmd = "RD"
  BY DEF Step, Load
<1>3. /\ Exit.op = "EXIT" /\ Exit.src0 = "-" /\ Exit.src1 = "-"
      /\ Exit.dst = "-"
  BY <1>1 DEF Exit
<1>4. /\ JumpBack(len, n).op = "JUMP"
      /\ JumpBack(len, n).imm0 = len % 256
      /\ JumpBack(len, n).imm1 = n % IMM1_Limit
      /\ JumpBack(len, n).src0 = "-" /\ JumpBack(len, n).src1 = "-"
      /\ JumpBack(len, n).dst = "-"
  BY <1>1 DEF JumpBack
<1>5. ASSUME NEW i, NEW c, i.src0 = "-", i.src1 = "-", i.dst = "-"
      PROVE  Fits(i, c)
  BY <1>5 DEF Fits, Banks
<1> QED BY <1>2, <1>3, <1>4, <1>5

(* The EXIT, as a command. *)
LEMMA ExitIs ==
    /\ Step(Exit).instr.op = "EXIT" /\ Fits(Step(Exit).instr, Step(Exit))
    /\ Step(Exit).instr = Exit /\ Step(Exit).cmd = "RD"
  BY ControlCommands

-----------------------------------------------------------------------------
(* The library's programs.  A phase whose JUMP leads back over exactly its *)
(* body, whose line fits the CRF together with JUMP and EXIT, and whose    *)
(* EXIT the host issues, is safe to execute.                               *)

Routine(base, init, body, loops, tail, reps, terms) ==
    Phase(base, init, body, loops, Len(body), tail, reps, TRUE, terms)

LoopJump(body, loops) == Step(JumpBack(Len(body), loops - 1))
LoopBody(body, loops) ==
    IF loops > 1 THEN Append(body, LoopJump(body, loops)) ELSE body
Jumps(loops) == IF loops > 1 THEN 1 ELSE 0

(* The line: init, body, JUMP, tail, EXIT; and that the program is it. *)
RoutineShape(p, base, init, body, loops, tail) ==
    LET a == Len(init)
        t == Len(body) + Jumps(loops)
        c == Len(tail)
    IN /\ p.base = base /\ p.loops = loops
       /\ Steps(p, "init") = a /\ Steps(p, "body") = t
       /\ Steps(p, "tail") = c + 1 /\ Lines(p) = a + t + c + 1 - base
       /\ \A n \in 1..a : At(p, n) = init[n]
       /\ \A n \in 1..Len(body) : At(p, a + n) = body[n]
       /\ loops > 1 => At(p, a + t) = LoopJump(body, loops)
       /\ \A n \in 1..c : At(p, a + t + n) = tail[n]
       /\ At(p, a + t + c + 1) = Step(Exit)
       /\ \A n \in 1..(a + t + c + 1) :
             n > base => p.code[n - base] = At(p, n).instr

(* What the library builds, field by field. *)
LEMMA RoutineFields ==
    ASSUME NEW S, NEW init \in Seq(S), NEW body \in Seq(S), NEW tail \in Seq(S),
           NEW loops \in 0..IMM1_Limit, NEW reps, NEW terms,
           NEW base \in 0..(Len(init) + Len(body)),
           Len(init) + Len(body) + Len(tail) + 2 <= CRF_ENTRIES
    PROVE  RoutineShape(Routine(base, init, body, loops, tail, reps, terms),
                        base, init, body, loops, tail)
<1> DEFINE p == Routine(base, init, body, loops, tail, reps, terms)
           J == LoopJump(body, loops)
           T == LoopBody(body, loops)
           C == S \cup {J}
           X == init \o T \o tail
           line == Instrs(X)
           code == IF Len(line) < CRF_ENTRIES THEN Append(line, Exit) ELSE line
<1>0. CRF_ENTRIES \in Nat /\ IMM1_Limit \in Nat /\ loops \in Nat
  BY StagesAssumption, Imm1Assumption
<1>a. PICK a \in Nat : a = Len(init)
  BY LenProperties
<1>b. PICK b \in Nat : b = Len(body)
  BY LenProperties
<1>c. PICK c \in Nat : c = Len(tail)
  BY LenProperties
<1>t. PICK t \in Nat : t = b + Jumps(loops) /\ b <= t /\ t <= b + 1
                       /\ (loops > 1 => t = b + 1)
  BY DEF Jumps
<1>1. init \in Seq(C) /\ body \in Seq(C) /\ tail \in Seq(C) /\ J \in C
  BY SeqMonotonic
<1>2. /\ T \in Seq(C) /\ Len(T) = t
      /\ \A n \in 1..b : T[n] = body[n]
      /\ loops > 1 => T[t] = J
  <2> HIDE DEF C
  <2>1. CASE loops > 1
    <3>1. T = Append(body, J)
      BY <2>1 DEF LoopBody
    <3> HIDE DEF T, J
    <3>2. T \in Seq(C) /\ Len(T) = b + 1 /\ (\A n \in 1..b : T[n] = body[n]) /\ T[b + 1] = J
      BY <1>1, <1>b, <3>1, AppendProperties
    <3> QED BY <1>t, <2>1, <3>2
  <2>2. CASE ~(loops > 1)
    <3>1. T = body /\ t = b
      BY <1>t, <2>2 DEF LoopBody, Jumps
    <3> QED BY <1>1, <1>b, <2>2, <3>1
  <2> QED BY <2>1, <2>2
<1>5. p = [base |-> base, code |-> SubSeq(code, base + 1, Len(code)),
           init |-> init, body |-> T, loops |-> loops,
           tail |-> Append(tail, Step(Exit)), reps |-> reps, terms |-> terms]
  BY DEF Routine, Phase, LoopBody, LoopJump
<1> HIDE DEF T, J, C, p
<1>3. /\ X \in Seq(C) /\ Len(X) = a + t + c
      /\ \A n \in 1..a : X[n] = init[n]
      /\ \A n \in 1..t : X[a + n] = T[n]
      /\ \A n \in 1..c : X[a + t + n] = tail[n]
  <2>1. /\ X \in Seq(C) /\ Len(X) = Len(init) + Len(T) + Len(tail)
        /\ \A n \in 1..Len(init) : X[n] = init[n]
        /\ \A n \in 1..Len(T) : X[Len(init) + n] = T[n]
        /\ \A n \in 1..Len(tail) : X[Len(init) + Len(T) + n] = tail[n]
    <3>1. init \in Seq(C) /\ T \in Seq(C) /\ tail \in Seq(C)
      BY <1>1, <1>2
    <3> QED BY <3>1, ConcatThree
  <2> HIDE DEF X
  <2> QED BY <1>a, <1>2, <1>c, <2>1, Zenon
<1> HIDE DEF X
<1> DEFINE I == {x.instr : x \in C} \cup {Exit}
           k1 == a + t + c
<1>4. /\ line \in Seq(I) /\ Len(line) = k1
      /\ \A n \in 1..k1 : line[n] = X[n].instr
  <2>1. /\ line \in Seq({x.instr : x \in C}) /\ Len(line) = Len(X)
        /\ \A n \in 1..Len(X) : line[n] = X[n].instr
    BY <1>3, InstrsSeq
  <2> HIDE DEF line
  <2>2. line \in Seq(I)
    BY <2>1, SeqMonotonic
  <2> QED BY <1>3, <2>1, <2>2, Zenon
<1>k. k1 \in Nat /\ k1 < CRF_ENTRIES /\ base \in Nat /\ base <= k1
  BY <1>0, <1>a, <1>b, <1>c, <1>t
<1> HIDE DEF line, k1
<1>6. /\ code \in Seq(I) /\ Len(code) = k1 + 1 /\ code[k1 + 1] = Exit
      /\ \A n \in 1..k1 : code[n] = X[n].instr
  <2>1. code = Append(line, Exit)
    BY <1>4, <1>k
  <2> HIDE DEF code, I
  <2>2. Exit \in I
    BY DEF I
  <2>3. /\ code \in Seq(I) /\ Len(code) = k1 + 1 /\ code[k1 + 1] = Exit
        /\ \A n \in 1..k1 : code[n] = line[n]
    BY <1>4, <1>k, <2>1, <2>2, AppendProperties
  <2> QED BY <1>4, <2>3
<1> HIDE DEF code, I
<1>7. /\ Len(p.code) = k1 + 1 - base
      /\ \A n \in 1..(k1 + 1) : n > base => p.code[n - base] = code[n]
  <2>1. p.code = SubSeq(code, base + 1, Len(code))
    BY <1>5
  <2>2. \A n \in (base + 1)..Len(code) : code[n] \in I
    BY <1>6, <1>k, ElementOfSeq
  <2>3. PICK f \in Int, g \in Int : f = base + 1 /\ g = k1 + 1
    BY <1>k
  <2>4. p.code = SubSeq(code, f, g) /\ \A n \in f..g : code[n] \in I
    BY <1>6, <2>1, <2>2, <2>3, Zenon
  <2>5. /\ Len(p.code) = IF f <= g THEN g - f + 1 ELSE 0
        /\ \A n \in 1..(g - f + 1) : p.code[n] = code[f + n - 1]
    BY <2>4, SubSeqFacts
  <2>6. Len(p.code) = k1 + 1 - base
    BY <1>k, <2>3, <2>5
  <2>7. ASSUME NEW n \in 1..(k1 + 1), n > base
        PROVE  p.code[n - base] = code[n]
    <3>1. n - base \in 1..(g - f + 1) /\ f + (n - base) - 1 = n
      BY <1>k, <2>3, <2>7
    <3> QED BY <2>5, <3>1
  <2> QED BY <2>6, <2>7
<1>8. /\ p.init = init /\ p.body = T /\ p.base = base /\ p.loops = loops
      /\ p.tail = Append(tail, Step(Exit))
  BY <1>5
<1>9. /\ Len(p.tail) = c + 1 /\ p.tail[c + 1] = Step(Exit)
      /\ \A n \in 1..c : p.tail[n] = tail[n]
  <2>1. tail \in Seq(C \cup {Step(Exit)}) /\ Step(Exit) \in C \cup {Step(Exit)}
    BY <1>1, SeqMonotonic
  <2> QED BY <1>8, <1>c, <2>1, AppendProperties
<1>10. /\ Steps(p, "init") = a /\ Steps(p, "body") = t /\ Steps(p, "tail") = c + 1
       /\ Lines(p) = k1 + 1 - base /\ LoopEnd(p) = a + t
  <2>1. /\ Steps(p, "init") = Len(p.init) /\ Steps(p, "body") = Len(p.body)
        /\ Steps(p, "tail") = Len(p.tail) /\ Lines(p) = Len(p.code)
    BY DEF Steps, Lines
  <2>2. /\ Steps(p, "init") = a /\ Steps(p, "body") = t
        /\ Steps(p, "tail") = c + 1 /\ Lines(p) = k1 + 1 - base
    BY <1>a, <1>2, <1>7, <1>8, <1>9, <2>1, Zenon
  <2> QED BY <2>2 DEF LoopEnd
<1>11. /\ \A n \in 1..a : At(p, n) = init[n]
       /\ \A n \in 1..t : At(p, a + n) = T[n]
       /\ \A n \in 1..(c + 1) : At(p, a + t + n) = p.tail[n]
  <2>1. \A n : At(p, n) = IF n <= a THEN init[n]
                          ELSE IF n <= a + t THEN T[n - a] ELSE p.tail[n - (a + t)]
    BY <1>8, <1>10 DEF At
  <2>2. ASSUME NEW n \in 1..a PROVE At(p, n) = init[n]
    BY <2>1
  <2>3. ASSUME NEW n \in 1..t PROVE At(p, a + n) = T[n]
    <3>1. ~(a + n <= a) /\ a + n <= a + t /\ (a + n) - a = n
      OBVIOUS
    <3> QED BY <2>1, <3>1, Zenon
  <2>4. ASSUME NEW n \in 1..(c + 1) PROVE At(p, a + t + n) = p.tail[n]
    <3>1. ~(a + t + n <= a) /\ ~(a + t + n <= a + t) /\ (a + t + n) - (a + t) = n
      OBVIOUS
    <3> QED BY <2>1, <3>1, Zenon
  <2> QED BY <2>2, <2>3, <2>4
<1>12. /\ \A n \in 1..b : At(p, a + n) = body[n]
       /\ loops > 1 => At(p, a + t) = J
       /\ \A n \in 1..c : At(p, a + t + n) = tail[n]
       /\ At(p, k1 + 1) = Step(Exit)
  <2>1. ASSUME NEW n \in 1..b PROVE At(p, a + n) = body[n]
    <3>1. n \in 1..t
      BY <1>t
    <3> QED BY <1>2, <1>11, <3>1
  <2>2. ASSUME loops > 1 PROVE At(p, a + t) = J
    <3>1. t \in 1..t
      BY <1>t, <2>2
    <3> QED BY <1>2, <1>11, <2>2, <3>1
  <2>3. ASSUME NEW n \in 1..c PROVE At(p, a + t + n) = tail[n]
    <3>1. n \in 1..(c + 1)
      OBVIOUS
    <3> QED BY <1>9, <1>11, <3>1
  <2>4. c + 1 \in 1..(c + 1) /\ a + t + (c + 1) = k1 + 1
    BY DEF k1
  <2>5. At(p, k1 + 1) = Step(Exit)
    BY <1>9, <1>11, <2>4, Zenon
  <2> QED BY <2>1, <2>2, <2>3, <2>5
<1>13. ASSUME NEW n \in 1..(k1 + 1), n > base
       PROVE  p.code[n - base] = At(p, n).instr
  <2>1. p.code[n - base] = code[n]
    BY <1>7, <1>13
  <2>2. CASE n = k1 + 1
    BY <1>6, <1>12, <2>1, <2>2, ExitIs
  <2>3. CASE n \in 1..a
    <3>1. n \in 1..k1
      BY <2>3 DEF k1
    <3>2. X[n] = init[n] /\ At(p, n) = init[n] /\ code[n] = X[n].instr
      BY <1>3, <1>6, <1>11, <2>3, <3>1
    <3> QED BY <2>1, <3>2, Zenon
  <2>4. CASE n > a /\ n <= a + t
    <3>1. n \in 1..k1 /\ n - a \in 1..t /\ a + (n - a) = n
      BY <2>4 DEF k1
    <3>2. X[n] = T[n - a] /\ At(p, n) = T[n - a]
      BY <1>3, <1>11, <3>1, Zenon
    <3> QED BY <1>6, <2>1, <3>1, <3>2
  <2>5. CASE n > a + t /\ n # k1 + 1
    <3>1. n \in 1..k1 /\ n - (a + t) \in 1..c /\ a + t + (n - (a + t)) = n
      BY <1>k, <2>5 DEF k1
    <3>2. X[n] = tail[n - (a + t)] /\ At(p, n) = tail[n - (a + t)]
      BY <1>3, <1>12, <3>1, Zenon
    <3> QED BY <1>6, <2>1, <3>1, <3>2
  <2> QED BY <1>k, <2>2, <2>3, <2>4, <2>5
<1>14. k1 + 1 = a + t + c + 1
  BY DEF k1
<1>15. /\ p.base = base /\ p.loops = loops
       /\ Steps(p, "init") = a /\ Steps(p, "body") = t
       /\ Steps(p, "tail") = c + 1 /\ Lines(p) = a + t + c + 1 - base
       /\ \A n \in 1..a : At(p, n) = init[n]
       /\ \A n \in 1..b : At(p, a + n) = body[n]
       /\ loops > 1 => At(p, a + t) = LoopJump(body, loops)
       /\ \A n \in 1..c : At(p, a + t + n) = tail[n]
       /\ At(p, a + t + c + 1) = Step(Exit)
       /\ \A n \in 1..(a + t + c + 1) :
             n > base => p.code[n - base] = At(p, n).instr
  <2>1. \A n \in 1..(a + t + c + 1) :
           n > base => p.code[n - base] = At(p, n).instr
    BY <1>13, <1>14, Zenon
  <2>2. Lines(p) = a + t + c + 1 - base /\ At(p, a + t + c + 1) = Step(Exit)
    <3>1. Lines(p) = k1 + 1 - base /\ At(p, k1 + 1) = Step(Exit)
      BY <1>10, <1>12
    <3>2. k1 = a + t + c
      BY DEF k1
    <3> QED BY <3>1, <3>2
  <2>3. /\ p.base = base /\ p.loops = loops
        /\ Steps(p, "init") = a /\ Steps(p, "body") = t
        /\ Steps(p, "tail") = c + 1
    BY <1>8, <1>10, Zenon
  <2>4. /\ \A n \in 1..a : At(p, n) = init[n]
        /\ \A n \in 1..b : At(p, a + n) = body[n]
        /\ loops > 1 => At(p, a + t) = LoopJump(body, loops)
        /\ \A n \in 1..c : At(p, a + t + n) = tail[n]
    BY <1>11, <1>12, Zenon DEF J
  <2> QED BY <2>1, <2>2, <2>3, <2>4, Zenon
<1>16. t = b + Jumps(loops)
  BY <1>t
<1>17. RoutineShape(p, base, init, body, loops, tail)
  BY <1>a, <1>b, <1>c, <1>15, <1>16, Zenon DEF RoutineShape
<1> QED BY <1>17 DEF p

(* A command that only moves the program counter. *)
OnlyMoves(c) == c.cmd = "RD" /\ c.instr.op \in {"JUMP", "EXIT"}

(* What fits a byte is not cut. *)
LEMMA ByteMod ==
    ASSUME NEW x \in Nat, x < 256
    PROVE  x % 256 = x
  OBVIOUS

(* The JUMP of a loop, and the EXIT after it. *)
LEMMA LoopJumpIs ==
    ASSUME NEW body, NEW loops
    PROVE  LET J == LoopJump(body, loops)
           IN  /\ J.instr = JumpBack(Len(body), loops - 1) /\ J.instr.op = "JUMP"
               /\ J.instr.imm0 = Len(body) % 256
               /\ J.instr.imm1 = (loops - 1) % IMM1_Limit
               /\ Fits(J.instr, J) /\ J.cmd = "RD"
<1>1. LoopJump(body, loops) = Step(JumpBack(Len(body), loops - 1))
  BY DEF LoopJump
<1> QED BY <1>1, ControlCommands

(* Such a phase is safe; its line is commands of S, a JUMP and an EXIT. *)
Runs(p, S, base, init, body, loops, tail) ==
    /\ PhaseOK(p) /\ RoutineShape(p, base, init, body, loops, tail)
    /\ \A n \in 1..Length(p) : At(p, n) \in S \/ OnlyMoves(At(p, n))

(* Whatever the body, as long as it fits the CRF and the counter.          *)
LEMMA RoutineOK ==
    ASSUME NEW S, \A x \in S : Plain(x),
           NEW init \in Seq(S), NEW body \in Seq(S), NEW tail \in Seq(S),
           NEW loops \in 0..IMM1_Limit, loops = 0 => Len(body) = 0,
           NEW reps \in Nat, NEW terms,
           NEW base \in 0..(Len(init) + Len(body)),
           Len(init) + Len(body) + Len(tail) + 2 <= CRF_ENTRIES
    PROVE  Runs(Routine(base, init, body, loops, tail, reps, terms),
                S, base, init, body, loops, tail)
<1> DEFINE p == Routine(base, init, body, loops, tail, reps, terms)
           J == LoopJump(body, loops)
<1>0. RoutineShape(p, base, init, body, loops, tail)
  BY RoutineFields
<1>r. p.reps = reps
  BY DEF Routine, Phase
<1> HIDE DEF p
<1>a. PICK a \in Nat : a = Len(init)
  BY LenProperties
<1>b. PICK b \in Nat : b = Len(body)
  BY LenProperties
<1>c. PICK c \in Nat : c = Len(tail)
  BY LenProperties
<1>1. PICK t \in Nat : t = b + Jumps(loops)
  BY DEF Jumps
<1>2. /\ t = IF loops > 1 THEN b + 1 ELSE b
      /\ a + b + c + 2 <= CRF_ENTRIES /\ base \in 0..(a + b)
      /\ CRF_ENTRIES \in Nat \ {0} /\ CRF_ENTRIES <= 256
      /\ IMM1_Limit \in Nat \ {0} /\ loops \in Nat /\ loops <= IMM1_Limit
  <2>1. t = IF loops > 1 THEN b + 1 ELSE b
    BY <1>1 DEF Jumps
  <2> QED BY <1>a, <1>b, <1>c, <2>1, StagesAssumption, Imm1Assumption
<1>3. /\ p.base = base /\ p.loops = loops
      /\ Steps(p, "init") = a /\ Steps(p, "body") = t
      /\ Steps(p, "tail") = c + 1 /\ Lines(p) = a + t + c + 1 - base
      /\ \A n \in 1..a : At(p, n) = init[n]
      /\ \A n \in 1..b : At(p, a + n) = body[n]
      /\ loops > 1 => At(p, a + t) = J
      /\ \A n \in 1..c : At(p, a + t + n) = tail[n]
      /\ At(p, a + t + c + 1) = Step(Exit)
      /\ \A n \in 1..(a + t + c + 1) :
            n > base => p.code[n - base] = At(p, n).instr
  BY <1>0, <1>a, <1>b, <1>c, <1>1, Zenon DEF RoutineShape
<1>4. Length(p) = a + t + c + 1 /\ LoopEnd(p) = a + t
  <2>1. /\ Steps(p, "init") = a /\ Steps(p, "body") = t
        /\ Steps(p, "tail") = c + 1
    BY <1>3
  <2>2. a + t + (c + 1) = a + t + c + 1
    OBVIOUS
  <2> QED BY <2>1, <2>2, Zenon DEF Length, LoopEnd
<1>5. ASSUME NEW n \in 1..(a + t + c + 1)
      PROVE  \/ n = a + t + c + 1 /\ At(p, n) = Step(Exit)
             \/ loops > 1 /\ n = a + t /\ n # a + t + c + 1 /\ At(p, n) = J
             \/ /\ n # a + t + c + 1 /\ ~(loops > 1 /\ n = a + t)
                /\ At(p, n) \in S
  <2>1. CASE n = a + t + c + 1
    BY <1>3, <2>1
  <2>2. CASE loops > 1 /\ n = a + t /\ n # a + t + c + 1
    BY <1>3, <2>2
  <2>3. CASE n <= a /\ ~(loops > 1 /\ n = a + t)
    <3>1. n \in 1..a /\ n # a + t + c + 1
      BY <2>3
    <3>2. At(p, n) = init[n] /\ init[n] \in S
      BY <1>a, <1>3, <3>1, ElementOfSeq
    <3> QED BY <2>3, <3>1, <3>2
  <2>4. CASE n > a /\ n <= a + b /\ ~(loops > 1 /\ n = a + t)
    <3>1. n - a \in 1..b /\ a + (n - a) = n /\ n # a + t + c + 1
      BY <1>2, <2>4
    <3>2. At(p, n) = body[n - a] /\ body[n - a] \in S
      <4>1. At(p, n) = body[n - a]
        BY <1>3, <3>1, Zenon
      <4> QED BY <1>b, <3>1, <4>1, ElementOfSeq
    <3> QED BY <2>4, <3>1, <3>2
  <2>5. CASE n > a + t /\ n # a + t + c + 1
    <3>1. n - (a + t) \in 1..c /\ a + t + (n - (a + t)) = n /\ n # a + t
      BY <2>5
    <3>2. At(p, n) = tail[n - (a + t)] /\ tail[n - (a + t)] \in S
      <4>1. At(p, n) = tail[n - (a + t)]
        BY <1>3, <3>1, Zenon
      <4> QED BY <1>c, <3>1, <4>1, ElementOfSeq
    <3> QED BY <2>5, <3>1, <3>2
  <2>6. \/ n = a + t + c + 1 \/ (loops > 1 /\ n = a + t /\ n # a + t + c + 1)
        \/ (n <= a /\ ~(loops > 1 /\ n = a + t))
        \/ (n > a /\ n <= a + b /\ ~(loops > 1 /\ n = a + t))
        \/ (n > a + t /\ n # a + t + c + 1)
    BY <1>2
  <2> QED BY <2>1, <2>2, <2>3, <2>4, <2>5, <2>6
<1>6. /\ J.instr.op = "JUMP" /\ J.instr.imm0 = b % 256
      /\ J.instr.imm1 = (loops - 1) % IMM1_Limit
      /\ Fits(J.instr, J) /\ J.cmd = "RD"
  BY <1>b, LoopJumpIs
<1> HIDE DEF J
<1>7. LineOK(p)
  <2>1. \A part \in Parts : Steps(p, part) \in Nat
    BY <1>3 DEF Parts
  <2>2. Length(p) \in 1..CRF_ENTRIES
    BY <1>2, <1>4
  <2>3. ASSUME NEW n \in 1..Length(p)
        PROVE  LET i == At(p, n).instr
               IN /\ (i.op = "JUMP") <=> (p.loops > 1 /\ n = LoopEnd(p))
                  /\ i.op = "EXIT" => n = Length(p)
                  /\ Fits(i, At(p, n))
    <3>1. CASE n = a + t + c + 1 /\ At(p, n) = Step(Exit)
      <4>1. ~(n = LoopEnd(p)) /\ n = Length(p)
        BY <1>4, <3>1
      <4> QED BY <3>1, <4>1, ExitIs
    <3>2. CASE loops > 1 /\ n = a + t /\ At(p, n) = J
      BY <1>3, <1>4, <1>6, <3>2
    <3>3. CASE n # a + t + c + 1 /\ ~(loops > 1 /\ n = a + t) /\ At(p, n) \in S
      <4>1. Plain(At(p, n))
        BY <3>3
      <4> QED BY <1>3, <1>4, <3>3, <4>1 DEF Plain
    <3> QED BY <1>4, <1>5, <3>1, <3>2, <3>3
  <2>4. At(p, Length(p)).instr.op = "EXIT"
    BY <1>3, <1>4, ExitIs
  <2> QED BY <2>1, <2>2, <2>3, <2>4 DEF LineOK
<1>8. LoopCounts(p)
  <2>1. p.loops \in 0..IMM1_Limit
    BY <1>3
  <2>2. p.loops = 0 => Steps(p, "body") = 0
    BY <1>b, <1>2, <1>3
  <2>3. ASSUME p.loops > 1
        PROVE  /\ Steps(p, "body") > 0
               /\ At(p, LoopEnd(p)).instr.imm0 = Steps(p, "body") - 1
               /\ At(p, LoopEnd(p)).instr.imm1 = p.loops - 1
    <3>1. loops > 1 /\ t = b + 1 /\ At(p, LoopEnd(p)) = J
      BY <1>2, <1>3, <1>4, <2>3
    <3>2. b % 256 = b
      <4>1. b < 256
        BY <1>2
      <4> QED BY <4>1, ByteMod
    <3>3. (loops - 1) % IMM1_Limit = loops - 1
      <4>1. loops - 1 \in 0..IMM1_Limit /\ loops - 1 # IMM1_Limit
        BY <1>2, <3>1
      <4> QED BY <1>2, <4>1, SmallMod
    <3>4. t > 0 /\ t - 1 = b
      BY <3>1
    <3> QED BY <1>3, <1>6, <3>1, <3>2, <3>3, <3>4, Zenon
  <2> QED BY <2>1, <2>2, <2>3 DEF LoopCounts
<1>9. CodeInPlace(p)
  <2>1. p.base \in Nat /\ Lines(p) \in Nat /\ p.base + Lines(p) = a + t + c + 1
    BY <1>2, <1>3
  <2>2. p.base + Lines(p) \in Length(p)..CRF_ENTRIES
    BY <1>2, <1>4, <2>1
  <2>3. \A n \in 1..Length(p) : n > p.base => p.code[n - p.base] = At(p, n).instr
    BY <1>3, <1>4
  <2> QED BY <2>1, <2>2, <2>3 DEF CodeInPlace
<1>10. PhaseOK(p)
  BY <1>r, <1>7, <1>8, <1>9 DEF PhaseOK
<1>11. ASSUME NEW n \in 1..Length(p) PROVE At(p, n) \in S \/ OnlyMoves(At(p, n))
  <2>1. OnlyMoves(Step(Exit)) /\ OnlyMoves(J)
    BY <1>6, ExitIs DEF OnlyMoves
  <2> QED BY <1>4, <1>5, <2>1
<1> QED BY <1>0, <1>10, <1>11 DEF Runs, p

(* A phase without init and tail of its own. *)
Loop(base, body, loops, reps, terms) ==
    Routine(base, <<>>, body, loops, <<>>, reps, terms)

Executes(p, base, body) ==
    /\ PhaseOK(p) /\ p.base = base /\ Length(p) > Len(body)
    /\ \A n \in 1..Len(body) : At(p, n) = body[n]
    /\ Steps(p, "init") = 0
    /\ \A n \in 1..Length(p) : n > Len(body) => OnlyMoves(At(p, n))

(* Its line is the body, JUMP and EXIT. *)
LEMMA LoopOK ==
    ASSUME NEW S, NEW body \in Seq(S), \A x \in S : Plain(x),
           NEW loops \in 1..IMM1_Limit, NEW reps \in Nat,
           NEW base \in 0..Len(body), NEW terms,
           Len(body) + 2 <= CRF_ENTRIES
    PROVE  Executes(Loop(base, body, loops, reps, terms), base, body)
<1> DEFINE p == Routine(base, <<>>, body, loops, <<>>, reps, terms)
<1>1. PICK b \in Nat : b = Len(body)
  BY LenProperties
<1>2. <<>> \in Seq(S) /\ Len(<<>>) = 0
  OBVIOUS
<1>3. Runs(p, S, base, <<>>, body, loops, <<>>)
  <2>1. /\ base \in 0..(Len(<<>>) + Len(body))
        /\ Len(<<>>) + Len(body) + Len(<<>>) + 2 <= CRF_ENTRIES
        /\ loops \in 0..IMM1_Limit /\ (loops = 0 => Len(body) = 0)
    BY <1>1, <1>2, StagesAssumption, Imm1Assumption
  <2> QED BY <1>2, <2>1, RoutineOK
<1> HIDE DEF p
<1>4. PICK t \in Nat : /\ t = b + Jumps(loops)
                       /\ t = IF loops > 1 THEN b + 1 ELSE b
  BY DEF Jumps
<1>5. /\ PhaseOK(p) /\ p.base = base /\ Steps(p, "init") = 0
      /\ Steps(p, "body") = t /\ Steps(p, "tail") = 0 + 1
      /\ \A n \in 1..b : At(p, 0 + n) = body[n]
      /\ loops > 1 => At(p, 0 + t) = LoopJump(body, loops)
      /\ At(p, 0 + t + 0 + 1) = Step(Exit)
  BY <1>1, <1>2, <1>3, <1>4, Zenon DEF Runs, RoutineShape
<1>6. Length(p) = t + 1 /\ 0 + t = t /\ 0 + t + 0 + 1 = t + 1
  BY <1>5 DEF Length
<1>7. \A n \in 1..b : At(p, n) = body[n]
  <2>1. \A n \in 1..b : 0 + n = n
    OBVIOUS
  <2> QED BY <1>5, <2>1, Zenon
<1>8. ASSUME NEW n \in 1..Length(p), n > b PROVE OnlyMoves(At(p, n))
  <2>1. n = t + 1 \/ (loops > 1 /\ n = t)
    BY <1>4, <1>6, <1>8
  <2>2. CASE n = t + 1
    BY <1>5, <1>6, <2>2, ExitIs DEF OnlyMoves
  <2>3. CASE loops > 1 /\ n = t
    BY <1>5, <1>6, <2>3, LoopJumpIs DEF OnlyMoves
  <2> QED BY <2>1, <2>2, <2>3
<1>9. Length(p) > b
  BY <1>4, <1>6
<1> QED BY <1>1, <1>5, <1>7, <1>8, <1>9, Zenon DEF Executes, Loop, p

-----------------------------------------------------------------------------
(* The commands of the library. *)

(* Loads read from their own bank, stores write to it. *)
LEMMA PlainInstr ==
    ASSUME NEW op, NEW dst, NEW dn, NEW src0, NEW n0, NEW src1, NEW n1,
           NEW src2, NEW relu, NEW b, op \notin {"JUMP", "EXIT"}
    PROVE  LET i == Instr(op, dst, dn, src0, n0, src1, n1, src2, relu)
           IN  /\ dst \notin Banks /\ (src0 \in Banks => src0 = b)
                  /\ (src1 \in Banks => src1 = b) => Plain(Load(b, i))
               /\ src0 \notin Banks /\ src1 \notin Banks /\ dst = b
                  => Plain(Store(b, i))
<1> DEFINE i == Instr(op, dst, dn, src0, n0, src1, n1, src2, relu)
<1>1. i.op = op /\ i.dst = dst /\ i.src0 = src0 /\ i.src1 = src1
  BY DEF Instr
<1> HIDE DEF i
<1>2. /\ Load(b, i).instr = i /\ Load(b, i).cmd = "RD" /\ Load(b, i).bank = b
      /\ Store(b, i).instr = i /\ Store(b, i).cmd = "WR"
      /\ Store(b, i).bank = b
  BY DEF Load, Store
<1>3. /\ dst \notin Banks /\ (src0 \in Banks => src0 = b)
         /\ (src1 \in Banks => src1 = b) => Plain(Load(b, i))
  BY <1>1, <1>2 DEF Plain, Fits, Banks
<1>4. src0 \notin Banks /\ src1 \notin Banks /\ dst = b => Plain(Store(b, i))
  BY <1>1, <1>2 DEF Plain, Fits, Banks
<1> QED BY <1>3, <1>4 DEF i

(* The same for instructions without a third source and ReLU. *)
LEMMA PlainOp ==
    ASSUME NEW op, NEW dst, NEW dn, NEW src0, NEW n0, NEW src1, NEW n1,
           NEW b, op \notin {"JUMP", "EXIT"}
    PROVE  /\ dst \notin Banks /\ (src0 \in Banks => src0 = b)
              /\ (src1 \in Banks => src1 = b)
              => Plain(Load(b, Op(op, dst, dn, src0, n0, src1, n1)))
           /\ src0 \notin Banks /\ src1 \notin Banks /\ dst = b
              => Plain(Store(b, Op(op, dst, dn, src0, n0, src1, n1)))
<1>1. Op(op, dst, dn, src0, n0, src1, n1)
        = Instr(op, dst, dn, src0, n0, src1, n1, "-", FALSE)
  BY DEF Op
<1> QED BY <1>1, PlainInstr, Zenon

(* The first n scalars, in order. *)
First(n) == [i \in 1..n |-> i - 1]

(* One more scalar. *)
LEMMA FirstNext ==
    ASSUME NEW n \in Nat
    PROVE  /\ First(n) \in Seq(Nat) /\ Len(First(n)) = n
           /\ Append(First(n), n) = First(n + 1)
<1>1. ASSUME NEW m \in Nat
      PROVE  First(m) \in Seq(Nat) /\ Len(First(m)) = m
  <2>1. First(m) \in [1..m -> Nat]
    BY DEF First
  <2> QED BY <2>1, FunctionIsSeq
<1>2. First(n) \in Seq(Nat) /\ Len(First(n)) = n
  BY <1>1
<1>3. First(n + 1) \in Seq(Nat) /\ Len(First(n + 1)) = n + 1
  <2>1. n + 1 \in Nat
    OBVIOUS
  <2> QED BY <1>1, <2>1
<1>4. /\ \A i \in 1..n : First(n)[i] = i - 1
      /\ \A i \in 1..(n + 1) : First(n + 1)[i] = i - 1
  BY DEF First
<1> DEFINE s == First(n)
           u == First(n + 1)
           a == Append(s, n)
<1> HIDE DEF s, u
<1>5. s \in Seq(Nat) /\ Len(s) = n /\ u \in Seq(Nat) /\ Len(u) = n + 1
  BY <1>2, <1>3 DEF s, u
<1>6. a \in Seq(Nat) /\ Len(a) = n + 1 /\ a[n + 1] = n
      /\ \A i \in 1..n : a[i] = s[i]
  BY <1>5, AppendProperties
<1>7. \A i \in 1..(n + 1) : a[i] = u[i]
  <2>1. \A i \in 1..n : s[i] = i - 1
    BY <1>4 DEF s
  <2>2. \A i \in 1..(n + 1) : u[i] = i - 1
    BY <1>4 DEF u
  <2> HIDE DEF a
  <2> QED BY <1>6, <2>1, <2>2
<1>8. a = u
  <2> HIDE DEF a
  <2> QED BY <1>5, <1>6, <1>7, SeqEqual
<1> QED BY <1>2, <1>8 DEF s, u

(* None of them. *)
LEMMA FirstNone == First(0) = <<>>
<1>1. First(0) \in Seq(Nat) /\ Len(First(0)) = 0
  BY FirstNext
<1> QED BY <1>1, EmptySeq

(* One of them. *)
LEMMA FirstOne == First(1) = <<0>>
<1>1. Append(First(0), 0) = First(0 + 1)
  BY FirstNext
<1>2. Append(<<>>, 0) = <<0>> /\ 0 + 1 = 1
  OBVIOUS
<1> QED BY <1>1, <1>2, FirstNone

(* What commands do to the scalars taken. *)
LEMMA Takes ==
    ASSUME NEW i, NEW t
    PROVE  /\ i.op = "MOV" /\ i.src0 = "ODD_BANK" /\ i.src1 = "-"
              => TakeFrom(t, i) = <<>>
           /\ i.op = "MOV" /\ i.src0 = "GRF_B" /\ i.src1 = "-" => TakeFrom(t, i) = t
           /\ i.op \in {"JUMP", "EXIT"} => TakeFrom(t, i) = t
           /\ i.op = "MAC" /\ i.src1 = "SRF_M" => TakeFrom(t, i) = Append(t, i.n1)
           /\ i.op = "MAD" /\ i.src1 = "SRF_M" => TakeFrom(t, i) = <<i.n1>>
  BY DEF TakeFrom, Banks

(* A product. *)
LEMMA MacsAre ==
    ASSUME NEW n \in Nat, NEW j \in 1..n
    PROVE  /\ Plain(Macs(n)[j]) /\ Macs(n)[j].cmd = "RD"
           /\ \A t : TakeFrom(t, Macs(n)[j].instr) = Append(t, j - 1)
<1> DEFINE b == Side(j).bank
           i == MacSRF(b, j - 1)
<1>1. Macs(n)[j] = Load(b, i)
  BY DEF Macs
<1>2. /\ i = Op("MAC", "GRF_B", 0, b, 0, "SRF_M", j - 1)
      /\ i.op = "MAC" /\ i.src1 = "SRF_M" /\ i.n1 = j - 1
  BY DEF MacSRF, Op, Instr
<1> HIDE DEF b
<1>3. Plain(Load(b, i))
  BY <1>2, PlainOp DEF Banks
<1> HIDE DEF i
<1>4. Load(b, i).cmd = "RD" /\ Load(b, i).instr = i
  BY DEF Load
<1>5. \A t : TakeFrom(t, i) = Append(t, j - 1)
  BY <1>2, Takes
<1> QED BY <1>1, <1>3, <1>4, <1>5

(* The end of an accumulation: the result goes to the bank, perhaps through *)
(* the ReLU.                                                                *)
LEMMA ResultIs ==
    ASSUME NEW relu \in BOOLEAN
    PROVE  /\ Bit(relu) \in 0..1
           /\ \E S : /\ Result(relu) \in Seq(S) /\ Len(Result(relu)) = 1 + Bit(relu)
                     /\ \A x \in S : /\ Plain(x)
                                     /\ \A t : TakeFrom(t, x.instr) = t
<1> DEFINE i == MovReLU(1, "GRF_B", 0)
           o(n) == MovOut("ODD_BANK", "GRF_B", n)
           S == {Load("ODD_BANK", i)} \cup {Store("ODD_BANK", o(n)) : n \in 0..1}
<1>1. /\ i = Instr("MOV", "GRF_B", 1, "GRF_B", 0, "-", 0, "-", TRUE)
      /\ i.op = "MOV" /\ i.src0 = "GRF_B" /\ i.src1 = "-"
  BY DEF MovReLU, Instr
<1>2. Plain(Load("ODD_BANK", i)) /\ \A t : TakeFrom(t, Load("ODD_BANK", i).instr) = t
  <2>1. Plain(Load("ODD_BANK", i))
    BY <1>1, PlainInstr DEF Banks
  <2>2. Load("ODD_BANK", i).instr = i
    BY DEF Load
  <2> HIDE DEF i
  <2> QED BY <1>1, <2>1, <2>2, Takes
<1>3. ASSUME NEW n
      PROVE  /\ Plain(Store("ODD_BANK", o(n)))
             /\ \A t : TakeFrom(t, Store("ODD_BANK", o(n)).instr) = t
  <2> DEFINE e == o(n)
  <2>1. /\ e = Op("MOV", "ODD_BANK", 0, "GRF_B", n, "-", 0)
        /\ e.op = "MOV" /\ e.src0 = "GRF_B" /\ e.src1 = "-"
    BY DEF MovOut, Op, Instr
  <2>2. Plain(Store("ODD_BANK", e))
    BY <2>1, PlainOp DEF Banks
  <2>3. Store("ODD_BANK", e).instr = e
    BY DEF Store
  <2> HIDE DEF e
  <2>4. \A t : TakeFrom(t, e) = t
    BY <2>1, Takes
  <2> QED BY <2>2, <2>3, <2>4 DEF e
<1>4. \A x \in S : Plain(x) /\ \A t : TakeFrom(t, x.instr) = t
  BY <1>2, <1>3
<1>5. CASE relu
  <2>1. Result(relu) = <<Load("ODD_BANK", i), Store("ODD_BANK", o(1))>> /\ Bit(relu) = 1
    BY <1>5 DEF Result, Bit
  <2>2. Load("ODD_BANK", i) \in S /\ Store("ODD_BANK", o(1)) \in S
    OBVIOUS
  <2> HIDE DEF S, i, o
  <2>3. Result(relu) \in Seq(S) /\ Len(Result(relu)) = 1 + Bit(relu)
    BY <2>1, <2>2
  <2> QED BY <1>4, <2>1, <2>3
<1>6. CASE ~relu
  <2>1. Result(relu) = <<Store("ODD_BANK", o(0))>> /\ Bit(relu) = 0
    BY <1>6 DEF Result, Bit
  <2>2. Store("ODD_BANK", o(0)) \in S
    OBVIOUS
  <2> HIDE DEF S, i, o
  <2>3. Result(relu) \in Seq(S) /\ Len(Result(relu)) = 1 + Bit(relu)
    BY <2>1, <2>2
  <2> QED BY <1>4, <2>1, <2>3
<1> QED BY <1>5, <1>6

-----------------------------------------------------------------------------
(* Accumulations: a first command that leaves h scalars taken, the other   *)
(* products up to the n-th scalar, and the result.                         *)

Middle(h, n) == [j \in 1..(n - h) |-> Macs(n)[h + j]]
Summing(head, h, n, relu) == <<head>> \o Middle(h, n) \o Result(relu)

Begins(head, h) ==
    /\ Plain(head) /\ head.cmd = "RD"
    /\ \A t : TakeFrom(t, head.instr) = First(h)

Sums(p, base, head, h, n) ==
    /\ PhaseOK(p) /\ TermsOK(p) /\ p.base = base /\ Length(p) > n - h + 1
    /\ At(p, 1) = head
    /\ \A j \in 1..(n - h) : At(p, j + 1) = Macs(n)[h + j]

(* The body of such a loop. *)
SummingShape(S, body, head, h, n, relu) ==
    /\ body \in Seq(S) /\ \A x \in S : Plain(x)
    /\ Len(body) = n - h + 2 + Bit(relu) /\ body[1] = head
    /\ \A j \in 1..(n - h) : body[j + 1] = Macs(n)[h + j]
    /\ \A j \in 1..Len(body) : j > n - h + 1 =>
          \A t : TakeFrom(t, body[j].instr) = t

(* It has that shape for every number of products. *)
LEMMA SummingBody ==
    ASSUME NEW n \in Nat, NEW h \in 0..n, NEW relu \in BOOLEAN,
           NEW head, Plain(head)
    PROVE  \E S : SummingShape(S, Summing(head, h, n, relu), head, h, n, relu)
<1> DEFINE u == <<head>>
           v == Middle(h, n)
           w == Result(relu)
           x == u \o v \o w
<1>1. PICK R : /\ w \in Seq(R) /\ Len(w) = 1 + Bit(relu)
               /\ \A y \in R : Plain(y) /\ \A t : TakeFrom(t, y.instr) = t
  BY ResultIs
<1>2. PICK m \in Nat : m = n - h /\ n = h + m
  OBVIOUS
<1>r. PICK r \in Nat : r = Bit(relu) /\ r \in 0..1
  BY ResultIs
<1> DEFINE M == {Macs(n)[j] : j \in 1..n}
           S == {head} \cup M \cup R
<1>3. \A y \in S : Plain(y)
  BY <1>1, MacsAre
<1>4. v \in Seq(S) /\ Len(v) = m /\ \A j \in 1..m : v[j] = Macs(n)[h + j]
  <2>1. \A j \in 1..m : h + j \in 1..n
    BY <1>2
  <2>2. v \in [1..m -> S] /\ \A j \in 1..m : v[j] = Macs(n)[h + j]
    BY <1>2, <2>1 DEF Middle
  <2> HIDE DEF v, S
  <2> QED BY <2>2, FunctionIsSeq
<1>5. w \in Seq(S)
  BY <1>1, SeqMonotonic
<1>6. u \in Seq(S) /\ Len(u) = 1 /\ u[1] = head
  OBVIOUS
<1>7. \A j \in 1..Len(w) : \A t : TakeFrom(t, w[j].instr) = t
  BY <1>1, ElementOfSeq
<1> HIDE DEF u, v, w, S
<1>8. /\ x \in Seq(S) /\ Len(x) = 1 + m + (1 + r)
      /\ \A j \in 1..1 : x[j] = u[j]
      /\ \A j \in 1..m : x[1 + j] = v[j]
      /\ \A j \in 1..(1 + r) : x[1 + m + j] = w[j]
  <2>1. /\ x \in Seq(S) /\ Len(x) = Len(u) + Len(v) + Len(w)
        /\ \A j \in 1..Len(u) : x[j] = u[j]
        /\ \A j \in 1..Len(v) : x[Len(u) + j] = v[j]
        /\ \A j \in 1..Len(w) : x[Len(u) + Len(v) + j] = w[j]
    <3>1. u \in Seq(S) /\ v \in Seq(S) /\ w \in Seq(S)
      BY <1>4, <1>5, <1>6
    <3> QED BY <3>1, ConcatThree
  <2> HIDE DEF x
  <2> QED BY <1>1, <1>r, <1>4, <1>6, <2>1, Zenon
<1> HIDE DEF x
<1>9. x[1] = head
  <2>1. 1 \in 1..1
    OBVIOUS
  <2> QED BY <1>6, <1>8, <2>1, Zenon
<1>10. \A j \in 1..m : x[j + 1] = Macs(n)[h + j]
  <2>1. \A j \in 1..m : 1 + j = j + 1
    OBVIOUS
  <2> QED BY <1>4, <1>8, <2>1, Zenon
<1>11. Len(x) = n - h + 2 + Bit(relu) /\ Len(x) = m + 2 + r
  BY <1>2, <1>r, <1>8
<1>12. ASSUME NEW j \in 1..Len(x), j > m + 1, NEW t
       PROVE  TakeFrom(t, x[j].instr) = t
  <2>1. j - (1 + m) \in 1..(1 + r) /\ 1 + m + (j - (1 + m)) = j
    BY <1>11, <1>12
  <2>2. x[j] = w[j - (1 + m)] /\ j - (1 + m) \in 1..Len(w)
    BY <1>1, <1>r, <1>8, <2>1, Zenon
  <2> QED BY <1>7, <2>2
<1>13. SummingShape(S, x, head, h, n, relu)
  <2>1. m = n - h
    BY <1>2
  <2> QED BY <1>3, <1>8, <1>9, <1>10, <1>11, <1>12, <2>1, Zenon DEF SummingShape
<1> QED BY <1>13 DEF Summing, x, u, v, w

(* An accumulation is safe, and takes every scalar once and in order.      *)
LEMMA SummingOK ==
    ASSUME NEW n \in Nat, NEW h \in 0..n, NEW relu \in BOOLEAN,
           NEW head, Begins(head, h),
           NEW loops \in 1..IMM1_Limit, NEW reps \in Nat,
           NEW base \in 0..(n - h + 1), n - h + 4 + Bit(relu) <= CRF_ENTRIES
    PROVE  /\ Sums(Loop(base, Summing(head, h, n, relu), loops, reps, n),
                   base, head, h, n)
           /\ Len(Summing(head, h, n, relu)) = n - h + 2 + Bit(relu)
<1> DEFINE body == Summing(head, h, n, relu)
           p == Loop(base, body, loops, reps, n)
<1>1. PICK S : SummingShape(S, body, head, h, n, relu)
  BY SummingBody DEF Begins
<1>t. p.terms = n
  BY DEF Loop, Routine, Phase
<1> HIDE DEF body
<1>2. PICK m \in Nat : m = n - h /\ n = h + m
  OBVIOUS
<1>r. PICK r \in Nat : r = Bit(relu)
  BY ResultIs
<1>3. /\ body \in Seq(S) /\ \A x \in S : Plain(x)
      /\ Len(body) = m + 2 + r /\ body[1] = head
      /\ \A j \in 1..m : body[j + 1] = Macs(n)[h + j]
      /\ \A j \in 1..Len(body) : j > m + 1 => \A t : TakeFrom(t, body[j].instr) = t
  BY <1>1, <1>2, <1>r, Zenon DEF SummingShape
<1>4. base \in 0..Len(body) /\ Len(body) + 2 <= CRF_ENTRIES
  <2>1. base \in 0..(m + 1) /\ m + 4 + r <= CRF_ENTRIES
    BY <1>2, <1>r
  <2> QED BY <1>3, <2>1, StagesAssumption
<1>5. Executes(p, base, body)
  BY <1>3, <1>4, LoopOK
<1> DEFINE L == Length(p)
           b == m + 2 + r
<1>6. /\ PhaseOK(p) /\ p.base = base /\ L > b /\ Steps(p, "init") = 0
      /\ \A j \in 1..b : At(p, j) = body[j]
      /\ \A j \in 1..L : j > b => OnlyMoves(At(p, j))
  BY <1>3, <1>5, Zenon DEF Executes
<1>7. L \in Nat
  BY <1>6, Lengths DEF Sizes
<1> HIDE DEF L, p
<1>8. /\ At(p, 1) = head /\ \A j \in 1..m : At(p, j + 1) = Macs(n)[h + j]
      /\ \A j \in 1..L : j > m + 1 => \A t : TakeFrom(t, At(p, j).instr) = t
  <2>1. At(p, 1) = head
    BY <1>3, <1>6
  <2>2. ASSUME NEW j \in 1..m PROVE At(p, j + 1) = Macs(n)[h + j]
    <3>1. j + 1 \in 1..b
      OBVIOUS
    <3> QED BY <1>3, <1>6, <3>1
  <2>3. ASSUME NEW j \in 1..L, j > m + 1, NEW t
        PROVE  TakeFrom(t, At(p, j).instr) = t
    <3>1. CASE j > b
      <4>1. OnlyMoves(At(p, j))
        BY <1>6, <3>1
      <4> QED BY <4>1, Takes DEF OnlyMoves
    <3>2. CASE ~(j > b)
      <4>1. j \in 1..b
        BY <1>7, <3>2
      <4>2. At(p, j) = body[j] /\ j \in 1..Len(body)
        BY <1>3, <1>6, <4>1, Zenon
      <4> QED BY <1>3, <2>3, <4>2, Zenon
    <3> QED BY <3>1, <3>2
  <2> QED BY <2>1, <2>2, <2>3
<1> DEFINE known == 1..L
           Count(j) == IF j <= m + 1 THEN h + j - 1 ELSE n
           T == [j \in known |-> First(Count(j))]
<1>9. \A j \in 1..L : T[j] = First(Count(j))
  OBVIOUS
<1>10. ASSUME NEW j \in 1..L, NEW t, j - 1 \in known => t = T[j - 1]
       PROVE  TakeFrom(t, At(p, j).instr) = T[j]
  <2> HIDE DEF T
  <2>1. CASE j = 1
    <3>1. Count(j) = h
      BY <2>1
    <3>2. T[j] = First(h)
      BY <1>9, <3>1
    <3> QED BY <1>8, <2>1, <3>2 DEF Begins
  <2>2. CASE j # 1 /\ j <= m + 1
    <3>1. PICK i \in 1..m : j = i + 1 /\ j - 1 = i
      BY <2>2
    <3>2. PICK f \in Nat : f = h + i - 1
      OBVIOUS
    <3>3. /\ Count(j) = f + 1 /\ Count(j - 1) = f /\ j - 1 \in known
          /\ h + i \in 1..n /\ h + i - 1 = f
      BY <1>2, <1>7, <2>2, <3>1, <3>2
    <3>4. t = First(f) /\ T[j] = First(f + 1)
      <4>1. j - 1 \in 1..L
        BY <3>3
      <4> QED BY <1>9, <1>10, <3>3, <4>1
    <3>5. TakeFrom(t, Macs(n)[h + i].instr) = Append(t, h + i - 1)
      <4>1. PICK g : g = h + i /\ g \in 1..n
        BY <3>3
      <4>2. TakeFrom(t, Macs(n)[g].instr) = Append(t, g - 1)
        BY <4>1, MacsAre
      <4> QED BY <4>1, <4>2
    <3>6. At(p, j) = Macs(n)[h + i]
      BY <1>8, <3>1
    <3> QED BY <3>3, <3>4, <3>5, <3>6, FirstNext
  <2>3. CASE j > m + 1
    <3>1. Count(j) = n /\ Count(j - 1) = n /\ j - 1 \in known
      BY <1>2, <1>7, <2>3
    <3>2. t = T[j]
      <4>1. j - 1 \in 1..L
        BY <3>1
      <4> QED BY <1>9, <1>10, <3>1, <4>1
    <3> QED BY <1>8, <2>3, <3>2
  <2> QED BY <2>1, <2>2, <2>3
<1>11. ASSUME NEW j \in 1..L, At(p, j).cmd = "WR"
       PROVE  j - 1 \in known /\ T[j - 1] = AllTerms(p)
  <2>1. j # 1
    BY <1>8, <1>11 DEF Begins
  <2>2. ~(j <= m + 1)
    <3>1. SUFFICES ASSUME j <= m + 1 PROVE FALSE
      OBVIOUS
    <3>2. PICK i \in 1..m : j = i + 1 /\ h + i \in 1..n
      BY <1>2, <2>1, <3>1
    <3>3. At(p, j) = Macs(n)[h + i]
      BY <1>8, <3>2
    <3> QED BY <1>11, <3>2, <3>3, MacsAre
  <2>3. j - 1 \in known /\ Count(j - 1) = n
    BY <1>2, <1>7, <2>1, <2>2
  <2>4. AllTerms(p) = First(n)
    BY <1>t DEF AllTerms, First, p
  <2> HIDE DEF T
  <2> QED BY <1>9, <2>3, <2>4
<1>12. 0 \notin known
  OBVIOUS
<1> HIDE DEF known, T
<1>13. Outline(p, known, T)
  BY <1>6, <1>10, <1>11, <1>12 DEF Outline, L
<1>14. TermsOK(p)
  BY <1>13 DEF TermsOK
<1>15. L > n - h + 1 /\ \A j \in 1..(n - h) : At(p, j + 1) = Macs(n)[h + j]
  BY <1>2, <1>6, <1>7, <1>8
<1>16. Len(body) = n - h + 2 + Bit(relu)
  BY <1>1 DEF SummingShape
<1> QED BY <1>6, <1>8, <1>14, <1>15, <1>16 DEF Sums, L, p, body

(* The partial result in the bank, as the first command. *)
LEMMA PartialBegins ==
    Begins(Partial[1], 0) /\ Partial = <<Partial[1]>>
<1> DEFINE i == MovIn("GRF_B", 0, "ODD_BANK")
<1>1. Partial = <<Load("ODD_BANK", i)>>
  BY DEF Partial
<1>2. /\ i = Op("MOV", "GRF_B", 0, "ODD_BANK", 0, "-", 0)
      /\ i.op = "MOV" /\ i.src0 = "ODD_BANK" /\ i.src1 = "-"
  BY DEF MovIn, Op, Instr
<1>3. Plain(Load("ODD_BANK", i))
  BY <1>2, PlainOp DEF Banks
<1> HIDE DEF i
<1>4. Load("ODD_BANK", i).cmd = "RD" /\ Load("ODD_BANK", i).instr = i
  BY DEF Load
<1>5. \A t : TakeFrom(t, i) = First(0)
  BY <1>2, Takes, FirstNone
<1>6. Partial[1] = Load("ODD_BANK", i)
  BY <1>1
<1> QED BY <1>1, <1>3, <1>4, <1>5, <1>6 DEF Begins

(* The loop that matrix multiplication and convolution share, with and     *)
(* without ReLU, for every number of products.                             *)
LEMMA AccumulateOK ==
    ASSUME NEW n \in Nat, NEW loops \in 1..IMM1_Limit, NEW reps \in Nat,
           NEW relu \in BOOLEAN,
           NEW base \in 0..(n + 1), n + 4 + 2 * Bit(relu) <= CRF_ENTRIES
    PROVE  Sums(Accumulate(base, n, loops, reps, relu), base, Partial[1], 0, n)
<1> DEFINE body == Summing(Partial[1], 0, n, relu)
           q == Loop(base, body, loops, reps, n)
<1>1. PICK r \in Nat : r = Bit(relu)
  BY ResultIs
<1>2. n - 0 = n /\ 0 \in 0..n
  OBVIOUS
<1>3. body = Partial \o Macs(n) \o Result(relu)
  <2>1. Middle(0, n) = Macs(n)
    BY <1>2 DEF Middle, Macs
  <2> QED BY <2>1, PartialBegins, Zenon DEF Summing
<1>4. Sums(q, base, Partial[1], 0, n) /\ Len(body) = n + 2 + r
  <2>1. base \in 0..(n - 0 + 1) /\ n - 0 + 4 + Bit(relu) <= CRF_ENTRIES
    BY <1>1, StagesAssumption
  <2>2. Sums(q, base, Partial[1], 0, n) /\ Len(body) = n - 0 + 2 + Bit(relu)
    BY <1>2, <2>1, PartialBegins, SummingOK
  <2> HIDE DEF body, q
  <2> QED BY <1>1, <1>2, <2>2, Zenon
<1>5. HostExits(loops, n + 2 + r + r) = TRUE
  <2>1. loops > 0 /\ n + 2 + r + r < CRF_ENTRIES - 1
    BY <1>1, StagesAssumption, Imm1Assumption
  <2> QED BY <2>1, Zenon DEF HostExits
<1>6. Accumulate(base, n, loops, reps, relu)
        = Phase(base, <<>>, Partial \o Macs(n) \o Result(relu), loops, n + 2 + r,
                <<>>, reps, HostExits(loops, n + 2 + r + r), n)
  BY <1>1, Zenon DEF Accumulate
<1> HIDE DEF body
<1>7. Accumulate(base, n, loops, reps, relu) = q
  BY <1>3, <1>4, <1>5, <1>6, Zenon DEF Loop, Routine
<1> QED BY <1>4, <1>7, Zenon

(* The products of a shorter body are the first of a longer one. *)
LEMMA MacsAgree ==
    ASSUME NEW n \in Nat, NEW m \in Nat, NEW j \in 1..n, j \in 1..m
    PROVE  Macs(n)[j] = Macs(m)[j]
  BY DEF Macs

(* A shorter accumulation may rely on a longer one before it for its first *)
(* command and all its products.                                           *)
LEMMA PeelingRelies ==
    ASSUME NEW n \in Nat, NEW m \in Nat, n <= m, NEW p, NEW q,
           Sums(p, 0, Partial[1], 0, m), Sums(q, n + 1, Partial[1], 0, n)
    PROVE  Relies(q, p)
<1>1. /\ PhaseOK(p) /\ Length(p) > m + 1 /\ At(p, 1) = Partial[1]
      /\ \A j \in 1..m : At(p, j + 1) = Macs(m)[0 + j]
      /\ PhaseOK(q) /\ q.base = n + 1 /\ At(q, 1) = Partial[1]
      /\ \A j \in 1..n : At(q, j + 1) = Macs(n)[0 + j]
  <2>1. m - 0 = m /\ n - 0 = n
    OBVIOUS
  <2> QED BY <2>1, Zenon DEF Sums
<1>2. Length(p) \in Nat
  BY <1>1, Lengths DEF Sizes
<1>3. q.base <= Length(p)
  BY <1>1, <1>2
<1>4. ASSUME NEW j \in 1..Length(q), j <= q.base
      PROVE  At(q, j).instr = At(p, j).instr
  <2>1. CASE j = 1
    BY <1>1, <2>1
  <2>2. CASE j # 1
    <3>1. PICK i \in 1..n : j = i + 1 /\ i \in 1..m /\ 0 + i = i
      BY <1>1, <1>4, <2>2
    <3>2. At(q, j) = Macs(n)[i] /\ At(p, j) = Macs(m)[i]
      BY <1>1, <3>1, Zenon
    <3> QED BY <3>1, <3>2, MacsAgree
  <2> QED BY <2>1, <2>2
<1> QED BY <1>3, <1>4 DEF Relies

-----------------------------------------------------------------------------
(* Kernels, phase by phase. *)

(* A phase that can be executed at any time: it writes its whole program.   *)
Independent(q) == PhaseOK(q) /\ q.base = 0 /\ TermsOK(q)

Sound(kernel) ==
    /\ \E S : kernel \in Seq(S)
    /\ WellFormed(kernel) /\ \A i \in DOMAIN kernel : TermsOK(kernel[i])

(* A kernel of one phase. *)
LEMMA OnePhase ==
    ASSUME NEW p, Independent(p)
    PROVE  Sound(<<p>>) /\ <<p>>[Len(<<p>>)] = p
<1>1. Phases(<<p>>) = 1 /\ DOMAIN <<p>> = 1..1 /\ <<p>>[1] = p
      /\ <<p>> \in Seq({p}) /\ Len(<<p>>) = 1
  BY DEF Phases
<1>2. WellFormed(<<p>>)
  BY <1>1 DEF WellFormed, Independent
<1>3. \E S : <<p>> \in Seq(S)
  BY <1>1
<1>4. \A i \in DOMAIN <<p>> : <<p>>[i] = p
  BY <1>1
<1>5. <<p>>[Len(<<p>>)] = p
  BY <1>1
<1> DEFINE q == <<p>>
<1> HIDE DEF q
<1>6. /\ \E S : q \in Seq(S)
      /\ WellFormed(q) /\ \A i \in DOMAIN q : q[i] = p
  BY <1>2, <1>3, <1>4 DEF q
<1>7. Sound(q)
  BY <1>6 DEF Sound, Independent
<1> QED BY <1>5, <1>7 DEF q

(* One more phase, which may rely on the last one. *)
LEMMA OneMorePhase ==
    ASSUME NEW q, Sound(q), NEW r, PhaseOK(r), TermsOK(r), Relies(r, q[Len(q)])
    PROVE  LET k2 == Append(q, r) IN Sound(k2) /\ k2[Len(k2)] = r
<1>1. PICK S : q \in Seq(S)
  BY DEF Sound
<1> DEFINE C == S \cup {r}
           x == Append(q, r)
<1>2. PICK l \in Nat \ {0} : l = Len(q)
  BY DEF Sound, WellFormed, Phases
<1>3. q \in Seq(C) /\ r \in C /\ DOMAIN q = 1..l
  BY <1>1, <1>2, SeqMonotonic, LenProperties
<1> HIDE DEF C
<1>4. /\ x \in Seq(C) /\ Len(x) = l + 1 /\ x[l + 1] = r
      /\ \A i \in 1..l : x[i] = q[i]
  BY <1>2, <1>3, AppendProperties
<1> HIDE DEF x
<1>5. Phases(x) = l + 1 /\ DOMAIN x = 1..(l + 1)
  BY <1>4, LenProperties DEF Phases
<1>6. /\ \A i \in 1..l : PhaseOK(q[i]) /\ TermsOK(q[i])
      /\ q[1].base = 0
      /\ \A i \in 1..l : i > 1 => Relies(q[i], q[i - 1])
  BY <1>3 DEF Sound, WellFormed
<1>7. ASSUME NEW i \in 1..(l + 1)
      PROVE  PhaseOK(x[i]) /\ TermsOK(x[i]) /\ (i > 1 => Relies(x[i], x[i - 1]))
  <2>1. CASE i = l + 1
    <3>1. (l + 1) - 1 = l /\ l \in 1..l
      OBVIOUS
    <3>2. x[i] = r /\ x[i - 1] = q[l]
      BY <1>4, <2>1, <3>1
    <3>3. Relies(r, q[l])
      BY <1>2
    <3> QED BY <3>2, <3>3
  <2>2. CASE i # l + 1
    <3>1. i \in 1..l /\ (i > 1 => i - 1 \in 1..l)
      BY <2>2
    <3>2. x[i] = q[i] /\ (i > 1 => x[i - 1] = q[i - 1])
      BY <1>4, <3>1
    <3> QED BY <1>6, <3>1, <3>2
  <2> QED BY <2>1, <2>2
<1>8. x[1].base = 0
  <2>1. 1 \in 1..l
    BY <1>2
  <2> QED BY <1>4, <1>6, <2>1
<1>9. WellFormed(x)
  <2>1. l + 1 \in Nat \ {0}
    OBVIOUS
  <2> QED BY <1>5, <1>7, <1>8, <2>1 DEF WellFormed
<1> QED BY <1>4, <1>5, <1>7, <1>9 DEF Sound, x

(* Phases that write their whole program rely on nothing. *)
LEMMA ReliesOnNothing ==
    ASSUME NEW p, PhaseOK(p), NEW q, PhaseOK(q), q.base = 0
    PROVE  Relies(q, p)
<1>1. Length(p) \in 1..CRF_ENTRIES /\ Sizes(q)
  BY Lengths DEF Sizes
<1>2. \A n \in 1..Length(q) : ~(n <= q.base)
  BY <1>1 DEF Sizes
<1>3. q.base <= Length(p)
  BY <1>1
<1> QED BY <1>2, <1>3 DEF Relies

(* The phase a further one may rely on. *)
LEMMA LastPhaseOK ==
    ASSUME NEW q, Sound(q)
    PROVE  PhaseOK(q[Len(q)])
<1>1. Len(q) \in DOMAIN q
  BY DEF Sound, WellFormed, Phases
<1> QED BY <1>1 DEF Sound, WellFormed

(* A phase the constructor may leave out. *)
LEMMA MaybeOnePhase ==
    ASSUME NEW q, Sound(q), NEW r, NEW cond \in BOOLEAN
    PROVE  /\ ~cond => q \o When(cond, r) = q
           /\ cond => q \o When(cond, r) = Append(q, r)
           /\ (cond => Independent(r)) => Sound(q \o When(cond, r))
<1>1. PICK S : q \in Seq(S)
  BY DEF Sound
<1>2. ~cond => q \o When(cond, r) = q
  <2>1. q \o <<>> = q
    BY <1>1, ConcatEmptySeq
  <2> QED BY <2>1 DEF When
<1>3. cond => q \o When(cond, r) = Append(q, r)
  <2>1. q \in Seq(S \cup {r}) /\ r \in S \cup {r}
    BY <1>1, SeqMonotonic
  <2>2. q \o <<r>> = Append(q, r)
    BY <2>1, AppendIsConcat
  <2> QED BY <2>2 DEF When
<1>4. ASSUME cond, Independent(r) PROVE Sound(Append(q, r))
  <2>1. Relies(r, q[Len(q)])
    BY <1>4, LastPhaseOK, ReliesOnNothing DEF Independent
  <2> QED BY <1>4, <2>1, OneMorePhase DEF Independent
<1> QED BY <1>2, <1>3, <1>4

(* A kernel of one phase or none, and another phase. *)
LEMMA MaybeFirst ==
    ASSUME NEW p, NEW cond \in BOOLEAN
    PROVE  /\ cond => When(cond, p) = <<p>>
           /\ ~cond => When(cond, p) = <<>>
           /\ <<>> \o <<p>> = <<p>> /\ <<p>> \o <<>> = <<p>>
<1>1. <<p>> \in Seq({p})
  OBVIOUS
<1> QED BY <1>1, ConcatEmptySeq DEF When

(* Matrix multiplication, of every size: m rows of n scalars, with q taking*)
(* no more column groups than the jump counter can count, whenever the     *)
(* constructor chooses the R-limited form.  Every phase takes each of its  *)
(* scalars once.                                                           *)
THEOREM MMWellFormed ==
    ASSUME NEW m \in Nat \ {0}, NEW n \in Nat \ {0},
           NEW loops \in 1..IMM1_Limit, ~(CRF_ENTRIES < SRF_M_ENTRIES + 4)
    PROVE  /\ WellFormed(MM(m, n, loops))
           /\ \A i \in DOMAIN MM(m, n, loops) : TermsOK(MM(m, n, loops)[i])
<1> DEFINE E == SRF_M_ENTRIES
           ext_loops == n \div E
           ext_peeling == n % E
           first == Accumulate(0, E, loops, m * ext_loops, FALSE)
           base == IF ext_loops > 0 THEN ext_peeling + 1 ELSE 0
           last == Accumulate(base, ext_peeling, loops, m, FALSE)
<1>1. E \in Nat \ {0} /\ CRF_ENTRIES \in Nat /\ E + 4 <= CRF_ENTRIES
  BY StagesAssumption DEF SRF_M_ENTRIES
<1>b. 2 * Bit(FALSE) = 0 /\ FALSE \in BOOLEAN
  <2>1. Bit(FALSE) = 0
    BY DEF Bit
  <2>2. 2 * 0 = 0
    OBVIOUS
  <2> QED BY <2>1, <2>2, Zenon
<1>m. MM(m, n, loops) = When(ext_loops > 0, first) \o When(ext_peeling > 0, last)
  BY DEF MM
<1> HIDE DEF E
<1>2. /\ ext_loops \in Nat /\ ext_peeling \in Nat /\ ext_peeling <= E
      /\ ext_loops > 0 \/ ext_peeling > 0
  <2>1. /\ n = E * ext_loops + ext_peeling
        /\ ext_peeling \in 0..(E - 1) /\ ext_loops \in Nat
    BY <1>1
  <2> QED BY <1>1, <2>1
<1>3. m * ext_loops \in Nat /\ m \in Nat
  BY <1>2
<1> HIDE DEF ext_loops, ext_peeling
<1>4. Sums(first, 0, Partial[1], 0, E)
  <2>1. 0 \in 0..(E + 1) /\ E + 4 + 2 * Bit(FALSE) <= CRF_ENTRIES /\ E \in Nat
    <3>1. 0 \in 0..(E + 1) /\ E + 4 + 0 <= CRF_ENTRIES /\ E \in Nat
      BY <1>1
    <3> QED BY <1>b, <3>1, Zenon
  <2> QED BY <1>b, <1>3, <2>1, AccumulateOK
<1>5. Sums(last, base, Partial[1], 0, ext_peeling)
  <2>1. base \in 0..(ext_peeling + 1)
        /\ ext_peeling + 4 + 2 * Bit(FALSE) <= CRF_ENTRIES
    <3>1. base \in 0..(ext_peeling + 1) /\ ext_peeling + 4 + 0 <= CRF_ENTRIES
      BY <1>1, <1>2
    <3> QED BY <1>b, <3>1, Zenon
  <2> HIDE DEF base
  <2> QED BY <1>b, <1>2, <1>3, <2>1, AccumulateOK
<1> HIDE DEF first, last
<1>6. Independent(first)
  BY <1>4 DEF Sums, Independent
<1>7. (ext_loops > 0) \in BOOLEAN /\ (ext_peeling > 0) \in BOOLEAN
  OBVIOUS
<1>8. CASE ext_loops > 0
  <2>1. MM(m, n, loops) = <<first>> \o When(ext_peeling > 0, last)
    BY <1>m, <1>7, <1>8, MaybeFirst
  <2>2. Sound(<<first>>) /\ <<first>>[Len(<<first>>)] = first
    BY <1>6, OnePhase
  <2>3. CASE ~(ext_peeling > 0)
    BY <1>7, <2>1, <2>2, <2>3, MaybeOnePhase DEF Sound
  <2>4. CASE ext_peeling > 0
    <3>1. base = ext_peeling + 1
      BY <1>8
    <3>2. Relies(last, first)
      BY <1>1, <1>2, <1>4, <1>5, <3>1, PeelingRelies
    <3>3. Sound(Append(<<first>>, last))
      BY <1>5, <2>2, <3>2, OneMorePhase DEF Sums
    <3> QED BY <1>7, <2>1, <2>2, <2>4, <3>3, MaybeOnePhase DEF Sound
  <2> QED BY <2>3, <2>4
<1>9. CASE ~(ext_loops > 0)
  <2>1. ext_peeling > 0 /\ base = 0
    BY <1>2, <1>9
  <2>2. MM(m, n, loops) = <<last>>
    BY <1>m, <1>7, <1>9, <2>1, MaybeFirst
  <2>3. Independent(last)
    BY <1>5, <2>1 DEF Sums, Independent
  <2> QED BY <2>2, <2>3, OnePhase DEF Sound
<1> QED BY <1>8, <1>9

-----------------------------------------------------------------------------
(* Vector addition: loads, additions and stores, no scalars. *)

VABody(p) == Loads(p) \o Adds(p) \o Stores(p)
VASegment ==
    LET third == (CRF_ENTRIES - 2) \div 3
    IN Least(third - (third % 2), 2 * GRF_ENTRIES)

NoScalar(c) == Plain(c) /\ c.instr.src1 # "SRF_M"
LoadsVector(c) ==
    c.cmd = "RD" /\ c.instr.op = "MOV" /\ c.instr.src0 \in Banks

(* The commands of a vector addition, one by one. *)
LEMMA VACommands ==
    ASSUME NEW p \in Nat, NEW k1 \in 1..p
    PROVE  /\ NoScalar(Loads(p)[k1]) /\ LoadsVector(Loads(p)[k1])
           /\ NoScalar(Adds(p)[k1]) /\ NoScalar(Stores(p)[k1])
<1> DEFINE b == Side(k1).bank
           rf == Side(k1).rf
           x == Index(k1)
<1>1. b \in Banks /\ rf \in {"GRF_A", "GRF_B"} /\ rf \notin Banks /\ "-" \notin Banks
      /\ b # "SRF_M"
  BY DEF Side, Banks
<1>2. /\ Loads(p)[k1] = Load(b, Op("MOV", rf, x, b, 0, "-", 0))
      /\ Adds(p)[k1] = Load(b, Op("ADD", rf, x, rf, x, b, 0))
      /\ Stores(p)[k1] = Store(b, Op("MOV", b, 0, rf, x, "-", 0))
  BY DEF Loads, Adds, Stores, MovIn, MovOut
<1> HIDE DEF b, rf, x
<1>3. ASSUME NEW op, NEW dst, NEW dn, NEW src0, NEW n0, NEW src1, NEW n1
      PROVE  /\ Load(b, Op(op, dst, dn, src0, n0, src1, n1)).instr.src1 = src1
             /\ Load(b, Op(op, dst, dn, src0, n0, src1, n1)).instr.src0 = src0
             /\ Load(b, Op(op, dst, dn, src0, n0, src1, n1)).instr.op = op
             /\ Load(b, Op(op, dst, dn, src0, n0, src1, n1)).cmd = "RD"
             /\ Store(b, Op(op, dst, dn, src0, n0, src1, n1)).instr.src1 = src1
  BY DEF Load, Store, Op, Instr
<1>4. Plain(Loads(p)[k1])
  BY <1>1, <1>2, PlainOp
<1>5. Plain(Adds(p)[k1])
  BY <1>1, <1>2, PlainOp
<1>6. Plain(Stores(p)[k1])
  BY <1>1, <1>2, PlainOp
<1>7. Loads(p)[k1].instr.src1 # "SRF_M" /\ LoadsVector(Loads(p)[k1])
  BY <1>1, <1>2, <1>3 DEF LoadsVector
<1>8. Adds(p)[k1].instr.src1 # "SRF_M" /\ Stores(p)[k1].instr.src1 # "SRF_M"
  BY <1>1, <1>2, <1>3
<1> QED BY <1>4, <1>5, <1>6, <1>7, <1>8 DEF NoScalar

(* The body of the loop: p of each, the first a load. *)
LEMMA VABodyPlain ==
    ASSUME NEW p \in Nat \ {0}
    PROVE  \E S : /\ VABody(p) \in Seq(S) /\ \A c \in S : NoScalar(c)
                  /\ Len(VABody(p)) = 3 * p /\ LoadsVector(VABody(p)[1])
<1> DEFINE S == {Loads(p)[j] : j \in 1..p} \cup {Adds(p)[j] : j \in 1..p}
                \cup {Stores(p)[j] : j \in 1..p}
           u == Loads(p)
           v == Adds(p)
           w == Stores(p)
<1>1. u \in Seq(S) /\ Len(u) = p
  <2>1. Loads(p) \in [1..p -> S]
    BY DEF Loads
  <2> QED BY <2>1, FunctionIsSeq
<1>2. v \in Seq(S) /\ Len(v) = p
  <2>1. Adds(p) \in [1..p -> S]
    BY DEF Adds
  <2> QED BY <2>1, FunctionIsSeq
<1>3. w \in Seq(S) /\ Len(w) = p
  <2>1. Stores(p) \in [1..p -> S]
    BY DEF Stores
  <2> QED BY <2>1, FunctionIsSeq
<1>4. \A c \in S : NoScalar(c)
  BY VACommands
<1>5. LoadsVector(u[1]) /\ 1 \in 1..p
  BY VACommands
<1> HIDE DEF S, u, v, w
<1>6. /\ u \o v \in Seq(S) /\ Len(u \o v) = p + p
      /\ \A j \in 1..p : (u \o v)[j] = u[j]
  <2>1. /\ u \o v \in Seq(S) /\ Len(u \o v) = Len(u) + Len(v)
        /\ \A j \in 1..Len(u) : (u \o v)[j] = u[j]
    BY <1>1, <1>2, ConcatFacts
  <2> QED BY <1>1, <1>2, <2>1, Zenon
<1> DEFINE x == u \o v
<1> HIDE DEF x
<1>7. x \in Seq(S) /\ Len(x) = p + p /\ x[1] = u[1]
  BY <1>5, <1>6, Zenon DEF x
<1>8. /\ x \o w \in Seq(S) /\ Len(x \o w) = (p + p) + p
      /\ \A j \in 1..(p + p) : (x \o w)[j] = x[j]
  <2>1. /\ x \o w \in Seq(S) /\ Len(x \o w) = Len(x) + Len(w)
        /\ \A j \in 1..Len(x) : (x \o w)[j] = x[j]
    BY <1>3, <1>7, ConcatFacts
  <2> QED BY <1>3, <1>7, <2>1, Zenon
<1>9. 1 \in 1..(p + p) /\ (p + p) + p = 3 * p
  OBVIOUS
<1>10. VABody(p) = x \o w
  BY DEF VABody, x, u, v, w
<1>11. /\ VABody(p) \in Seq(S) /\ Len(VABody(p)) = 3 * p
       /\ LoadsVector(VABody(p)[1])
  <2>1. (x \o w)[1] = u[1]
    BY <1>7, <1>8, <1>9, Zenon
  <2>2. Len(x \o w) = 3 * p
    BY <1>8, <1>9
  <2> QED BY <1>5, <1>8, <1>10, <2>1, <2>2
<1> QED BY <1>4, <1>11

(* A phase that loads first and touches no scalar has an outline: nothing   *)
(* is ever taken.                                                           *)
LEMMA NoTerms ==
    ASSUME NEW q, PhaseOK(q), LoadsVector(At(q, 1)), q.terms = 0,
           \A n \in 1..Length(q) : NoScalar(At(q, n)) \/ OnlyMoves(At(q, n))
    PROVE  TermsOK(q)
<1> DEFINE L == Length(q)
           known == 1..L
           T == [j \in known |-> <<>>]
<1>1. L \in Nat
  BY Lengths DEF Sizes
<1>2. q.loops > 1 => LoopEnd(q) \in known
  <2>1. ASSUME q.loops > 1 PROVE Steps(q, "body") > 0
    BY <2>1 DEF PhaseOK, LoopCounts
  <2>2. /\ Steps(q, "init") \in Nat /\ Steps(q, "body") \in Nat
        /\ Steps(q, "tail") \in Nat
    BY DEF PhaseOK, LineOK, Parts
  <2> QED BY <2>1, <2>2 DEF LoopEnd, Length
<1> HIDE DEF L
<1>3. ASSUME NEW i
      PROVE  /\ i.op \in {"JUMP", "EXIT"} => \A t : TakeFrom(t, i) = t
             /\ i.src1 # "SRF_M" => \A t : TakeFrom(t, i) = t \/ TakeFrom(t, i) = <<>>
             /\ i.op = "MOV" /\ i.src0 \in Banks => \A t : TakeFrom(t, i) = <<>>
  BY DEF TakeFrom, Banks
<1>4. At(q, 1).cmd = "RD" /\ \A t : TakeFrom(t, At(q, 1).instr) = <<>>
  BY <1>3 DEF LoadsVector
<1>5. ASSUME NEW j \in 1..L
      PROVE  TakeFrom(<<>>, At(q, j).instr) = <<>>
  <2>1. CASE OnlyMoves(At(q, j))
    BY <1>3, <2>1 DEF OnlyMoves
  <2>2. CASE NoScalar(At(q, j))
    BY <1>3, <2>2 DEF NoScalar
  <2> QED BY <2>1, <2>2 DEF L
<1>6. ASSUME NEW j \in 1..L, NEW t, j - 1 \in known => t = T[j - 1]
      PROVE  TakeFrom(t, At(q, j).instr) = T[j]
  <2>1. T[j] = <<>>
    OBVIOUS
  <2>2. CASE j = 1
    BY <1>4, <2>1, <2>2
  <2>3. CASE j # 1
    <3>1. j - 1 \in known
      BY <1>1, <2>3
    <3>2. t = <<>>
      BY <1>6, <3>1
    <3> QED BY <1>5, <2>1, <3>2
  <2> QED BY <2>2, <2>3
<1>7. AllTerms(q) = <<>>
  <2>1. AllTerms(q) = First(0)
    BY DEF AllTerms, First
  <2> QED BY <2>1, FirstNone
<1>8. ASSUME NEW j \in 1..L, At(q, j).cmd = "WR"
      PROVE  j - 1 \in known /\ T[j - 1] = AllTerms(q)
  <2>1. j # 1
    BY <1>4, <1>8
  <2>2. j - 1 \in known
    BY <1>1, <2>1
  <2> QED BY <1>7, <2>2
<1>9. 0 \notin known
  OBVIOUS
<1>10. \A j \in known : T[j] = <<>>
  OBVIOUS
<1> HIDE DEF known, T
<1>11. Outline(q, known, T)
  BY <1>2, <1>6, <1>8, <1>9, <1>10 DEF Outline, L
<1> QED BY <1>11 DEF TermsOK

(* A kernel of such phases is safe to execute. *)
LEMMA IndependentPhases ==
    ASSUME NEW S, \A x \in S : Independent(x), NEW q \in Seq(S), q # <<>>
    PROVE  WellFormed(q) /\ \A i \in DOMAIN q : TermsOK(q[i])
<1>1. Len(q) \in Nat /\ DOMAIN q = 1..Len(q) /\ Len(q) # 0
  BY LenProperties, EmptySeq
<1>2. \A i \in DOMAIN q : Independent(q[i])
  BY <1>1, ElementOfSeq
<1>3. /\ Phases(q) \in Nat \ {0} /\ DOMAIN q = 1..Phases(q)
      /\ 1 \in DOMAIN q
  BY <1>1 DEF Phases
<1>4. ASSUME NEW i \in DOMAIN q, i > 1 PROVE Relies(q[i], q[i - 1])
  <2>1. i - 1 \in DOMAIN q
    BY <1>1, <1>4
  <2>2. q[i].base = 0 /\ Length(q[i - 1]) \in 1..CRF_ENTRIES /\ Sizes(q[i])
    BY <1>2, <2>1, Lengths DEF Independent, Sizes
  <2>3. \A n \in 1..Length(q[i]) : ~(n <= q[i].base)
    BY <2>2 DEF Sizes
  <2>4. q[i].base <= Length(q[i - 1])
    BY <2>2
  <2> QED BY <2>3, <2>4 DEF Relies
<1>5. \A i \in DOMAIN q : PhaseOK(q[i]) /\ TermsOK(q[i]) /\ q[i].base = 0
  BY <1>2 DEF Independent
<1> QED BY <1>3, <1>4, <1>5 DEF WellFormed

(* The loop of a vector addition, for every number of columns that fits. *)
LEMMA VALoop ==
    ASSUME NEW p \in Nat \ {0}, 3 * p + 2 <= CRF_ENTRIES,
           NEW n \in 1..IMM1_Limit
    PROVE  Independent(Loop(0, VABody(p), n, 1, 0)) /\ Len(VABody(p)) = 3 * p
<1>1. PICK S : /\ VABody(p) \in Seq(S) /\ \A c \in S : NoScalar(c)
               /\ Len(VABody(p)) = 3 * p /\ LoadsVector(VABody(p)[1])
  BY VABodyPlain
<1> DEFINE b == VABody(p)
           q == Loop(0, b, n, 1, 0)
<1>2. q.terms = 0
  BY DEF Loop, Routine, Phase
<1>3. b \in Seq(S) /\ Len(b) = 3 * p /\ LoadsVector(b[1])
  BY <1>1
<1> HIDE DEF b
<1>4. 0 \in 0..Len(b) /\ Len(b) + 2 <= CRF_ENTRIES /\ Len(b) > 0
  BY <1>3, StagesAssumption
<1>5. \A c \in S : Plain(c)
  BY <1>1 DEF NoScalar
<1>6. Executes(q, 0, b)
  <2>1. 1 \in Nat
    OBVIOUS
  <2> QED BY <1>3, <1>4, <1>5, <2>1, LoopOK
<1> HIDE DEF q
<1>7. TermsOK(q)
  <2>1. /\ PhaseOK(q) /\ Length(q) > Len(b)
        /\ \A j \in 1..Len(b) : At(q, j) = b[j]
        /\ \A j \in 1..Length(q) : j > Len(b) => OnlyMoves(At(q, j))
    BY <1>6, Zenon DEF Executes
  <2>2. ASSUME NEW j \in 1..Length(q)
        PROVE  NoScalar(At(q, j)) \/ OnlyMoves(At(q, j))
    <3>1. CASE j > Len(b)
      BY <2>1, <3>1
    <3>2. CASE ~(j > Len(b))
      <4>1. j \in 1..Len(b)
        <5>1. Length(q) \in Nat
          BY <2>1, Lengths DEF Sizes
        <5> QED BY <1>3, <3>2, <5>1
      <4>2. At(q, j) = b[j] /\ b[j] \in S
        BY <1>3, <2>1, <4>1, ElementOfSeq
      <4> QED BY <1>1, <4>2
    <3> QED BY <3>1, <3>2
  <2>3. LoadsVector(At(q, 1))
    <3>1. 1 \in 1..Len(b)
      BY <1>3
    <3> QED BY <1>3, <2>1, <3>1
  <2> QED BY <1>2, <2>1, <2>2, <2>3, NoTerms
<1>8. PhaseOK(q) /\ q.base = 0
  BY <1>6, Zenon DEF Executes
<1> QED BY <1>3, <1>7, <1>8 DEF Independent, q, b

(* What the constructor computes. *)
LEMMA VASegmentFits ==
    ASSUME CRF_ENTRIES >= 8
    PROVE  VASegment \in Nat \ {0} /\ 3 * VASegment + 2 <= CRF_ENTRIES
<1> DEFINE third == (CRF_ENTRIES - 2) \div 3
           x == third - (third % 2)
<1>1. CRF_ENTRIES \in Nat \ {0} /\ CRF_ENTRIES <= 256 /\ GRF_ENTRIES \in Nat \ {0}
  BY StagesAssumption DEF GRF_ENTRIES
<1>2. third \in Nat /\ 3 * third <= CRF_ENTRIES - 2 /\ third >= 2
  BY <1>1
<1> HIDE DEF third
<1>3. third % 2 \in 0..1
  BY <1>2
<1>4. x \in Nat /\ x >= 1 /\ x <= third
  BY <1>2, <1>3
<1>5. VASegment = Least(x, 2 * GRF_ENTRIES)
  BY DEF VASegment, third
<1> HIDE DEF x
<1>6. Least(x, 2 * GRF_ENTRIES) \in Nat /\ Least(x, 2 * GRF_ENTRIES) >= 1
      /\ Least(x, 2 * GRF_ENTRIES) <= x
  BY <1>1, <1>4 DEF Least
<1> QED BY <1>1, <1>2, <1>4, <1>5, <1>6

(* Vector addition, of every length whose loops the two phases can count.   *)
THEOREM VAWellFormed ==
    ASSUME NEW blocks \in Nat \ {0}, CRF_ENTRIES >= 8, IMM1_Limit > 1,
           blocks \div VASegment < 2 * IMM1_Limit
    PROVE  /\ WellFormed(VA(blocks))
           /\ \A i \in DOMAIN VA(blocks) : TermsOK(VA(blocks)[i])
<1> DEFINE seg == VASegment
           all == blocks \div seg
           loops == Least(all, IMM1_Limit - 1)
           extraLoops == all - loops
           peeling == blocks % seg
           loopLen == IF loops > 0 THEN 3 * seg ELSE 0
           Exits(n) == \/ n > 1 /\ loopLen + 2 <= CRF_ENTRIES
                       \/ n > 0 /\ loopLen + 1 <= CRF_ENTRIES
           Part(n) == Phase(0, <<>>, VABody(seg), n, loopLen, <<>>, 1, Exits(n), 0)
           Peel == Phase(0, <<>>, VABody(peeling), 1, 0, <<>>, 1,
                         peeling + 1 <= CRF_ENTRIES, 0)
<1>1. VA(blocks) = When(loops > 0, Part(loops))
                     \o When(extraLoops > 0, Part(extraLoops))
                     \o When(peeling > 0, Peel)
  BY DEF VA, VASegment, VABody
<1>2. /\ seg \in Nat \ {0} /\ 3 * seg + 2 <= CRF_ENTRIES /\ CRF_ENTRIES \in Nat
      /\ IMM1_Limit \in Nat
  BY VASegmentFits, StagesAssumption, Imm1Assumption
<1> HIDE DEF seg
<1>3. /\ all \in Nat /\ peeling \in 0..(seg - 1) /\ blocks = seg * all + peeling
  BY <1>2
<1>4. all < 2 * IMM1_Limit
  BY DEF seg
<1> HIDE DEF all, peeling
<1>5. /\ loops \in Nat /\ extraLoops \in Nat
      /\ loops <= IMM1_Limit /\ extraLoops <= IMM1_Limit
      /\ all > 0 => loops > 0
      /\ extraLoops > 0 => loops > 0
  BY <1>2, <1>3, <1>4 DEF Least
<1>6. all > 0 \/ peeling > 0
  BY <1>2, <1>3
<1> HIDE DEF loops, extraLoops
<1>7. ASSUME NEW n \in Nat, n > 0, n <= IMM1_Limit, loops > 0
      PROVE  Independent(Part(n))
  <2>1. n \in 1..IMM1_Limit
    BY <1>2, <1>7
  <2>2. Independent(Loop(0, VABody(seg), n, 1, 0)) /\ Len(VABody(seg)) = 3 * seg
    BY <1>2, <2>1, VALoop
  <2>3. loopLen = 3 * seg
    BY <1>7
  <2>4. Exits(n) = TRUE
    <3>1. n > 0 /\ loopLen + 1 <= CRF_ENTRIES
      BY <1>2, <1>7, <2>3
    <3> QED BY <3>1, Zenon
  <2> HIDE DEF loopLen, Exits
  <2>5. Part(n) = Loop(0, VABody(seg), n, 1, 0)
    BY <2>2, <2>3, <2>4, Zenon DEF Loop, Routine
  <2> QED BY <2>2, <2>5
<1>8. peeling > 0 => Independent(Peel)
  <2>1. SUFFICES ASSUME peeling > 0 PROVE Independent(Peel)
    OBVIOUS
  <2>2. /\ peeling \in Nat \ {0} /\ 3 * peeling + 2 <= CRF_ENTRIES
        /\ 1 \in 1..IMM1_Limit /\ peeling + 1 <= CRF_ENTRIES
    BY <1>2, <1>3, <2>1
  <2>3. Independent(Loop(0, VABody(peeling), 1, 1, 0))
    BY <2>2, VALoop
  <2>4. (peeling + 1 <= CRF_ENTRIES) = TRUE
    BY <2>2
  <2>5. Peel = Phase(0, <<>>, VABody(peeling), 1, 0, <<>>, 1, TRUE, 0)
    BY <2>4, Zenon
  <2>6. Phase(0, <<>>, VABody(peeling), 1, 0, <<>>, 1, TRUE, 0)
          = Loop(0, VABody(peeling), 1, 1, 0)
    <3>1. ~(1 > 1)
      OBVIOUS
    <3> QED BY <3>1, Zenon DEF Loop, Routine, Phase
  <2> QED BY <2>3, <2>5, <2>6
<1>9. /\ loops > 0 => Independent(Part(loops))
      /\ extraLoops > 0 => Independent(Part(extraLoops))
  BY <1>5, <1>7
<1> DEFINE first == When(loops > 0, Part(loops))
           second == When(extraLoops > 0, Part(extraLoops))
           third == When(peeling > 0, Peel)
           A == Part(loops)
           B == Part(extraLoops)
           S == {x \in {A, B, Peel} : Independent(x)}
<1> HIDE DEF Part, Peel, A, B
<1>10. first \in Seq(S) /\ Len(first) = IF loops > 0 THEN 1 ELSE 0
  <2>1. loops > 0 => A \in S
    BY <1>9 DEF A
  <2> HIDE DEF S
  <2>2. CASE loops > 0
    BY <2>1, <2>2 DEF When, A
  <2>3. CASE ~(loops > 0)
    BY <2>3 DEF When
  <2> QED BY <2>2, <2>3
<1>11. second \in Seq(S) /\ Len(second) \in Nat
  <2>1. extraLoops > 0 => B \in S
    BY <1>9 DEF B
  <2> HIDE DEF S
  <2>2. CASE extraLoops > 0
    BY <2>1, <2>2 DEF When, B
  <2>3. CASE ~(extraLoops > 0)
    BY <2>3 DEF When
  <2> QED BY <2>2, <2>3
<1>12. third \in Seq(S) /\ Len(third) = IF peeling > 0 THEN 1 ELSE 0
  <2>1. peeling > 0 => Peel \in S
    BY <1>8
  <2> HIDE DEF S
  <2>2. CASE peeling > 0
    BY <2>1, <2>2 DEF When
  <2>3. CASE ~(peeling > 0)
    BY <2>3 DEF When
  <2> QED BY <2>2, <2>3
<1>13. \A x \in S : Independent(x)
  OBVIOUS
<1> DEFINE q == first \o second \o third
<1>14. VA(blocks) = q
  BY <1>1
<1> HIDE DEF S, first, second, third
<1>15. q \in Seq(S) /\ Len(q) = (Len(first) + Len(second)) + Len(third)
  <2>1. ASSUME NEW u \in Seq(S), NEW v \in Seq(S), NEW w \in Seq(S)
        PROVE  /\ u \o v \o w \in Seq(S)
               /\ Len(u \o v \o w) = (Len(u) + Len(v)) + Len(w)
    BY ConcatThree
  <2> QED BY <1>10, <1>11, <1>12, <2>1, Zenon
<1> HIDE DEF q
<1>16. Len(q) # 0
  <2>1. PICK a, b, c \in Nat : a = Len(first) /\ b = Len(second) /\ c = Len(third)
    BY <1>10, <1>11, <1>12, LenProperties
  <2>2. Len(q) = (a + b) + c
    BY <1>15, <2>1, Zenon
  <2>3. a = 1 \/ c = 1
    BY <1>5, <1>6, <1>10, <1>12, <2>1
  <2> QED BY <2>2, <2>3
<1>17. q # <<>>
  BY <1>16
<1> QED BY <1>13, <1>14, <1>15, <1>17, IndependentPhases
=============================================================================
