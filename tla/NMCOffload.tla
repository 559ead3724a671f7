----------------------------- MODULE NMCOffload -----------------------------
(***************************************************************************)
(* What a program that offloads work to the near-memory cores may rely on: *)
(* commands take effect in the order of issue, an execution write returns  *)
(* its result before the next command is issued, and an execution read     *)
(* works on memory that holds every result so far. A result is described   *)
(* by the numbers of the commands it accounts for.                         *)
(***************************************************************************)
EXTENDS Integers, Sequences, FiniteSets

VARIABLES
    issued,   \* commands: is it an execution write, which memory it saw
    results   \* results of the execution writes, in order

vars == <<issued, results>>

Writes == {i \in 1 .. Len(issued) : issued[i].write}

Outstanding == Len(results) < Cardinality(Writes)

Init == issued = <<>> /\ results = <<>>

(* A command; only an execution read looks at memory (seen >= 0). *)
Command ==
    /\ ~Outstanding
    /\ \E w \in BOOLEAN, m \in {-1, Len(results)} :
          /\ w => m = -1
          /\ issued' = Append(issued, [write |-> w, seen |-> m])
    /\ UNCHANGED results

(* The result of the write issued last. *)
Return ==
    /\ Outstanding
    /\ results' = Append(results, [loc  |-> Len(issued),
                                   data |-> [i \in 1 .. Len(issued) |-> i]])
    /\ UNCHANGED issued

Next == Command \/ Return

Spec == Init /\ [][Next]_vars
=============================================================================
