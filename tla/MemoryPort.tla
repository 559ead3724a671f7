----------------------------- MODULE MemoryPort -----------------------------
(***************************************************************************)
(* What a memory behind a timing port promises its requestors: an accepted *)
(* request takes effect once, at one instant between its acceptance and    *)
(* its answer; reads of one address take effect in the order in which they *)
(* were accepted; and answers leave in the order in which the requests     *)
(* took effect. A cell holds the number of the request that wrote it last. *)
(***************************************************************************)
EXTENDS Integers, Sequences

CONSTANT Addrs

VARIABLES
    ops,       \* accepted requests
    waiting,   \* numbers of those that have not taken effect
    answers,   \* answers not yet delivered, with the value read
    cell       \* the memory

vars == <<ops, waiting, answers, cell>>

Kinds == {"read", "write", "writeback", "other", "evict"}

Init == ops = <<>> /\ waiting = {} /\ answers = <<>> /\ cell = [a \in Addrs |-> 0]

(* The effect of request i on the cells, and its answer if it has one.     *)
Effect(i, p) ==
    /\ cell' = IF p.kind \in {"write", "writeback"}
               THEN [cell EXCEPT ![p.addr] = i] ELSE cell
    /\ answers' = IF p.kind \in {"writeback", "evict"} THEN answers
                  ELSE Append(answers, [id  |-> i,
                                        val |-> IF p.kind = "read"
                                                THEN cell[p.addr] ELSE 0])

Accept(p) ==
    /\ ops' = Append(ops, p)
    /\ waiting' = waiting \cup {Len(ops) + 1}
    /\ UNCHANGED <<answers, cell>>

AcceptAndPerform(p) ==
    /\ ops' = Append(ops, p)
    /\ Effect(Len(ops) + 1, p)
    /\ UNCHANGED waiting

Perform(i) ==
    /\ \A j \in waiting : ops[j].addr = ops[i].addr => i <= j
    /\ waiting' = waiting \ {i}
    /\ Effect(i, ops[i])
    /\ UNCHANGED ops

Answer ==
    /\ answers # <<>> /\ answers' = Tail(answers)
    /\ UNCHANGED <<ops, waiting, cell>>

Next ==
    \/ \E p \in [kind : Kinds, addr : Addrs] : Accept(p) \/ AcceptAndPerform(p)
    \/ \E i \in waiting : Perform(i)
    \/ Answer

Spec == Init /\ [][Next]_vars
=============================================================================
