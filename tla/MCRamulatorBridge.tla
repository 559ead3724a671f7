-------------------------- MODULE MCRamulatorBridge --------------------------
(* Model checking of RamulatorBridge: an address in each of two channels,   *)
(* queues of one entry, and three packets, so that a request is refused     *)
(* inside a retry, and a retry is withheld because of the other channel.    *)
EXTENDS RamulatorBridge

CONSTANTS a1, a2

TwoChannels == [a \in {a1, a2} |-> IF a = a1 THEN 0 ELSE 1]

(* One write with and one without a response, in different channels. *)
SomeWrites == {[kind |-> "write", addr |-> a1],
               [kind |-> "writeback", addr |-> a2]}

(* The address of these has no effect. *)
SomeOthers == [kind : {"other", "evict"}, addr : {a1}]
=============================================================================
