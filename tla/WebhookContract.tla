--------------------------- MODULE WebhookContract ---------------------------
(***************************************************************************)
(* What a billing event promises each selected endpoint: a cycle ends in    *)
(* one outcome; DELIVERED means that the receiver accepted a request of     *)
(* that cycle; only a FAILED cycle is followed by another.  A request may   *)
(* be accepted at any time, by a late sender even after its cycle ended.    *)
(***************************************************************************)
EXTENDS Naturals

CONSTANTS Endpoints, Cycles
VARIABLES cycle, outcome, accepted

contractVars == <<cycle, outcome, accepted>>

Init ==
    /\ cycle = [e \in Endpoints |-> 1]
    /\ outcome = [e \in Endpoints |-> "PENDING"]
    /\ accepted = [e \in Endpoints |-> {}]

Accept(e, c) ==
    /\ c <= cycle[e]
    /\ accepted' = [accepted EXCEPT ![e] = @ \cup {c}]
    /\ UNCHANGED <<cycle, outcome>>

Finish(e, o) ==
    /\ outcome[e] = "PENDING"
    /\ o = "DELIVERED" => cycle[e] \in accepted[e]
    /\ outcome' = [outcome EXCEPT ![e] = o]
    /\ UNCHANGED <<cycle, accepted>>

Replay(e) ==
    /\ outcome[e] = "FAILED"
    /\ outcome' = [outcome EXCEPT ![e] = "PENDING"]
    /\ cycle' = [cycle EXCEPT ![e] = @ + 1]
    /\ UNCHANGED accepted

Next ==
    \E e \in Endpoints :
        \/ \E c \in Cycles : Accept(e, c)
        \/ \E o \in {"DELIVERED", "FAILED", "DISABLED"} : Finish(e, o)
        \/ Replay(e)

Spec == Init /\ [][Next]_contractVars
==============================================================================
