------------------------- MODULE AcceptanceContract -------------------------
(***************************************************************************)
(* What POST /api/track promises of an idempotency key in ledger mode: one  *)
(* event at most is ever stored under it, and a client is told of an event  *)
(* only once it is stored and only when it asked for that event's content.  *)
(***************************************************************************)
CONSTANTS Keys, Stored     \* Stored: pairs of an event and its content
VARIABLES stored, told

contractVars == <<stored, told>>

Init ==
    /\ stored = [k \in Keys |-> {}]
    /\ told = [k \in Keys |-> {}]

Store(k, p) ==
    /\ stored[k] = {}
    /\ stored' = [stored EXCEPT ![k] = {p}]
    /\ UNCHANGED told

Tell(k, p) ==
    /\ p \in stored[k]
    /\ told' = [told EXCEPT ![k] = @ \cup {p}]
    /\ UNCHANGED stored

Next == \E k \in Keys, p \in Stored : Store(k, p) \/ Tell(k, p)

Spec == Init /\ [][Next]_contractVars
=============================================================================
