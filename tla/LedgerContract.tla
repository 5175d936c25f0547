--------------------------- MODULE LedgerContract ---------------------------
(***************************************************************************)
(* What an accepted event is promised: it is recorded once, its projection  *)
(* is settled once and only afterwards, and one rating verdict is recorded  *)
(* once, after that; a verdict without a price may later be corrected by a  *)
(* rating, beside which it stays.  Nothing is ever withdrawn.               *)
(***************************************************************************)
CONSTANTS Events, Outcomes
VARIABLES accepted, settled, verdict

contractVars == <<accepted, settled, verdict>>

Init ==
    /\ accepted = {}
    /\ settled = {}
    /\ verdict = [e \in Events |-> {}]

Accept(e) ==
    /\ e \notin accepted
    /\ accepted' = accepted \cup {e}
    /\ UNCHANGED <<settled, verdict>>

Settle(e) ==
    /\ e \in accepted \ settled
    /\ settled' = settled \cup {e}
    /\ UNCHANGED <<accepted, verdict>>

GiveVerdict(e, o) ==
    /\ e \in settled
    /\ verdict[e] = {}
    /\ verdict' = [verdict EXCEPT ![e] = {o}]
    /\ UNCHANGED <<accepted, settled>>

Correct(S) ==
    /\ \A e \in S : verdict[e] = {"UnratedEvent"}
    /\ verdict' = [e \in Events |->
                     IF e \in S THEN verdict[e] \cup {"RatedEvent"} ELSE verdict[e]]
    /\ UNCHANGED <<accepted, settled>>

Next ==
    \/ \E e \in Events :
         Accept(e) \/ Settle(e) \/ \E o \in Outcomes : GiveVerdict(e, o)
    \/ \E S \in SUBSET Events : Correct(S)

Spec == Init /\ [][Next]_contractVars
=============================================================================
