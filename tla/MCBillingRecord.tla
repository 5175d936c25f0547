-------------------------- MODULE MCBillingRecord --------------------------
(***************************************************************************)
(* Instances of BillingRecord for TLC: one month, or three.  The first of   *)
(* the three holds two events and is where evidence and drafts change under *)
(* an approval; the others hold one each and are where request identities   *)
(* and versions meet.                                                       *)
(***************************************************************************)
EXTENDS BillingRecord, TLC

CONSTANTS e1, e2, e3, e4, r1, r2, r3

MCOneMonth == e1 :> r1 @@ e2 :> r1

MCThreeMonths == e1 :> r1 @@ e2 :> r1 @@ e3 :> r2 @@ e4 :> r3

\* Identities of one kind only compare equal or not.
IdSymmetry == Permutations(FinalIds) \cup Permutations(RevisionIds)

\* So do the events of one month.
EventSymmetry == Permutations({e1, e2})

-----------------------------------------------------------------------------

Untouched(r, events) ==
    /\ \A e \in events : evidence[e].state = "NONE"
    /\ draft[r] = Nothing /\ approving[r] = Nothing
    /\ \A c \in calculations : c.record # r

Reopened == {e \in Events : evidence[e].state = "REOPENED"}
Failed   == {e \in Events : evidence[e].mark = "failed"}

\* Bounds: a behaviour is about the first month, without revisions, or about the
\* two others, without marks or drafts that wait; months share nothing but the
\* identities and the locks of the evidence tables.  Before the second draft of
\* the first month one rated event, once the month is closed, is processed once
\* more, or one has failed for good.
Bounded ==
    \/ /\ Untouched(r2, {e3}) /\ Untouched(r3, {e4})
       /\ approving[r1] = Nothing \/ approving[r1].id \in FinalIds
       /\ Reopened \cup Failed # {} =>
            Cardinality(Reopened \cup Failed) = 1 /\ NumberOf(draft[r1]) <= 1
       /\ \A e \in Reopened : closed /\ evidence[e].rating = "price" /\ evidence[e].mark = "none"
    \/ /\ Untouched(r1, {e1, e2})
       /\ calculations = {} /\ Reopened = {}
       /\ \A e \in {e3, e4} : evidence[e].mark = "none"
       /\ \A r \in {r2, r3} : NumberOf(draft[r]) <= 2
=============================================================================
