------------------------ MODULE BillingRecordProofs ------------------------
(* Theorems about BillingRecord and their proofs. *)
EXTENDS BillingRecord, FiniteSetTheorems, TLAPS

-----------------------------------------------------------------------------
(* Type correctness                                                         *)

\* The evidence of a month is well-typed lines over some of the events.
LEMMA LinesType ==
    ASSUME TypeOK, NEW r \in Records, NEW b \in BOOLEAN
    PROVE  /\ Accepted(r) \subseteq Events
           /\ LinesOf(r, b) \in [Accepted(r) -> Lines]
           /\ LinesOf(r, b) \in UNION {[E -> Lines] : E \in SUBSET Events}
<1>1. Accepted(r) \subseteq Events
  BY DEF Accepted
<1>2. ASSUME NEW e \in Accepted(r)
      PROVE  [state |-> evidence[e].state, rating |-> evidence[e].rating,
              outcome |-> Outcome(evidence[e], b)] \in Lines
  <2>1. evidence[e] \in Facts /\ evidence[e].state \in Stored
    BY <1>2 DEF TypeOK, Accepted
  <2>2. Outcome(evidence[e], b) \in Outcomes
    BY <2>1 DEF Outcome, Unresolved, Outcomes, Facts, Stored, Completed
  <2> QED BY <2>1, <2>2 DEF Lines, Facts, Stored, Completed
<1>3. LinesOf(r, b) \in [Accepted(r) -> Lines]
  BY <1>2 DEF LinesOf
<1> QED BY <1>1, <1>3

\* What a calculation publishes over a draft is a draft with the next number.
LEMMA OverType ==
    ASSUME TypeOK, NEW r \in Records, NEW b \in BOOLEAN, NEW past \in BOOLEAN
    PROVE  Over(draft[r], LinesOf(r, b), past) \in Drafts
<1>1. NumberOf(draft[r]) \in Nat
  BY DEF TypeOK, NumberOf, Drafts
<1>2. StateOf(LinesOf(r, b), past) \in DraftStates
  BY DEF StateOf, DraftStates
<1> QED BY <1>1, <1>2, LinesType DEF Over, Drafts

LEMMA StartedType ==
    ASSUME TypeOK, NEW r \in Records, NEW past \in BOOLEAN, NEW try \in 1..3
    PROVE  Started(r, past, try) \in Calculations
<1>1. Row(r) \in [draft : Drafts \cup {Nothing}, final : Nat]
  BY DEF Row, TypeOK
<1> QED BY <1>1, OverType DEF Started, Calculations

LEMMA RecalculatedType ==
    ASSUME TypeOK, NEW r \in Records
    PROVE  Recalculated(r) \in Drafts
<1>1. Over(draft[r], LinesOf(r, TRUE), closed) \in Drafts
  BY OverType DEF TypeOK
<1> QED BY <1>1 DEF Recalculated, SameDraft, TypeOK

LEMMA NextVersionType ==
    ASSUME TypeOK, NEW r \in Records, approving[r] # Nothing
    PROVE  NextVersion(r, approving[r]) \in Versions
<1> DEFINE a == approving[r]
<1>1. /\ a \in Approvals /\ a.id \in Ids /\ a.expected \in Nat
      /\ a.expected <= Len(versions)
  BY DEF TypeOK, Approvals
<1>2. a.expected # 0 => versions[a.expected].number \in Nat
  <2>1. a.expected # 0 => a.expected \in 1..Len(versions)
    BY <1>1 DEF TypeOK
  <2>2. \A i \in 1..Len(versions) : versions[i] \in Versions
    BY DEF TypeOK
  <2> QED BY <2>1, <2>2 DEF Versions
<1>3. (IF a.expected = 0 THEN 1 ELSE versions[a.expected].number + 1) \in Nat
  BY <1>2
<1> QED BY <1>1, <1>3 DEF NextVersion, Versions

\* Every reachable state is well typed.
THEOREM TypeCorrect == Spec => []TypeOK
<1>1. ASSUME Init PROVE TypeOK
  <2>1. evidence \in [Events -> Facts]
    BY <1>1 DEF Init, Facts, Stored, Completed
  <2>2. versions \in Seq(Versions) /\ Len(versions) = 0
    BY <1>1 DEF Init
  <2>3. final \in [Records -> 0..Len(versions)]
    BY <1>1, <2>2 DEF Init
  <2>4. answers \in [Ids -> SUBSET (1..Len(versions))]
    BY <1>1 DEF Init
  <2> QED BY <1>1, <2>1, <2>2, <2>3, <2>4 DEF Init, TypeOK
<1>2. TypeOK /\ [Next]_vars => TypeOK'
  <2> SUFFICES ASSUME TypeOK, [Next]_vars PROVE TypeOK'
    OBVIOUS
  <2> USE DEF approvals
  <2>1. ASSUME NEW e \in Events, Receive(e) PROVE TypeOK'
    BY <2>1 DEF Receive, TypeOK, Facts, Stored, Completed
  <2>2. ASSUME NEW e \in Events, NEW x \in Facts, Write(e, x) PROVE TypeOK'
    BY <2>2 DEF Write, TypeOK
  <2>3. ASSUME NEW e \in Events,
               \/ Insert(e) \/ Project(e) \/ Reopen(e) \/ Rate(e) \/ MarkRetry(e)
               \/ CorrectGap(e)
        PROVE  TypeOK'
    <3>1. evidence[e] \in Facts
      BY DEF TypeOK
    <3>2. \E x \in Facts : Write(e, x)
      BY <2>3, <3>1, Zenon DEF Insert, Project, Reopen, Rate, MarkRetry, CorrectGap, Facts,
         Stored, Completed
    <3> QED BY <2>2, <3>2
  <2>4. CASE Close
    BY <2>4 DEF Close, TypeOK
  <2>5. ASSUME NEW r \in Records, StartCalculation(r) PROVE TypeOK'
    <3>1. Started(r, closed, 1) \in Calculations
      BY StartedType DEF TypeOK
    <3> QED BY <2>5, <3>1 DEF StartCalculation, TypeOK
  <2>6. ASSUME NEW c \in calculations,
               CalculationDone(c) \/ CalculationFails(c)
        PROVE  TypeOK'
    BY <2>6 DEF CalculationDone, CalculationFails, TypeOK
  <2>7. ASSUME NEW c \in calculations, Publish(c) PROVE TypeOK'
    <3>1. c.record \in Records /\ c.seen \in Drafts
      BY DEF TypeOK, Calculations
    <3> QED BY <2>7, <3>1 DEF Publish, TypeOK
  <2>8. ASSUME NEW c \in calculations, RetryCalculation(c) PROVE TypeOK'
    <3>1. c.record \in Records /\ c.past \in BOOLEAN /\ c.try \in 1..3
      BY DEF TypeOK, Calculations
    <3>2. c.try < 3 => Started(c.record, c.past, c.try + 1) \in Calculations
      BY <3>1, StartedType
    <3>3. calculations' \subseteq Calculations
      BY <2>8, <3>2 DEF RetryCalculation, TypeOK
    <3> QED BY <2>8, <3>3 DEF RetryCalculation, TypeOK
  <2>9. ASSUME NEW r \in Records, NEW id \in Ids, NEW v \in 0..Len(versions),
               Repeat(r, id, v)
        PROVE  TypeOK'
    <3>1. binding[id].version \in 1..Len(versions)
      BY <2>9 DEF Repeat, TypeOK, Bindings
    <3>2. answers' \in [Ids -> SUBSET (1..Len(versions))]
      BY <2>9, <3>1 DEF Repeat, Answer, TypeOK
    <3> QED BY <2>9, <3>2 DEF Repeat, TypeOK
  <2>10. ASSUME NEW r \in Records, FinalizeBlocked(r) PROVE TypeOK'
    BY <2>10, RecalculatedType DEF FinalizeBlocked, TypeOK
  <2>11. ASSUME NEW r \in Records, NEW id \in FinalIds, Finalize(r, id)
         PROVE  TypeOK'
    <3>1. [id |-> id, expected |-> 0, seen |-> Recalculated(r)] \in Approvals
      BY RecalculatedType DEF Approvals, Ids
    <3> QED BY <2>11, <3>1 DEF Finalize, TypeOK
  <2>12. ASSUME NEW r \in Records, NEW id \in RevisionIds,
                NEW v \in 1..Len(versions), Revise(r, id, v)
         PROVE  TypeOK'
    <3>1. [id |-> id, expected |-> v, seen |-> Nothing] \in Approvals
      BY DEF Approvals, Ids
    <3> QED BY <2>12, <3>1 DEF Revise, TypeOK
  <2>13. ASSUME NEW r \in Records, Commit(r) PROVE TypeOK'
    <3> DEFINE a == approving[r]
               new == Len(versions) + 1
    <3>1. /\ a \in Approvals /\ a # Nothing
          /\ a.id \in Ids /\ a.expected \in Nat /\ a.expected <= Len(versions)
          /\ a.seen \in Drafts \cup {Nothing}
      BY <2>13 DEF Commit, TypeOK, Approvals
    <3>2. /\ versions' \in Seq(Versions) /\ Len(versions') = new
          /\ Len(versions) \in Nat
      BY <2>13, <3>1, NextVersionType DEF Commit, TypeOK
    <3>3. draft' \in [Records -> Drafts \cup {Nothing}]
      BY <2>13, <3>1 DEF Commit, TypeOK
    <3>4. /\ approving' \in [Records -> Approvals \cup {Nothing}]
          /\ \A q \in Records :
                approving'[q] # Nothing => approving'[q].expected <= Len(versions')
      BY <2>13, <3>2 DEF Commit, TypeOK, Approvals
    <3>5. final' \in [Records -> 0..Len(versions')]
      BY <2>13, <3>2 DEF Commit, TypeOK
    <3>6. [record |-> r, expected |-> a.expected, version |-> new] \in Bindings
      BY <3>1, <3>2 DEF Bindings
    <3>7. /\ binding' \in [Ids -> Bindings \cup {Nothing}]
          /\ \A i \in Ids :
                binding'[i] # Nothing => binding'[i].version <= Len(versions')
      BY <2>13, <3>1, <3>2, <3>6 DEF Commit, TypeOK, Bindings
    <3>8. answers' \in [Ids -> SUBSET (1..Len(versions'))]
      <4>1. \A i \in Ids : answers[i] \subseteq 1..new
        BY <3>2 DEF TypeOK
      <4>2. new \in 1..new
        BY <3>2
      <4> QED BY <2>13, <3>1, <3>2, <4>1, <4>2 DEF Commit, TypeOK
    <3> QED
      BY <2>13, <3>2, <3>3, <3>4, <3>5, <3>7, <3>8 DEF Commit, TypeOK
  <2>14. ASSUME NEW r \in Records, Abort(r) PROVE TypeOK'
    BY <2>14 DEF Abort, TypeOK
  <2>15. CASE UNCHANGED vars
    BY <2>15 DEF vars, TypeOK
  <2> QED
    BY <2>1, <2>3, <2>4, <2>5, <2>6, <2>7, <2>8, <2>9, <2>10, <2>11, <2>12,
       <2>13, <2>14, <2>15 DEF Next
<1> QED BY <1>1, <1>2, PTL DEF Spec

-----------------------------------------------------------------------------
(* Evidence.  Writers add to it or begin a completed event once more, and do  *)
(* neither while a finalization holds the tables; so the events, ratings and  *)
(* completions that a snapshot lists are still there later.                   *)

\* What the lines say of their events is still so.
Reflected(r, lines) ==
    /\ DOMAIN lines \subseteq Accepted(r)
    /\ \A e \in DOMAIN lines :
          /\ lines[e].state \in Completed => evidence[e].state \in Completed
          /\ lines[e].rating # "none" => evidence[e].rating = lines[e].rating

\* The published draft lists things that happened.
DraftsArePast ==
    \A r \in Records : draft[r] # Nothing => Reflected(r, draft[r].lines)

\* So does the snapshot of a waiting calculation, which is no older than the
\* draft it found.
CalculationsMoveOn ==
    \A c \in calculations :
        /\ Reflected(c.record, c.seen.lines)
        /\ c.row.draft # Nothing => Extends(c.row.draft.lines, c.seen.lines)

\* A decided approval holds the lock: its expected version is still current,
\* and what a finalization decided on is still the month's evidence.
ApprovalsAreCurrent ==
    \A r \in Records : approving[r] # Nothing =>
        LET a == approving[r]
        IN  /\ a.expected = final[r]
            /\ a.id \in FinalIds <=> a.expected = 0
            /\ a.id \in FinalIds <=> a.seen # Nothing
            /\ a.seen # Nothing =>
                 /\ closed
                 /\ DOMAIN a.seen.lines = Accepted(r)
                 /\ Reflected(r, a.seen.lines)
                 /\ draft[r] # Nothing => Extends(draft[r].lines, a.seen.lines)
                 /\ \A e \in Accepted(r) : Resolved(e)

EvidenceInv == DraftsArePast /\ CalculationsMoveOn /\ ApprovalsAreCurrent

\* No step withdraws an event, a rating or a completion, whatever comes after it;
\* none changes the evidence under a finalization.
EvidenceGrows ==
    /\ \A e \in Events :
         /\ evidence[e].state \in Stored => evidence'[e].state \in Stored
         /\ evidence[e].state \in Completed => evidence'[e].state \in Completed
         /\ evidence[e].rating # "none" => evidence'[e].rating = evidence[e].rating
    /\ Frozen =>
         \A e \in Events :
            \/ evidence'[e] = evidence[e]
            \/ /\ evidence[e].state \notin Stored
               /\ evidence'[e].state \notin Stored

LEMMA StepGrowsEvidence == TypeOK /\ [Next]_vars => EvidenceGrows
<1> SUFFICES ASSUME TypeOK, [Next]_vars PROVE EvidenceGrows
  OBVIOUS
<1>1. CASE UNCHANGED evidence
  BY <1>1 DEF EvidenceGrows
<1>2. ASSUME NEW e \in Events, Receive(e) PROVE EvidenceGrows
  BY <1>2 DEF Receive, EvidenceGrows, TypeOK, Facts, Stored, Completed
<1>3. ASSUME NEW e \in Events,
             \/ Insert(e) \/ Project(e) \/ Reopen(e) \/ Rate(e) \/ MarkRetry(e)
             \/ CorrectGap(e)
      PROVE  EvidenceGrows
  <2>1. evidence[e] \in Facts
    BY DEF TypeOK
  <2>2. ASSUME NEW x, Write(e, x),
               evidence[e].state \in Stored => x.state \in Stored,
               evidence[e].state \in Completed => x.state \in Completed,
               evidence[e].rating # "none" => x.rating = evidence[e].rating
        PROVE  EvidenceGrows
    BY <2>2 DEF Write, EvidenceGrows, TypeOK
  <2>3. CASE Insert(e)
    BY <2>1, <2>2, <2>3 DEF Insert, Facts, Stored, Completed
  <2>4. CASE Project(e) \/ Reopen(e)
    BY <2>1, <2>2, <2>4 DEF Project, Reopen, Facts, Stored, Completed
  <2>5. CASE Rate(e)
    <3>1. CASE Write(e, [evidence[e] EXCEPT !.rating = "price", !.mark = "none"])
      BY <2>1, <2>2, <2>5, <3>1 DEF Rate, Facts, Stored, Completed
    <3>2. ASSUME NEW m, Write(e, [evidence[e] EXCEPT !.mark = m])
          PROVE  EvidenceGrows
      BY <2>1, <2>2, <3>2 DEF Facts, Stored, Completed
    <3> QED BY <2>5, <3>1, <3>2 DEF Rate
  <2>6. CASE MarkRetry(e)
    BY <2>1, <2>2, <2>6 DEF MarkRetry, Facts, Stored, Completed
  <2>7. CASE CorrectGap(e)
    BY <2>1, <2>2, <2>7 DEF CorrectGap, Facts, Stored, Completed
  <2> QED BY <1>3, <2>3, <2>4, <2>5, <2>6, <2>7
<1>4. CASE Close \/ \E r \in Records : \/ StartCalculation(r) \/ FinalizeBlocked(r)
                                      \/ Commit(r) \/ Abort(r)
  BY <1>1, <1>4 DEF Close, StartCalculation, FinalizeBlocked, Commit, Abort
<1>5. CASE \E c \in calculations : \/ CalculationDone(c) \/ Publish(c)
                                  \/ RetryCalculation(c) \/ CalculationFails(c)
  BY <1>1, <1>5 DEF CalculationDone, Publish, RetryCalculation, CalculationFails
<1>6. CASE \E r \in Records :
             \/ \E id \in Ids, v \in 0..Len(versions) : Repeat(r, id, v)
             \/ \E id \in FinalIds : Finalize(r, id)
             \/ \E id \in RevisionIds, v \in 1..Len(versions) : Revise(r, id, v)
  BY <1>1, <1>6 DEF Repeat, Finalize, Revise
<1>7. CASE UNCHANGED vars
  BY <1>1, <1>7 DEF vars
<1> QED
  BY <1>2, <1>3, <1>4, <1>5, <1>6, <1>7 DEF Next

\* Hence what a snapshot lists stays true,
LEMMA ReflectedStays ==
    ASSUME TypeOK, [Next]_vars, NEW r \in Records
    PROVE  \A lines : Reflected(r, lines) => Reflected(r, lines)'
<1>1. Accepted(r) \subseteq Accepted(r)'
  BY StepGrowsEvidence DEF EvidenceGrows, Accepted
<1> SUFFICES ASSUME NEW lines, Reflected(r, lines)
             PROVE  /\ DOMAIN lines \subseteq Accepted(r)'
                    /\ \A e \in DOMAIN lines :
                         /\ lines[e].state \in Completed
                              => evidence'[e].state \in Completed
                         /\ lines[e].rating # "none"
                              => evidence'[e].rating = lines[e].rating
  BY DEF Reflected
<1>2. DOMAIN lines \subseteq Events
  BY DEF Reflected, Accepted
<1> QED BY <1>1, <1>2, StepGrowsEvidence DEF EvidenceGrows, Reflected

\* and what a snapshot lists when it is taken is true and no older than the
\* draft of that moment.
LEMMA SnapshotIsCurrent ==
    ASSUME TypeOK, DraftsArePast, NEW r \in Records, NEW b \in BOOLEAN
    PROVE  /\ DOMAIN LinesOf(r, b) = Accepted(r)
           /\ Reflected(r, LinesOf(r, b))
           /\ draft[r] # Nothing => Extends(draft[r].lines, LinesOf(r, b))
<1>1. /\ DOMAIN LinesOf(r, b) = Accepted(r)
      /\ \A e \in Accepted(r) : /\ LinesOf(r, b)[e].state = evidence[e].state
                                /\ LinesOf(r, b)[e].rating = evidence[e].rating
  BY DEF LinesOf
<1> QED BY <1>1 DEF Reflected, Extends, DraftsArePast

\* A finalization that is not blocked saw only rated events without marks.
LEMMA ApprovableIsResolved ==
    ASSUME TypeOK, NEW r \in Records, FullyRated(LinesOf(r, TRUE))
    PROVE  \A e \in Accepted(r) : Resolved(e)
<1> SUFFICES ASSUME NEW e \in Accepted(r)
             PROVE  Resolved(e)
  OBVIOUS
<1>1. /\ evidence[e].rating # "none"
      /\ Outcome(evidence[e], TRUE) = "RATED"
  BY DEF FullyRated, LinesOf
<1>2. evidence[e] \in Facts
  BY DEF Accepted, TypeOK
<1> QED BY <1>1, <1>2 DEF Outcome, Unresolved, Facts, Stored, Completed, Resolved

LEMMA RecalculatedIsCurrent ==
    ASSUME TypeOK, DraftsArePast, NEW r \in Records
    PROVE  /\ Recalculated(r) \in Drafts
           /\ Recalculated(r) # Nothing
           /\ Recalculated(r).lines = LinesOf(r, TRUE)
<1>1. Recalculated(r) \in Drafts
  BY RecalculatedType
<1> QED BY <1>1, NothingIsNothing DEF Recalculated, Over, SameDraft

-----------------------------------------------------------------------------
(* Every step keeps the evidence invariant.                                 *)

\* Only a start or a retry adds a waiting calculation, with a new snapshot.
LEMMA CalculationsAreStarted ==
    ASSUME TypeOK, [Next]_vars
    PROVE  \A c \in calculations' :
              \/ c \in calculations
              \/ \E r \in Records, past \in BOOLEAN, try \in 1..3 :
                    c = Started(r, past, try)
<1> DEFINE Goal == \A c \in calculations' :
                      \/ c \in calculations
                      \/ \E r \in Records, past \in BOOLEAN, try \in 1..3 :
                            c = Started(r, past, try)
<1> SUFFICES Goal
  OBVIOUS
<1>1. CASE calculations' \subseteq calculations
  BY <1>1
<1>2. ASSUME NEW r \in Records, StartCalculation(r) PROVE Goal
  <2>1. closed \in BOOLEAN /\ 1 \in 1..3
    BY DEF TypeOK
  <2> QED BY <1>2, <2>1 DEF StartCalculation
<1>3. ASSUME NEW c \in calculations, RetryCalculation(c) PROVE Goal
  <2>1. c.record \in Records /\ c.past \in BOOLEAN /\ c.try \in 1..3
    BY DEF TypeOK, Calculations
  <2>2. c.try < 3 => c.try + 1 \in 1..3
    BY <2>1
  <2> QED BY <1>3, <2>1, <2>2 DEF RetryCalculation
<1>4. ASSUME NEW c \in calculations,
             CalculationDone(c) \/ Publish(c) \/ CalculationFails(c)
      PROVE  calculations' \subseteq calculations
  BY <1>4 DEF CalculationDone, Publish, CalculationFails
<1>5. ASSUME NEW e \in Events,
             \/ Receive(e) \/ Insert(e) \/ Project(e) \/ Reopen(e) \/ Rate(e)
             \/ MarkRetry(e) \/ CorrectGap(e)
      PROVE  calculations' \subseteq calculations
  BY <1>5 DEF Receive, Insert, Project, Reopen, Rate, MarkRetry, CorrectGap, Write
<1>6. CASE Close \/ \E r \in Records : FinalizeBlocked(r) \/ Commit(r) \/ Abort(r)
  BY <1>1, <1>6 DEF Close, FinalizeBlocked, Commit, Abort
<1>7. CASE \E r \in Records :
             \/ \E id \in Ids, v \in 0..Len(versions) : Repeat(r, id, v)
             \/ \E id \in FinalIds : Finalize(r, id)
             \/ \E id \in RevisionIds, v \in 1..Len(versions) : Revise(r, id, v)
  BY <1>1, <1>7 DEF Repeat, Finalize, Revise
<1>8. CASE UNCHANGED vars
  BY <1>1, <1>8 DEF vars
<1> HIDE DEF Goal
<1> QED
  BY <1>1, <1>2, <1>3, <1>4, <1>5, <1>6, <1>7, <1>8 DEF Next

LEMMA StepKeepsCalculations ==
    ASSUME TypeOK, EvidenceInv, [Next]_vars PROVE CalculationsMoveOn'
<1> SUFFICES ASSUME NEW c \in calculations'
             PROVE  /\ Reflected(c.record, c.seen.lines)'
                    /\ c.row.draft # Nothing
                         => Extends(c.row.draft.lines, c.seen.lines)
  BY DEF CalculationsMoveOn
<1>1. /\ c.record \in Records
      /\ Reflected(c.record, c.seen.lines)
      /\ c.row.draft # Nothing => Extends(c.row.draft.lines, c.seen.lines)
  <2>1. CASE c \in calculations
    BY <2>1 DEF EvidenceInv, CalculationsMoveOn, TypeOK, Calculations
  <2>2. ASSUME NEW r \in Records, NEW past \in BOOLEAN, NEW try \in 1..3,
               c = Started(r, past, try)
        PROVE  /\ c.record \in Records
               /\ Reflected(c.record, c.seen.lines)
               /\ c.row.draft # Nothing => Extends(c.row.draft.lines, c.seen.lines)
    BY <2>2, SnapshotIsCurrent DEF EvidenceInv, Started, Row, Over
  <2> QED BY <2>1, <2>2, CalculationsAreStarted
<1> QED BY <1>1, ReflectedStays

\* A draft is replaced by a calculation or by an approval, with newer evidence.
Newer(r, new) ==
    /\ new # Nothing
    /\ Reflected(r, new.lines)
    /\ draft[r] # Nothing => Extends(draft[r].lines, new.lines)

LEMMA DraftChanges ==
    ASSUME TypeOK, EvidenceInv, [Next]_vars
    PROVE  \A r \in Records :
              \/ draft'[r] = draft[r]
              \/ /\ Newer(r, draft'[r])
                 /\ approving[r] = Nothing \/ approving'[r] = Nothing
<1> DEFINE Goal == \A r \in Records :
                      \/ draft'[r] = draft[r]
                      \/ /\ Newer(r, draft'[r])
                         /\ approving[r] = Nothing \/ approving'[r] = Nothing
<1> SUFFICES Goal
  OBVIOUS
<1>1. CASE UNCHANGED draft
  BY <1>1
<1>2. ASSUME NEW q \in Records, NEW new \in Drafts, Newer(q, new),
             draft' = [draft EXCEPT ![q] = new],
             approving[q] = Nothing \/ approving'[q] = Nothing
      PROVE  Goal
  BY <1>2 DEF TypeOK
<1>3. ASSUME NEW c \in calculations, Publish(c) PROVE Goal
  <2>1. c \in Calculations /\ c.record \in Records /\ c.seen \in Drafts
    BY DEF TypeOK, Calculations
  <2>2. c.row.draft = draft[c.record]
    BY <1>3 DEF Publish, Serializable, Row
  <2>3. Newer(c.record, c.seen)
    BY <2>1, <2>2, NothingIsNothing DEF Newer, EvidenceInv, CalculationsMoveOn
  <2> QED BY <1>2, <1>3, <2>1, <2>3 DEF Publish, Unlocked
<1>4. ASSUME NEW q \in Records, FinalizeBlocked(q) PROVE Goal
  <2>1. Recalculated(q) \in Drafts /\ Newer(q, Recalculated(q))
    BY RecalculatedIsCurrent, SnapshotIsCurrent DEF EvidenceInv, Newer
  <2> QED BY <1>2, <1>4, <2>1 DEF FinalizeBlocked, Unlocked
<1>5. ASSUME NEW q \in Records, Commit(q) PROVE Goal
  <2>1. CASE approving[q].seen = Nothing
    BY <1>1, <1>5, <2>1 DEF Commit
  <2>2. CASE approving[q].seen # Nothing
    <3>1. approving[q] # Nothing /\ approving'[q] = Nothing
      BY <1>5 DEF Commit, TypeOK
    <3>2. approving[q].seen \in Drafts /\ Newer(q, approving[q].seen)
      BY <2>2, <3>1 DEF EvidenceInv, ApprovalsAreCurrent, Newer, TypeOK, Approvals
    <3> QED BY <1>2, <1>5, <2>2, <3>1, <3>2 DEF Commit
  <2> QED BY <2>1, <2>2
<1>6. ASSUME NEW e \in Events,
             \/ Receive(e) \/ Insert(e) \/ Project(e) \/ Reopen(e) \/ Rate(e)
             \/ MarkRetry(e) \/ CorrectGap(e)
      PROVE  UNCHANGED draft
  BY <1>6 DEF Receive, Insert, Project, Reopen, Rate, MarkRetry, CorrectGap, Write
<1>7. CASE Close \/ \E r \in Records : StartCalculation(r) \/ Abort(r)
  BY <1>1, <1>7 DEF Close, StartCalculation, Abort
<1>8. CASE \E c \in calculations : \/ CalculationDone(c) \/ RetryCalculation(c)
                                  \/ CalculationFails(c)
  BY <1>1, <1>8 DEF CalculationDone, RetryCalculation, CalculationFails
<1>9. CASE \E r \in Records :
             \/ \E id \in Ids, v \in 0..Len(versions) : Repeat(r, id, v)
             \/ \E id \in FinalIds : Finalize(r, id)
             \/ \E id \in RevisionIds, v \in 1..Len(versions) : Revise(r, id, v)
  BY <1>1, <1>9 DEF Repeat, Finalize, Revise
<1>10. CASE UNCHANGED vars
  BY <1>1, <1>10 DEF vars
<1> HIDE DEF Goal
<1> QED
  BY <1>1, <1>3, <1>4, <1>5, <1>6, <1>7, <1>8, <1>9, <1>10 DEF Next

LEMMA StepKeepsDrafts ==
    ASSUME TypeOK, EvidenceInv, [Next]_vars PROVE DraftsArePast'
<1> SUFFICES ASSUME NEW r \in Records, draft'[r] # Nothing,
                    NEW lines, lines = draft'[r].lines
             PROVE  Reflected(r, lines)'
  BY DEF DraftsArePast, Reflected
<1>1. Reflected(r, lines)
  BY DraftChanges DEF Newer, EvidenceInv, DraftsArePast
<1> QED BY <1>1, ReflectedStays

\* Who takes, gives up and uses a record's lock, and what else that changes.
LEMMA LockStep ==
    ASSUME TypeOK, [Next]_vars
    PROVE  \/ UNCHANGED <<approving, approvals>>
           \/ \E r \in Records :
                \/ \E id \in FinalIds : Finalize(r, id)
                \/ \E id \in RevisionIds, v \in 1..Len(versions) : Revise(r, id, v)
                \/ \E id \in Ids, v \in 0..Len(versions) : Repeat(r, id, v)
                \/ Commit(r)
                \/ Abort(r)
<1>1. ASSUME NEW e \in Events,
             \/ Receive(e) \/ Insert(e) \/ Project(e) \/ Reopen(e) \/ Rate(e)
             \/ MarkRetry(e) \/ CorrectGap(e)
      PROVE  UNCHANGED <<approving, approvals>>
  BY <1>1 DEF Receive, Insert, Project, Reopen, Rate, MarkRetry, CorrectGap, Write
<1>2. ASSUME Close \/ \E r \in Records : StartCalculation(r) \/ FinalizeBlocked(r)
      PROVE  UNCHANGED <<approving, approvals>>
  BY <1>2 DEF Close, StartCalculation, FinalizeBlocked
<1>3. ASSUME NEW c \in calculations,
             \/ CalculationDone(c) \/ Publish(c) \/ RetryCalculation(c)
             \/ CalculationFails(c)
      PROVE  UNCHANGED <<approving, approvals>>
  BY <1>3 DEF CalculationDone, Publish, RetryCalculation, CalculationFails
<1>4. ASSUME UNCHANGED vars PROVE UNCHANGED <<approving, approvals>>
  BY <1>4 DEF vars, approvals
<1> QED
  BY <1>1, <1>2, <1>3, <1>4 DEF Next

\* The close does not come back.
LEMMA ClosedStays == TypeOK /\ [Next]_vars => (closed => closed')
<1> SUFFICES ASSUME TypeOK, [Next]_vars, closed PROVE closed'
  OBVIOUS
<1>1. ASSUME NEW e \in Events,
             \/ Receive(e) \/ Insert(e) \/ Project(e) \/ Reopen(e) \/ Rate(e)
             \/ MarkRetry(e) \/ CorrectGap(e)
      PROVE  closed'
  BY <1>1 DEF Receive, Insert, Project, Reopen, Rate, MarkRetry, CorrectGap, Write
<1>2. ASSUME Close \/ \E r \in Records : \/ StartCalculation(r) \/ FinalizeBlocked(r)
                                        \/ Commit(r) \/ Abort(r)
      PROVE  closed'
  BY <1>2 DEF Close, StartCalculation, FinalizeBlocked, Commit, Abort
<1>3. ASSUME NEW c \in calculations,
             \/ CalculationDone(c) \/ Publish(c) \/ RetryCalculation(c)
             \/ CalculationFails(c)
      PROVE  closed'
  BY <1>3 DEF CalculationDone, Publish, RetryCalculation, CalculationFails
<1>4. ASSUME \E r \in Records :
               \/ \E id \in Ids, v \in 0..Len(versions) : Repeat(r, id, v)
               \/ \E id \in FinalIds : Finalize(r, id)
               \/ \E id \in RevisionIds, v \in 1..Len(versions) : Revise(r, id, v)
      PROVE  closed'
  BY <1>4 DEF Repeat, Finalize, Revise
<1>5. ASSUME UNCHANGED vars PROVE closed'
  BY <1>5 DEF vars
<1> QED
  BY <1>1, <1>2, <1>3, <1>4, <1>5 DEF Next

\* A decided approval stays current: nothing else moves its record's pointer or
\* draft, and a finalization holds the evidence.
LEMMA StepKeepsApprovals ==
    ASSUME TypeOK, EvidenceInv, [Next]_vars PROVE ApprovalsAreCurrent'
<1> DEFINE Current(r, a) ==
             /\ a.expected = final[r]
             /\ a.id \in FinalIds <=> a.expected = 0
             /\ a.id \in FinalIds <=> a.seen # Nothing
             /\ a.seen # Nothing =>
                  /\ closed
                  /\ DOMAIN a.seen.lines = Accepted(r)
                  /\ Reflected(r, a.seen.lines)
                  /\ draft[r] # Nothing => Extends(draft[r].lines, a.seen.lines)
                  /\ \A e \in Accepted(r) : Resolved(e)
<1> SUFFICES ASSUME NEW r \in Records, approving'[r] # Nothing,
                    NEW a, a = approving'[r]
             PROVE  Current(r, a)'
  BY DEF ApprovalsAreCurrent
<1> DEFINE Source ==
             \/ approving[r] = approving'[r] /\ final'[r] = final[r]
             \/ \E id \in FinalIds : Finalize(r, id)
             \/ \E id \in RevisionIds, v \in 1..Len(versions) : Revise(r, id, v)
<1>1. Source
  <2>1. CASE UNCHANGED <<approving, approvals>>
    BY <2>1 DEF approvals
  <2>2. ASSUME NEW q \in Records, NEW id \in FinalIds, Finalize(q, id)
        PROVE  Source
    BY <2>2 DEF Finalize, approvals, TypeOK
  <2>3. ASSUME NEW q \in Records, NEW id \in RevisionIds,
               NEW v \in 1..Len(versions), Revise(q, id, v)
        PROVE  Source
    BY <2>3 DEF Revise, approvals, TypeOK
  <2>4. ASSUME NEW q \in Records, Commit(q) \/ Abort(q) PROVE Source
    BY <2>4 DEF Commit, Abort, approvals, TypeOK
  <2>5. ASSUME NEW q \in Records, NEW id \in Ids, NEW v \in 0..Len(versions),
               Repeat(q, id, v)
        PROVE  Source
    BY <2>5 DEF Repeat
  <2> QED BY <2>1, <2>2, <2>3, <2>4, <2>5, LockStep
<1>2. CASE approving[r] = approving'[r] /\ final'[r] = final[r]
  <2>1. Current(r, a)
    BY <1>2 DEF EvidenceInv, ApprovalsAreCurrent
  <2>2. draft'[r] = draft[r]
    BY <1>2, DraftChanges
  <2>3. closed => closed'
    BY ClosedStays
  <2>4. ASSUME a.seen # Nothing
        PROVE  /\ Accepted(r)' = Accepted(r)
               /\ \A e \in Accepted(r) : evidence'[e] = evidence[e]
    <3>1. Frozen
      BY <1>2, <2>1, <2>4 DEF Frozen
    <3> QED BY <3>1, StepGrowsEvidence DEF EvidenceGrows, Accepted
  <2>5. a.seen # Nothing => Reflected(r, a.seen.lines)'
    BY <2>1, ReflectedStays
  <2> QED BY <1>2, <2>1, <2>2, <2>3, <2>4, <2>5 DEF Resolved
<1>3. ASSUME NEW id \in FinalIds, Finalize(r, id) PROVE Current(r, a)'
  <2>1. a = [id |-> id, expected |-> 0, seen |-> Recalculated(r)]
    BY <1>3 DEF Finalize, TypeOK
  <2>2. UNCHANGED <<closed, evidence, draft, final>> /\ Accepted(r)' = Accepted(r)
    BY <1>3 DEF Finalize, approvals, Accepted
  <2>3. /\ Recalculated(r) # Nothing
        /\ Recalculated(r).lines = LinesOf(r, TRUE)
    BY RecalculatedIsCurrent DEF EvidenceInv
  <2>4. closed /\ final[r] = 0 /\ FullyRated(LinesOf(r, TRUE))
    BY <1>3 DEF Finalize, NotFinalized, Approvable
  <2>5. /\ DOMAIN LinesOf(r, TRUE) = Accepted(r)
        /\ draft[r] # Nothing => Extends(draft[r].lines, LinesOf(r, TRUE))
        /\ Reflected(r, LinesOf(r, TRUE))
    BY SnapshotIsCurrent DEF EvidenceInv
  <2>6. a.seen.lines = LinesOf(r, TRUE)
    <3>1. a.seen = Recalculated(r)
      BY <2>1
    <3> QED BY <2>3, <3>1, Zenon
  <2>7. Reflected(r, a.seen.lines)
    BY <2>5, <2>6
  <2>8. Reflected(r, a.seen.lines)'
    BY <2>7, ReflectedStays
  <2>9. \A e \in Accepted(r) : Resolved(e)
    BY <2>4, ApprovableIsResolved
  <2>10. a.id \in FinalIds /\ a.expected = 0 /\ a.seen # Nothing
    BY <2>1, <2>3
  <2> QED
    BY <2>2, <2>4, <2>5, <2>6, <2>8, <2>9, <2>10 DEF Resolved
<1>4. ASSUME NEW id \in RevisionIds, NEW v \in 1..Len(versions), Revise(r, id, v)
      PROVE  Current(r, a)'
  <2>1. a = [id |-> id, expected |-> v, seen |-> Nothing]
    BY <1>4 DEF Revise, TypeOK
  <2>2. v = final[r] /\ final'[r] = final[r] /\ v # 0
    BY <1>4 DEF Revise, IsCurrent, approvals
  <2>3. id \notin FinalIds
    BY BillingConstants
  <2> QED BY <2>1, <2>2, <2>3
<1> HIDE DEF Current
<1> QED BY <1>1, <1>2, <1>3, <1>4

\* Snapshots, drafts and approvals always reflect evidence that still stands.
THEOREM EvidenceHolds == Spec => []EvidenceInv
<1>1. Init => EvidenceInv
  BY DEF Init, EvidenceInv, DraftsArePast, CalculationsMoveOn, ApprovalsAreCurrent
<1>2. TypeOK /\ EvidenceInv /\ [Next]_vars => EvidenceInv'
  BY StepKeepsDrafts, StepKeepsCalculations, StepKeepsApprovals DEF EvidenceInv
<1> QED BY <1>1, <1>2, TypeCorrect, PTL DEF Spec

\* DraftNeverRegresses: a published draft is only replaced by one calculated
\* from evidence at least as new.
THEOREM DraftsMoveOn == Spec => DraftNeverRegresses
<1>1. TypeOK /\ EvidenceInv /\ [Next]_vars =>
        \A r \in Records :
           draft[r] # Nothing => Extends(draft[r].lines, draft'[r].lines)
  <2> SUFFICES ASSUME TypeOK, EvidenceInv, [Next]_vars,
                      NEW r \in Records, draft[r] # Nothing
               PROVE  Extends(draft[r].lines, draft'[r].lines)
    OBVIOUS
  <2>1. CASE draft'[r] = draft[r]
    BY <2>1 DEF Extends
  <2> QED BY <2>1, DraftChanges DEF Newer
<1> QED BY <1>1, TypeCorrect, EvidenceHolds, PTL DEF Spec, DraftNeverRegresses

\* FinalizesCurrentEvidence: a final version covers exactly the events the
\* month then holds, all processed, rated and without marks.
THEOREM FinalVersionsCoverTheMonth == Spec => FinalizesCurrentEvidence
<1> DEFINE Covers == \A r \in Records :
             final[r] = 0 /\ final'[r] # 0 =>
                /\ closed
                /\ DOMAIN draft'[r].lines = Accepted(r)
                /\ \A e \in Accepted(r) : Resolved(e)
<1>1. TypeOK /\ EvidenceInv /\ [Next]_vars => Covers
  <2> SUFFICES ASSUME TypeOK, EvidenceInv, [Next]_vars,
                      NEW r \in Records, final[r] = 0, final'[r] # 0
               PROVE  /\ closed
                      /\ DOMAIN draft'[r].lines = Accepted(r)
                      /\ \A e \in Accepted(r) : Resolved(e)
    OBVIOUS
  <2>1. Commit(r)
    BY LockStep DEF approvals, Finalize, Revise, Repeat, Commit, Abort, TypeOK
  <2>2. approving[r] # Nothing /\ approving[r].seen # Nothing
    BY <2>1 DEF Commit, EvidenceInv, ApprovalsAreCurrent
  <2>3. draft'[r] = approving[r].seen
    BY <2>1, <2>2 DEF Commit, TypeOK
  <2> QED BY <2>2, <2>3 DEF EvidenceInv, ApprovalsAreCurrent
<1> QED BY <1>1, TypeCorrect, EvidenceHolds, PTL DEF Spec, FinalizesCurrentEvidence

-----------------------------------------------------------------------------
(* Versions and identities.                                                 *)

VersionsOf(r) == {v \in 1..Len(versions) : versions[v].record = r}

\* VersionChain, and that the pointer is NULL exactly before the first version.
ChainOf(r) ==
    /\ {versions[v].number : v \in VersionsOf(r)} = 1..Cardinality(VersionsOf(r))
    /\ final[r] = 0 <=> VersionsOf(r) = {}
    /\ final[r] # 0 => /\ final[r] \in VersionsOf(r)
                       /\ versions[final[r]].number = Cardinality(VersionsOf(r))
    /\ \A v \in VersionsOf(r) :
          versions[v].number > 1 =>
             /\ versions[v].predecessor \in VersionsOf(r)
             /\ versions[versions[v].predecessor].number + 1 = versions[v].number

Chains == \A r \in Records : ChainOf(r)

\* An identity's binding, its one version and its answers name each other.
IdentitiesAreBound ==
    /\ \A i \in Ids : \A v \in answers[i] :
          binding[i] # Nothing /\ v = binding[i].version
    /\ \A i \in Ids : binding[i] # Nothing => versions[binding[i].version].by = i
    /\ \A v \in 1..Len(versions) :
          /\ binding[versions[v].by] # Nothing
          /\ binding[versions[v].by].version = v

VersionInv == Chains /\ IdentitiesAreBound

\* A step that adds no version leaves the chains alone.
LEMMA ChainsUntouched ==
    ASSUME Chains, UNCHANGED <<versions, final>> PROVE Chains'
<1> SUFFICES ASSUME NEW r \in Records PROVE ChainOf(r)'
  BY DEF Chains
<1>1. VersionsOf(r)' = VersionsOf(r)
  BY DEF VersionsOf
<1>2. ChainOf(r)
  BY DEF Chains
<1> QED BY <1>1, <1>2 DEF ChainOf

\* What a commit appends.
LEMMA CommitAppends ==
    ASSUME TypeOK, NEW r \in Records, Commit(r)
    PROVE  LET a == approving[r]
               new == Len(versions) + 1
           IN  /\ a # Nothing /\ a.id \in Ids
               /\ a.expected \in 0..Len(versions)
               /\ Len(versions) \in Nat
               /\ Len(versions') = new
               /\ \A v \in 1..Len(versions) : versions'[v] = versions[v]
               /\ versions'[new] = NextVersion(r, a)
               /\ final' = [final EXCEPT ![r] = new]
<1>1. /\ approving[r] # Nothing /\ approving[r] \in Approvals
      /\ approving[r].expected <= Len(versions)
      /\ Len(versions) \in Nat
  BY DEF Commit, TypeOK
<1>2. /\ versions \in Seq(Versions)
      /\ versions' = Append(versions, NextVersion(r, approving[r]))
      /\ NextVersion(r, approving[r]) \in Versions
  BY <1>1, NextVersionType DEF Commit, TypeOK
<1>3. /\ Len(versions') = Len(versions) + 1
      /\ \A v \in 1..Len(versions) : versions'[v] = versions[v]
      /\ versions'[Len(versions) + 1] = NextVersion(r, approving[r])
  BY <1>2
<1> QED BY <1>1, <1>3 DEF Commit, Approvals

LEMMA VersionsOfIsFinite ==
    ASSUME TypeOK, NEW r \in Records
    PROVE  /\ IsFiniteSet(VersionsOf(r)) /\ Cardinality(VersionsOf(r)) \in Nat
           /\ Cardinality(VersionsOf(r)) = 0 <=> VersionsOf(r) = {}
<1>1. IsFiniteSet(1..Len(versions))
  BY FS_Interval DEF TypeOK
<1>2. IsFiniteSet(VersionsOf(r))
  BY <1>1, FS_Subset DEF VersionsOf
<1> QED BY <1>2, FS_CardinalityType, FS_EmptySet

\* A commit extends its record's chain by one version and no other chain.
LEMMA CommitExtendsChain ==
    ASSUME TypeOK, EvidenceInv, Chains, NEW r \in Records, Commit(r)
    PROVE  Chains'
<1> DEFINE a == approving[r]
           new == Len(versions) + 1
           mine == VersionsOf(r)
           n == Cardinality(mine)
<1>0. /\ a # Nothing /\ a.expected = final[r]
      /\ Len(versions) \in Nat /\ Len(versions') = new
      /\ \A v \in 1..Len(versions) : versions'[v] = versions[v]
      /\ versions'[new] = NextVersion(r, a)
      /\ final' = [final EXCEPT ![r] = new]
      /\ final \in [Records -> 0..Len(versions)]
  BY CommitAppends DEF EvidenceInv, ApprovalsAreCurrent, TypeOK
<1>1. ASSUME NEW q \in Records, q # r PROVE ChainOf(q)'
  <2>1. VersionsOf(q)' = VersionsOf(q)
    BY <1>0, <1>1 DEF VersionsOf, NextVersion
  <2>2. final'[q] = final[q]
    BY <1>0, <1>1
  <2>3. \A v \in VersionsOf(q) : versions'[v] = versions[v]
    BY <1>0 DEF VersionsOf
  <2>4. ChainOf(q)
    BY DEF Chains
  <2> QED BY <2>1, <2>2, <2>3, <2>4 DEF ChainOf
<1>2. ChainOf(r)'
  <2>1. VersionsOf(r)' = mine \cup {new} /\ new \notin mine
    BY <1>0 DEF VersionsOf, NextVersion
  <2>2. /\ n \in Nat /\ IsFiniteSet(mine) /\ (n = 0 <=> mine = {})
        /\ Cardinality(VersionsOf(r)') = n + 1
    BY <2>1, VersionsOfIsFinite, FS_AddElement
  <2>3. ChainOf(r)
    BY DEF Chains
  <2>4. versions'[new].number = n + 1
    BY <1>0, <2>2, <2>3 DEF NextVersion, ChainOf
  <2>5. \A v \in mine : versions'[v] = versions[v]
    BY <1>0 DEF VersionsOf
  <2>6. {versions'[v].number : v \in VersionsOf(r)'} = 1..(n + 1)
    <3>1. {versions'[v].number : v \in VersionsOf(r)'}
            = {versions[v].number : v \in mine} \cup {n + 1}
      BY <2>1, <2>4, <2>5
    <3>2. {versions[v].number : v \in mine} = 1..n
      BY <2>3 DEF ChainOf
    <3>3. 1..(n + 1) = (1..n) \cup {n + 1}
      BY <2>2
    <3> QED BY <3>1, <3>2, <3>3
  <2>7. final'[r] = new /\ new # 0
    BY <1>0
  <2>8. ASSUME NEW v \in VersionsOf(r)', versions'[v].number > 1
        PROVE  /\ versions'[v].predecessor \in VersionsOf(r)'
               /\ versions'[versions'[v].predecessor].number + 1
                     = versions'[v].number
    <3>1. CASE v \in mine
      BY <2>1, <2>3, <2>5, <2>8, <3>1 DEF ChainOf
    <3>2. CASE v = new
      <4>1. n > 0
        BY <2>2, <2>4, <2>8, <3>2
      <4>2. final[r] \in mine /\ versions[final[r]].number = n
        BY <2>2, <2>3, <4>1 DEF ChainOf
      <4>3. versions'[v].predecessor = final[r]
        BY <1>0, <3>2 DEF NextVersion
      <4> QED BY <2>1, <2>4, <2>5, <3>2, <4>2, <4>3
    <3> QED BY <2>1, <3>1, <3>2
  <2> QED BY <2>1, <2>2, <2>4, <2>6, <2>7, <2>8 DEF ChainOf
<1> QED BY <1>1, <1>2 DEF Chains

\* It binds an identity that was free, so that had no version and no answer.
LEMMA CommitBinds ==
    ASSUME TypeOK, IdentitiesAreBound, NEW r \in Records, Commit(r)
    PROVE  IdentitiesAreBound'
<1> DEFINE a == approving[r]
           new == Len(versions) + 1
           bound == [record |-> r, expected |-> a.expected, version |-> new]
<1>a. /\ a.id \in Ids /\ a.expected \in 0..Len(versions)
      /\ Len(versions) \in Nat /\ Len(versions') = new
      /\ \A v \in 1..Len(versions) : versions'[v] = versions[v]
      /\ versions'[new] = NextVersion(r, a)
  BY CommitAppends
<1>b. NextVersion(r, a).by = a.id
  BY DEF NextVersion
<1>0. /\ a.id \in Ids /\ a.expected \in 0..Len(versions)
      /\ Len(versions) \in Nat /\ Len(versions') = new
      /\ \A v \in 1..Len(versions) : versions'[v] = versions[v]
      /\ versions'[new].by = a.id
  BY <1>a, <1>b
<1>1. /\ binding[a.id] = Nothing
      /\ binding' = [binding EXCEPT ![a.id] = bound]
      /\ answers' = [answers EXCEPT ![a.id] = @ \cup {new}]
  BY DEF Commit, KeyFree
<1>2. bound # Nothing
  <2>1. bound \in Bindings
    BY <1>0 DEF Bindings
  <2> QED BY <2>1, NothingIsNothing
<1>3. answers[a.id] = {}
  BY <1>0, <1>1 DEF IdentitiesAreBound, TypeOK
<1>4. \A v \in 1..Len(versions) : versions[v].by # a.id /\ versions[v].by \in Ids
  <2> SUFFICES ASSUME NEW v \in 1..Len(versions)
               PROVE  versions[v].by # a.id /\ versions[v].by \in Ids
    OBVIOUS
  <2>1. versions[v] \in Versions
    BY DEF TypeOK
  <2>2. binding[versions[v].by] # Nothing
    BY DEF IdentitiesAreBound
  <2> QED BY <1>1, <2>1, <2>2 DEF Versions
<1>5. /\ binding'[a.id] = bound
      /\ answers'[a.id] = {new}
      /\ \A i \in Ids \ {a.id} : binding'[i] = binding[i] /\ answers'[i] = answers[i]
  BY <1>0, <1>1, <1>3 DEF TypeOK
<1>6. \A i \in Ids : \A v \in answers'[i] :
        binding'[i] # Nothing /\ v = binding'[i].version
  BY <1>2, <1>5 DEF IdentitiesAreBound
<1>7. \A i \in Ids : binding'[i] # Nothing => versions'[binding'[i].version].by = i
  <2>1. \A i \in Ids : binding[i] # Nothing => binding[i].version \in 1..Len(versions)
    BY DEF TypeOK, Bindings
  <2> QED BY <1>0, <1>5, <2>1 DEF IdentitiesAreBound
<1>8. \A v \in 1..Len(versions') :
        /\ binding'[versions'[v].by] # Nothing
        /\ binding'[versions'[v].by].version = v
  <2>1. ASSUME NEW v \in 1..Len(versions)
        PROVE  /\ binding'[versions'[v].by] # Nothing
               /\ binding'[versions'[v].by].version = v
    BY <1>0, <1>4, <1>5 DEF IdentitiesAreBound
  <2>2. /\ binding'[versions'[new].by] # Nothing
        /\ binding'[versions'[new].by].version = new
    BY <1>0, <1>2, <1>5
  <2> QED BY <1>0, <2>1, <2>2
<1> QED BY <1>6, <1>7, <1>8 DEF IdentitiesAreBound

\* Chains and bindings hold in every reachable state.
THEOREM VersionsHold == Spec => []VersionInv
<1>1. Init => VersionInv
  <2> SUFFICES ASSUME Init PROVE VersionInv
    OBVIOUS
  <2>1. \A r \in Records : VersionsOf(r) = {}
    BY DEF Init, VersionsOf
  <2>2. ASSUME NEW r \in Records PROVE ChainOf(r)
    <3>1. VersionsOf(r) = {} /\ Cardinality(VersionsOf(r)) = 0 /\ final[r] = 0
      BY <2>1, FS_EmptySet DEF Init
    <3>2. {versions[v].number : v \in VersionsOf(r)} = {}
      BY <3>1
    <3>3. 1..0 = {}
      OBVIOUS
    <3> QED BY <3>1, <3>2, <3>3 DEF ChainOf
  <2> QED BY <2>2 DEF Init, VersionInv, Chains, IdentitiesAreBound
<1>2. TypeOK /\ EvidenceInv /\ VersionInv /\ [Next]_vars => VersionInv'
  <2> SUFFICES ASSUME TypeOK, EvidenceInv, VersionInv, [Next]_vars
               PROVE  VersionInv'
    OBVIOUS
  <2> USE DEF VersionInv
  <2>1. ASSUME UNCHANGED approvals PROVE VersionInv'
    BY <2>1, ChainsUntouched DEF approvals, IdentitiesAreBound
  <2>2. ASSUME NEW r \in Records, Commit(r) PROVE VersionInv'
    BY <2>2, CommitExtendsChain, CommitBinds
  <2>3. ASSUME NEW r \in Records, NEW id \in Ids, NEW v \in 0..Len(versions),
               Repeat(r, id, v)
        PROVE  VersionInv'
    <3>1. UNCHANGED <<versions, final, binding>> /\ binding[id] # Nothing
      BY <2>3 DEF Repeat
    <3>2. answers' = [answers EXCEPT ![id] = @ \cup {binding[id].version}]
      BY <2>3 DEF Repeat, Answer
    <3>3. IdentitiesAreBound'
      BY <3>1, <3>2 DEF IdentitiesAreBound, TypeOK
    <3> QED BY <3>1, <3>3, ChainsUntouched
  <2>4. ASSUME NEW r \in Records,
               \/ Abort(r)
               \/ \E id \in FinalIds : Finalize(r, id)
               \/ \E id \in RevisionIds, v \in 1..Len(versions) : Revise(r, id, v)
        PROVE  UNCHANGED approvals
    BY <2>4 DEF Abort, Finalize, Revise
  <2> QED BY <2>1, <2>2, <2>3, <2>4, LockStep
<1> QED BY <1>1, <1>2, TypeCorrect, EvidenceHolds, PTL DEF Spec

\* VersionChain: no fork, gap or second start of a record's versions.
THEOREM VersionsFormChains == Spec => []VersionChain
<1>1. VersionInv => VersionChain
  BY DEF VersionInv, Chains, ChainOf, VersionsOf, VersionChain
<1> QED BY <1>1, VersionsHold, PTL

\* AnswersStand: an identity is always answered with the one version it made.
THEOREM AnswersAreFinal == Spec => []AnswersStand
<1>1. VersionInv => AnswersStand
  BY DEF VersionInv, IdentitiesAreBound, AnswersStand
<1> QED BY <1>1, VersionsHold, PTL

\* IdentityActsOnce: no two versions were made by one identity.
THEOREM IdentitiesActOnce == Spec => []IdentityActsOnce
<1>1. VersionInv => IdentityActsOnce
  BY DEF VersionInv, IdentitiesAreBound, IdentityActsOnce
<1> QED BY <1>1, VersionsHold, PTL
=============================================================================
