--------------------------- MODULE AcceptanceProofs ---------------------------
(***************************************************************************)
(* Proofs about Acceptance for every number of requests, keys and contents. *)
(***************************************************************************)
EXTENDS Acceptance, TLAPS

LEMMA CallIsNotNoCall == \A c \in Calls : c \in AllCalls /\ c # NoCall
BY ConstantsOK

\* Every step of the handler starts from a request that has begun, but Begin.
LEMMA HandleBegun ==
    ASSUME NEW r \in Requests, Handle(r), \A c \in Calls : ~ Begin(r, c)
    PROVE  at[r] \notin {"idle", "done"}
BY DEF Handle, Lookup, CheckWindow, CheckSubscription, CheckCustomer,
   CheckMetric, Check, Insert, Relookup, Dispatch, Aggregate, Fails

-----------------------------------------------------------------------------
(* Type correctness                                                         *)

\* The catalogue and the clock: nothing of a request or of the store changes.
EnvStep ==
    \/ RevokeKey \/ ChangeSubscription \/ TimePasses
    \/ \E x \in {"customer", "metric"} : Create(x)

LEMMA EnvKeeps == EnvStep => UNCHANGED <<events, request, promised>>
BY DEF EnvStep, RevokeKey, ChangeSubscription, TimePasses, Create

\* Every variable keeps its type.
THEOREM TypeCorrect == Spec => []TypeOK
<1>1. Init => TypeOK
  BY DEF Init, TypeOK, Steps, Answers
<1>2. TypeOK /\ [Next]_vars => TypeOK'
  <2> SUFFICES ASSUME TypeOK, [Next]_vars PROVE TypeOK'
    OBVIOUS
  <2> USE DEF TypeOK, Steps, Answers, env
  <2>1. ASSUME NEW r \in Requests, NEW c \in Calls, Begin(r, c) PROVE TypeOK'
    BY <2>1, CallIsNotNoCall DEF Begin
  <2>2. ASSUME NEW r \in Requests, Lookup(r) PROVE TypeOK'
    BY <2>2 DEF Lookup, Existing, AnswerFrom, Accepted, Answer, Goto
  <2>3. ASSUME NEW r \in Requests,
               CheckWindow(r) \/ CheckSubscription(r) \/ CheckCustomer(r) \/ CheckMetric(r)
        PROVE  TypeOK'
    BY <2>3 DEF CheckWindow, CheckSubscription, CheckCustomer, CheckMetric,
       Check, Answer, Goto
  <2>4. ASSUME NEW r \in Requests, Insert(r) PROVE TypeOK'
    BY <2>4 DEF Insert, Answer, Goto
  <2>5. ASSUME NEW r \in Requests, Relookup(r) PROVE TypeOK'
    BY <2>5 DEF Relookup, Existing, AnswerFrom, Accepted, Answer
  <2>6. ASSUME NEW r \in Requests, Dispatch(r) \/ Aggregate(r) PROVE TypeOK'
    <3>1. CASE Dispatch(r)
      BY <3>1 DEF Dispatch, Accepted
    <3>2. CASE Aggregate(r)
      BY <3>2 DEF Aggregate, Answer
    <3>3. QED
      BY <2>6, <3>1, <3>2
  <2>7. ASSUME NEW r \in Requests, Fails(r) PROVE TypeOK'
    BY <2>7 DEF Fails, Answer
  <2>8. CASE EnvStep
    BY <2>8 DEF EnvStep, RevokeKey, ChangeSubscription, TimePasses, Create, request
  <2>9. CASE UNCHANGED vars
    BY <2>9 DEF vars, request
  <2>10. QED
    BY <2>1, <2>2, <2>3, <2>4, <2>5, <2>6, <2>7, <2>8, <2>9 DEF Next, Handle, EnvStep
<1>3. QED
  BY <1>1, <1>2, PTL DEF Spec

-----------------------------------------------------------------------------
(* The inductive invariant                                                  *)

\* A request that has not begun left no trace; one that has keeps its call.
Begun ==
    \A r \in Requests :
        /\ at[r] = "idle" => call[r] = NoCall /\ answer[r] = "none" /\ r \notin promised
        /\ at[r] # "idle" => call[r] \in Calls
        /\ r \in events => at[r] \in {"dispatch", "aggregate", "done"}

\* What got past the first checks is well formed, and what the handler has
\* not answered it has not accepted.
Passed ==
    \A r \in Requests :
        /\ (at[r] \notin {"idle", "done"} \/ answer[r] = "ACCEPTED") => Parses(call[r])
        /\ at[r] # "done" => answer[r] = "none"
        /\ at[r] \in {"lookup", "relookup", "dispatch"} => Ledger(r)
        /\ at[r] = "dispatch" => r \in events

\* An idempotency key names at most one event.
OnePerKey ==
    \A e, f \in events : call[e].key = call[f].key /\ call[e].key # NoKey => e = f

\* An accepted request was told of a stored event with its key and content.
ToldOfStored ==
    \A r \in Requests : answer[r] = "ACCEPTED" =>
        /\ at[r] = "done"
        /\ Ledger(r)
        /\ eventId[r] \in Existing(r)
        /\ Matches(r, eventId[r])

\* A promised request repeats an accepted one: it is answered by the lookup.
PromisedRepeats ==
    \A r \in promised :
        /\ at[r] \in {"lookup", "done"}
        /\ answer[r] \in {"none", "401", "500", "ACCEPTED"}
        /\ \E q \in Requests : call[q] = call[r] /\ answer[q] = "ACCEPTED"

IInv == TypeOK /\ Begun /\ Passed /\ OnePerKey /\ ToldOfStored /\ PromisedRepeats

\* A step that stores nothing and answers at most r, which had no answer, with
\* what is true of r, keeps what is known of the others.
Quiet(r) ==
    /\ events' = events /\ call' = call /\ promised' = promised
    /\ \A q \in Requests \ {r} :
         at'[q] = at[q] /\ answer'[q] = answer[q] /\ eventId'[q] = eventId[q]

LEMMA QuietKeeps ==
    ASSUME IInv, TypeOK', NEW r \in Requests, Quiet(r), at[r] \notin {"idle", "done"},
           at'[r] \notin {"idle", "lookup"},
           at'[r] # "done" => answer'[r] = "none",
           at'[r] = "relookup" => Ledger(r),
           at'[r] = "dispatch" => at[r] = "dispatch",
           r \in events => at'[r] \in {"dispatch", "aggregate", "done"},
           answer'[r] = "ACCEPTED" =>
               /\ at'[r] = "done" /\ Ledger(r)
               /\ eventId'[r] \in Existing(r) /\ Matches(r, eventId'[r]),
           r \in promised => at'[r] = "done" /\ answer'[r] \in {"none", "500", "ACCEPTED"}
    PROVE  IInv'
<1> USE DEF IInv, Quiet
<1>1. Begun'
  BY DEF Begun
<1>2. Passed'
  BY DEF Passed, Ledger, Parses
<1>3. OnePerKey'
  BY DEF OnePerKey
<1>4. ToldOfStored'
  BY DEF ToldOfStored, Ledger, Existing, Matches
<1>5. PromisedRepeats'
  <2> SUFFICES ASSUME NEW p \in promised
               PROVE  /\ at'[p] \in {"lookup", "done"}
                      /\ answer'[p] \in {"none", "401", "500", "ACCEPTED"}
                      /\ \E q \in Requests : call[q] = call[p] /\ answer'[q] = "ACCEPTED"
    BY DEF PromisedRepeats
  <2>1. p \in Requests
    BY DEF TypeOK
  <2>2. PICK q \in Requests : call[q] = call[p] /\ answer[q] = "ACCEPTED"
    BY DEF PromisedRepeats
  <2>3. q # r
    BY <2>2 DEF ToldOfStored
  <2>4. QED
    BY <2>1, <2>2, <2>3 DEF PromisedRepeats
<1>6. QED
  BY <1>1, <1>2, <1>3, <1>4, <1>5

\* The stored event of an accepted key is the one its retries find.
LEMMA FoundIsTold ==
    ASSUME IInv, NEW p \in promised, at[p] = "lookup"
    PROVE  /\ Existing(p) # {}
           /\ \A e \in Existing(p) : Matches(p, e)
<1>1. p \in Requests
  BY DEF IInv, TypeOK
<1>2. PICK q \in Requests : call[q] = call[p] /\ answer[q] = "ACCEPTED"
  BY DEF IInv, PromisedRepeats
<1>3. /\ eventId[q] \in Existing(q) /\ Matches(q, eventId[q]) /\ Ledger(q)
      /\ call[q].key # NoKey
  BY <1>2 DEF IInv, ToldOfStored, Passed, Parses, Ledger
<1>4. Existing(p) = Existing(q)
  BY <1>2 DEF Existing
<1>5. \A e \in Existing(q) : e = eventId[q]
  BY <1>3 DEF IInv, OnePerKey, Existing
<1>6. QED
  BY <1>2, <1>3, <1>4, <1>5 DEF Matches

\* Every step of the handler and around it keeps the invariant.
LEMMA StepKeeps == IInv /\ TypeOK' /\ [Next]_vars => IInv'
<1> SUFFICES ASSUME IInv, TypeOK', [Next]_vars PROVE IInv'
  OBVIOUS
<1>1. ASSUME NEW r \in Requests, NEW c \in Calls, Begin(r, c) PROVE IInv'
  <2> USE <1>1, CallIsNotNoCall DEF IInv
  <2>1. /\ events' = events /\ eventId' = eventId /\ r \notin events
        /\ call'[r] = c
        /\ \A q \in Requests \ {r} :
             call'[q] = call[q] /\ at'[q] = at[q] /\ answer'[q] = answer[q]
        /\ promised \subseteq promised' /\ promised' \subseteq promised \cup {r}
        /\ at[r] = "idle" /\ answer[r] = "none" /\ r \notin promised
    BY DEF Begin, TypeOK, Begun
  <2>2. /\ at'[r] \in {"lookup", "subscription", "done"}
        /\ answer'[r] \in {"none", "401", "400"}
        /\ at'[r] # "done" => answer'[r] = "none" /\ Parses(c)
        /\ answer'[r] = "400" => ~ Parses(c)
        /\ c.ledger /\ at'[r] # "done" => at'[r] = "lookup"
        /\ at'[r] = "lookup" => c.ledger
    BY DEF Begin, TypeOK
  <2>3. Begun'
    BY <2>1, <2>2 DEF Begun
  <2>4. Passed'
    BY <2>1, <2>2 DEF Passed, Ledger
  <2>5. OnePerKey'
    BY <2>1 DEF OnePerKey, TypeOK
  <2>6. ToldOfStored'
    BY <2>1, <2>2 DEF ToldOfStored, Ledger, Existing, Matches, TypeOK
  <2>7. PromisedRepeats'
    <3>1. ASSUME r \in promised'
          PROVE  \E q \in Requests \ {r} : call[q] = c /\ answer[q] = "ACCEPTED"
      BY <2>1, <3>1 DEF Begin
    <3>2. ASSUME r \in promised'
          PROVE  at'[r] \in {"lookup", "done"} /\ answer'[r] \in {"none", "401"}
      <4>1. PICK q \in Requests : call[q] = c /\ answer[q] = "ACCEPTED"
        BY <3>1, <3>2
      <4>2. c.ledger /\ Parses(c)
        BY <4>1 DEF ToldOfStored, Passed, Ledger
      <4>3. QED
        BY <2>2, <4>2
    <3>3. ASSUME NEW p \in promised
          PROVE  \E q \in Requests \ {r} : call[q] = call[p] /\ answer[q] = "ACCEPTED"
      BY <2>1 DEF PromisedRepeats
    <3>4. promised \subseteq Requests
      BY DEF TypeOK
    <3>5. QED
      BY <2>1, <3>1, <3>2, <3>3, <3>4 DEF PromisedRepeats
  <2>8. QED
    BY <2>3, <2>4, <2>5, <2>6, <2>7
<1>2. ASSUME NEW r \in Requests, Lookup(r) PROVE IInv'
  <2>1. CASE \E e \in Existing(r) : AnswerFrom(r, e)
    <3>1. PICK e \in Existing(r) : AnswerFrom(r, e)
      BY <2>1
    <3>2. Quiet(r)
      BY <1>2, <3>1 DEF Lookup, AnswerFrom, Accepted, Answer, Quiet, IInv, TypeOK
    <3>3. /\ at'[r] = "done" /\ Ledger(r) /\ at[r] = "lookup"
          /\ \/ answer'[r] = "ACCEPTED" /\ eventId'[r] = e /\ Matches(r, e)
             \/ answer'[r] = "409" /\ ~ Matches(r, e)
      BY <1>2, <3>1 DEF Lookup, AnswerFrom, Accepted, Answer, IInv, TypeOK, Passed
    <3>4. r \in promised => answer'[r] = "ACCEPTED"
      BY <3>1, <3>3, FoundIsTold
    <3>5. QED
      BY <3>1, <3>2, <3>3, <3>4, QuietKeeps
  <2>2. CASE Existing(r) = {} /\ Goto(r, "window")
    <3>1. Quiet(r) /\ at[r] = "lookup" /\ at'[r] = "window" /\ answer'[r] = "none"
      BY <1>2, <2>2 DEF Lookup, Goto, Quiet, IInv, TypeOK, Passed
    <3>2. r \notin promised /\ r \notin events
      BY <2>2, <3>1, FoundIsTold DEF IInv, Begun
    <3>3. QED
      BY <3>1, <3>2, QuietKeeps
  <2>3. QED
    BY <1>2, <2>1, <2>2 DEF Lookup
<1>3. ASSUME NEW r \in Requests,
             CheckWindow(r) \/ CheckSubscription(r) \/ CheckCustomer(r) \/ CheckMetric(r)
      PROVE  IInv'
  <2>1. /\ Quiet(r)
        /\ at[r] \in {"window", "subscription", "customer", "metric"}
        /\ at'[r] \in {"subscription", "customer", "metric", "insert", "done"}
        /\ at'[r] # "done" => answer'[r] = "none"
        /\ answer'[r] # "ACCEPTED"
    BY <1>3 DEF CheckWindow, CheckSubscription, CheckCustomer, CheckMetric, Check,
       Answer, Goto, Quiet, IInv, TypeOK, Passed
  <2>2. r \notin promised /\ r \notin events
    BY <2>1 DEF IInv, PromisedRepeats, Begun
  <2>3. QED
    BY <2>1, <2>2, QuietKeeps
<1>4. ASSUME NEW r \in Requests, Insert(r) PROVE IInv'
  <2>1. CASE Collides(r)
    <3>1. /\ Quiet(r) /\ at[r] = "insert"
          /\ \/ at'[r] = "relookup" /\ Ledger(r) /\ answer'[r] = "none"
             \/ at'[r] = "done" /\ answer'[r] = "success"
      BY <1>4, <2>1 DEF Insert, Answer, Goto, Quiet, IInv, TypeOK, Passed
    <3>2. r \notin promised /\ r \notin events
      BY <3>1 DEF IInv, PromisedRepeats, Begun
    <3>3. QED
      BY <3>1, <3>2, QuietKeeps
  <2>2. CASE ~ Collides(r)
    <3> USE DEF IInv
    <3>1. /\ events' = events \cup {r}
          /\ call' = call /\ eventId' = eventId /\ answer' = answer /\ promised' = promised
          /\ at[r] = "insert"
          /\ at'[r] = IF Ledger(r) THEN "dispatch" ELSE "aggregate"
          /\ \A q \in Requests \ {r} : at'[q] = at[q]
      BY <1>4, <2>2 DEF Insert, Goto, TypeOK
    <3>2. answer[r] = "none" /\ r \notin promised
      BY <3>1 DEF Passed, PromisedRepeats
    <3>3. Begun'
      BY <3>1 DEF Begun
    <3>4. Passed'
      BY <3>1 DEF Passed, Ledger
    <3>5. OnePerKey'
      BY <2>2, <3>1 DEF OnePerKey, Collides, Existing
    <3>6. ToldOfStored'
      BY <3>1, <3>2 DEF ToldOfStored, Ledger, Existing, Matches
    <3>7. PromisedRepeats'
      BY <3>1, <3>2 DEF PromisedRepeats, TypeOK
    <3>8. QED
      BY <3>3, <3>4, <3>5, <3>6, <3>7
  <2>3. QED
    BY <2>1, <2>2
<1>5. ASSUME NEW r \in Requests, Relookup(r) PROVE IInv'
  <2>1. PICK e \in Existing(r) : AnswerFrom(r, e)
    BY <1>5 DEF Relookup
  <2>2. /\ Quiet(r) /\ at[r] = "relookup" /\ Ledger(r) /\ at'[r] = "done"
        /\ \/ answer'[r] = "ACCEPTED" /\ eventId'[r] = e /\ Matches(r, e)
           \/ answer'[r] = "409"
    BY <1>5, <2>1 DEF Relookup, AnswerFrom, Accepted, Answer, Quiet, IInv, TypeOK, Passed
  <2>3. r \notin promised
    BY <2>2 DEF IInv, PromisedRepeats
  <2>4. QED
    BY <2>1, <2>2, <2>3, QuietKeeps
<1>6. ASSUME NEW r \in Requests, Dispatch(r) PROVE IInv'
  <2>1. /\ Quiet(r) /\ at[r] = "dispatch" /\ Ledger(r) /\ at'[r] = "done"
        /\ answer'[r] = "ACCEPTED" /\ eventId'[r] = r
        /\ r \in Existing(r) /\ Matches(r, r)
    BY <1>6 DEF Dispatch, Accepted, Quiet, IInv, TypeOK, Passed, Existing, Matches
  <2>2. r \notin promised
    BY <2>1 DEF IInv, PromisedRepeats
  <2>3. QED
    BY <2>1, <2>2, QuietKeeps
<1>7. ASSUME NEW r \in Requests, Aggregate(r) PROVE IInv'
  <2>1. /\ Quiet(r) /\ at[r] = "aggregate" /\ at'[r] = "done"
        /\ answer'[r] \in {"success", "500"}
    BY <1>7 DEF Aggregate, Answer, Quiet, IInv, TypeOK
  <2>2. r \notin promised
    BY <2>1 DEF IInv, PromisedRepeats
  <2>3. QED
    BY <2>1, <2>2, QuietKeeps
<1>8. ASSUME NEW r \in Requests, Fails(r) PROVE IInv'
  <2>1. /\ call' = call /\ eventId' = eventId /\ promised' = promised
        /\ at[r] \notin {"idle", "done"} /\ at'[r] = "done"
        /\ answer'[r] \in {"none", "500"}
        /\ \A q \in Requests \ {r} : at'[q] = at[q] /\ answer'[q] = answer[q]
    BY <1>8 DEF Fails, Answer, IInv, TypeOK
  <2>2. CASE events' = events
    <3>1. Quiet(r)
      BY <2>1, <2>2 DEF Quiet
    <3>2. QED
      BY <2>1, <3>1, QuietKeeps
  <2>3. CASE events' = events \cup {r} /\ at[r] = "insert" /\ ~ Collides(r)
    <3> USE DEF IInv
    <3>1. answer[r] = "none" /\ r \notin promised
      BY <2>3 DEF Passed, PromisedRepeats
    <3>2. Begun'
      BY <2>1, <2>3 DEF Begun
    <3>3. Passed'
      BY <2>1, <2>3 DEF Passed, Ledger
    <3>4. OnePerKey'
      BY <2>1, <2>3 DEF OnePerKey, Collides, Existing
    <3>5. ToldOfStored'
      BY <2>1, <2>3, <3>1 DEF ToldOfStored, Ledger, Existing, Matches
    <3>6. PromisedRepeats'
      BY <2>1, <3>1 DEF PromisedRepeats, TypeOK
    <3>7. QED
      BY <3>2, <3>3, <3>4, <3>5, <3>6
  <2>4. QED
    BY <1>8, <2>2, <2>3 DEF Fails
<1>9. CASE EnvStep \/ UNCHANGED vars
  <2>1. UNCHANGED <<events, request, promised>>
    BY <1>9, EnvKeeps DEF vars
  <2>2. QED
    BY <2>1 DEF IInv, request, Begun, Passed, OnePerKey, ToldOfStored,
       PromisedRepeats, Ledger, Existing, Matches
<1>10. QED
  BY <1>1, <1>2, <1>3, <1>4, <1>5, <1>6, <1>7, <1>8, <1>9 DEF Next, Handle, EnvStep

\* Keys name one event, and an accepted client was told of a stored event that
\* is its own: the evidence on which the two properties of the handler rest.
THEOREM InvariantHolds == Spec => []IInv
<1>1. Init => IInv
  BY DEF Init, IInv, TypeOK, Steps, Answers, Begun, Passed, OnePerKey, ToldOfStored,
     PromisedRepeats
<1>2. IInv /\ TypeOK' /\ [Next]_vars => IInv'
  BY StepKeeps
<1>3. QED
  BY <1>1, <1>2, TypeCorrect, PTL DEF Spec

\* A retry begun after its original was accepted gets the same event again,
\* whatever happened to the month, the subscription and the catalogue since.
THEOREM RetriesStand == Spec => []RetryStands
<1>1. IInv => RetryStands
  <2> SUFFICES ASSUME IInv, NEW r \in promised
               PROVE  /\ answer[r] \in {"none", "401", "500", "ACCEPTED"}
                      /\ \A q \in Requests :
                           (answer[q] = "ACCEPTED" /\ call[q] = call[r]
                               /\ answer[r] = "ACCEPTED") => eventId[q] = eventId[r]
    BY DEF RetryStands
  <2> USE DEF IInv
  <2>1. r \in Requests
    BY DEF TypeOK
  <2>2. ASSUME NEW q \in Requests, answer[q] = "ACCEPTED", call[q] = call[r],
               answer[r] = "ACCEPTED"
        PROVE  eventId[q] = eventId[r]
    <3>1. /\ eventId[q] \in events /\ eventId[r] \in events
          /\ call[eventId[q]].key = call[eventId[r]].key
          /\ call[eventId[q]].key # NoKey
      BY <2>1, <2>2 DEF ToldOfStored, Passed, Parses, Ledger, Existing
    <3>2. QED
      BY <3>1 DEF OnePerKey
  <2>3. QED
    BY <2>2 DEF PromisedRepeats
<1>2. QED
  BY <1>1, InvariantHolds, PTL

-----------------------------------------------------------------------------
(* Refinement                                                               *)

StoredUnder(k) == {<<e, call[e].content>> : e \in {f \in events : call[f].key = k}}

ToldUnder(k) ==
    {<<eventId[r], call[r].content>> :
       r \in {q \in Requests : answer[q] = "ACCEPTED" /\ call[q].key = k}}

LEMMA ContractState ==
    /\ Contract!contractVars = <<[k \in Keys |-> StoredUnder(k)], [k \in Keys |-> ToldUnder(k)]>>
    /\ Contract!contractVars' = <<[k \in Keys |-> StoredUnder(k)'], [k \in Keys |-> ToldUnder(k)']>>
BY DEF Contract!contractVars, StoredUnder, ToldUnder

\* What is stored depends only on the events and on their calls.
LEMMA StoredSame ==
    ASSUME NEW k \in Keys, events' = events, \A e \in events : call'[e] = call[e]
    PROVE  StoredUnder(k)' = StoredUnder(k)
BY DEF StoredUnder

\* What is told depends only on the accepted requests.
LEMMA ToldSame ==
    ASSUME NEW k \in Keys,
           \A q \in Requests :
             \/ call'[q] = call[q] /\ answer'[q] = answer[q] /\ eventId'[q] = eventId[q]
             \/ answer[q] # "ACCEPTED" /\ answer'[q] # "ACCEPTED"
    PROVE  ToldUnder(k)' = ToldUnder(k)
BY DEF ToldUnder

\* A stored event is the first of its key, or has none.
LEMMA StoreRefines ==
    ASSUME IInv, NEW r \in Requests, at[r] = "insert", ~ Collides(r),
           events' = events \cup {r}, call' = call, eventId' = eventId,
           \A q \in Requests : answer'[q] # answer[q]
                                => answer[q] # "ACCEPTED" /\ answer'[q] # "ACCEPTED"
    PROVE  [Contract!Next]_(Contract!contractVars)
<1>1. call[r] \in AllCalls
  BY CallIsNotNoCall DEF IInv, Begun
<1>2. \A k \in Keys : ToldUnder(k)' = ToldUnder(k)
  BY ToldSame
<1>3. \A k \in Keys : k # call[r].key => StoredUnder(k)' = StoredUnder(k)
  BY DEF StoredUnder
<1>4. CASE call[r].key = NoKey
  <2>1. \A k \in Keys : StoredUnder(k)' = StoredUnder(k)
    BY <1>3, <1>4, ConstantsOK
  <2>2. UNCHANGED Contract!contractVars
    BY <1>2, <2>1, ContractState
  <2>3. QED
    BY <2>2
<1>5. CASE call[r].key # NoKey
  <2>0. PICK k \in Keys : k = call[r].key
    BY <1>1, <1>5 DEF AllCalls
  <2>1. PICK p \in Requests \X Contents : p = <<r, call[r].content>>
    BY <1>1 DEF AllCalls
  <2>2. StoredUnder(k) = {}
    BY <2>0, <1>5 DEF StoredUnder, Collides, Existing
  <2>3. StoredUnder(k)' = {p}
    BY <2>0, <2>1, <1>5 DEF StoredUnder, Collides, Existing
  <2>4. Contract!Store(k, p)
    <3>1. [j \in Keys |-> StoredUnder(j)][k] = {}
      BY <2>2
    <3>2. [j \in Keys |-> StoredUnder(j)'] = [[j \in Keys |-> StoredUnder(j)] EXCEPT ![k] = {p}]
      BY <1>3, <2>0, <2>3
    <3>3. [j \in Keys |-> ToldUnder(j)'] = [j \in Keys |-> ToldUnder(j)]
      BY <1>2
    <3>4. QED
      BY <3>1, <3>2, <3>3 DEF Contract!Store, StoredUnder, ToldUnder
  <2>5. QED
    BY <2>4 DEF Contract!Next
<1>6. QED
  BY <1>4, <1>5

\* An acceptance tells of an event that is stored with the same content.
LEMMA TellRefines ==
    ASSUME IInv, IInv', NEW r \in Requests, Quiet(r), at[r] # "done",
           answer'[r] = "ACCEPTED"
    PROVE  [Contract!Next]_(Contract!contractVars)
<1>1. PICK k \in Keys : k = call[r].key
  BY CallIsNotNoCall DEF IInv, Quiet, Begun, Passed, Parses, ToldOfStored, Ledger, AllCalls
<1>2. /\ eventId'[r] \in events /\ call[eventId'[r]].key = k
      /\ call[eventId'[r]].content = call[r].content
  BY <1>1 DEF IInv, Quiet, ToldOfStored, Existing, Matches
<1>3. PICK p \in Requests \X Contents : p = <<eventId'[r], call[r].content>>
  <2>1. call[r] \in AllCalls
    BY CallIsNotNoCall DEF IInv, Quiet, Begun, ToldOfStored
  <2>2. eventId'[r] \in Requests
    BY <1>2 DEF IInv, TypeOK
  <2>3. QED
    BY <2>1, <2>2 DEF AllCalls
<1>4. p \in StoredUnder(k)
  BY <1>2, <1>3 DEF StoredUnder
<1>5. answer[r] # "ACCEPTED"
  BY DEF IInv, ToldOfStored
<1>6. \A j \in Keys : StoredUnder(j)' = StoredUnder(j)
  BY StoredSame DEF Quiet
<1>7. \A j \in Keys : j # k => ToldUnder(j)' = ToldUnder(j)
  BY <1>1, <1>5 DEF ToldUnder, Quiet
<1>8. ToldUnder(k)' = ToldUnder(k) \cup {p}
  BY <1>1, <1>3, <1>5 DEF ToldUnder, Quiet
<1>9. Contract!Tell(k, p)
  <2>1. p \in [j \in Keys |-> StoredUnder(j)][k]
    BY <1>4
  <2>2. [j \in Keys |-> ToldUnder(j)'] = [[j \in Keys |-> ToldUnder(j)] EXCEPT ![k] = @ \cup {p}]
    BY <1>7, <1>8
  <2>3. [j \in Keys |-> StoredUnder(j)'] = [j \in Keys |-> StoredUnder(j)]
    BY <1>6
  <2>4. QED
    BY <2>1, <2>2, <2>3 DEF Contract!Tell, StoredUnder, ToldUnder
<1>10. QED
  BY <1>9 DEF Contract!Next

\* A step that accepts nobody and stores nothing is none of the contract's.
LEMMA OtherRefines ==
    ASSUME events' = events, \A e \in events : call'[e] = call[e],
           \A q \in Requests :
             \/ call'[q] = call[q] /\ answer'[q] = answer[q] /\ eventId'[q] = eventId[q]
             \/ answer[q] # "ACCEPTED" /\ answer'[q] # "ACCEPTED"
    PROVE  UNCHANGED Contract!contractVars
BY StoredSame, ToldSame, ContractState

LEMMA StepRefines ==
    ASSUME IInv, IInv', [Next]_vars
    PROVE  [Contract!Next]_(Contract!contractVars)
<1> USE DEF IInv, TypeOK
<1>1. ASSUME NEW r \in Requests, NEW c \in Calls, Begin(r, c)
      PROVE  UNCHANGED Contract!contractVars
  <2>1. /\ events' = events /\ r \notin events
        /\ answer[r] # "ACCEPTED" /\ answer'[r] # "ACCEPTED"
        /\ \A q \in Requests \ {r} :
             call'[q] = call[q] /\ answer'[q] = answer[q] /\ eventId'[q] = eventId[q]
    BY <1>1 DEF Begin, Begun
  <2>2. QED
    BY <2>1, OtherRefines
<1>2. ASSUME NEW r \in Requests, Quiet(r), at[r] # "done"
      PROVE  [Contract!Next]_(Contract!contractVars)
  <2>1. CASE answer'[r] = "ACCEPTED"
    BY <1>2, <2>1, TellRefines
  <2>2. CASE answer'[r] # "ACCEPTED"
    <3>1. answer[r] # "ACCEPTED"
      BY <1>2 DEF ToldOfStored
    <3>2. UNCHANGED Contract!contractVars
      BY <1>2, <2>2, <3>1, OtherRefines DEF Quiet
    <3>3. QED
      BY <3>2
  <2>3. QED
    BY <2>1, <2>2
<1>3. ASSUME NEW r \in Requests,
             \/ Lookup(r) \/ CheckWindow(r) \/ CheckSubscription(r)
             \/ CheckCustomer(r) \/ CheckMetric(r)
      PROVE  Quiet(r) /\ at[r] # "done"
  BY <1>3 DEF Lookup, CheckWindow, CheckSubscription, CheckCustomer, CheckMetric,
     Check, AnswerFrom, Accepted, Answer, Goto, Quiet
<1>4. ASSUME NEW r \in Requests, Relookup(r)
      PROVE  Quiet(r) /\ at[r] # "done"
  BY <1>4 DEF Relookup, AnswerFrom, Accepted, Answer, Quiet
<1>5. ASSUME NEW r \in Requests, Dispatch(r)
      PROVE  Quiet(r) /\ at[r] # "done"
  BY <1>5 DEF Dispatch, Accepted, Quiet
<1>6. ASSUME NEW r \in Requests, Aggregate(r)
      PROVE  Quiet(r) /\ at[r] # "done"
  BY <1>6 DEF Aggregate, Answer, Quiet
<1>7. ASSUME NEW r \in Requests, Insert(r)
      PROVE  [Contract!Next]_(Contract!contractVars)
  <2>1. CASE Collides(r)
    <3>1. Quiet(r) /\ at[r] # "done"
      BY <1>7, <2>1 DEF Insert, Answer, Goto, Quiet
    <3>2. QED
      BY <1>2, <3>1
  <2>2. CASE ~ Collides(r)
    <3>1. /\ at[r] = "insert" /\ events' = events \cup {r}
          /\ call' = call /\ eventId' = eventId /\ answer' = answer
      BY <1>7, <2>2 DEF Insert, Goto
    <3>2. QED
      BY <2>2, <3>1, StoreRefines
  <2>3. QED
    BY <2>1, <2>2
<1>8. ASSUME NEW r \in Requests, Fails(r)
      PROVE  [Contract!Next]_(Contract!contractVars)
  <2>1. /\ call' = call /\ eventId' = eventId /\ promised' = promised
        /\ at[r] # "done" /\ answer[r] # "ACCEPTED" /\ answer'[r] # "ACCEPTED"
        /\ \A q \in Requests \ {r} : at'[q] = at[q] /\ answer'[q] = answer[q]
    BY <1>8 DEF Fails, Answer, ToldOfStored
  <2>2. CASE events' = events
    <3>1. Quiet(r)
      BY <2>1, <2>2 DEF Quiet
    <3>2. QED
      BY <1>2, <2>1, <3>1
  <2>3. CASE events' = events \cup {r} /\ at[r] = "insert" /\ ~ Collides(r)
    BY <2>1, <2>3, StoreRefines
  <2>4. QED
    BY <1>8, <2>2, <2>3 DEF Fails
<1>9. CASE EnvStep \/ UNCHANGED vars
  <2>1. UNCHANGED <<events, request>>
    BY <1>9, EnvKeeps DEF vars
  <2>2. UNCHANGED Contract!contractVars
    BY <2>1, OtherRefines DEF request
  <2>3. QED
    BY <2>2
<1>10. QED
  BY <1>1, <1>2, <1>3, <1>4, <1>5, <1>6, <1>7, <1>8, <1>9 DEF Next, Handle, EnvStep

\* The handler implements its contract: racing, retried, crashed and legacy
\* requests store one event per key, and only its clients are told of it.
THEOREM Implements == Spec => ImplementsContract
<1>1. Init => Contract!Init
  BY DEF Init, Contract!Init
<1>2. IInv /\ IInv' /\ [Next]_vars => [Contract!Next]_(Contract!contractVars)
  BY StepRefines
<1>3. QED
  BY <1>1, <1>2, InvariantHolds, PTL DEF Spec, ImplementsContract, Contract!Spec
=============================================================================
