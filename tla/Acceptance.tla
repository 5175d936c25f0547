----------------------------- MODULE Acceptance -----------------------------
(***************************************************************************)
(* POST /api/track (app/api/track/route.ts), statement by statement: every  *)
(* await is a step, so requests with one idempotency key interleave, the    *)
(* month closes, a subscription ends or a key is revoked between any two.   *)
(* A request that committed its event and died is one whose client retries. *)
(*                                                                          *)
(* The gate CUSTOMER_LINKED_INGESTION_ENABLED is a field of each call: it   *)
(* differs between processes while a deployment rolls.                      *)
(***************************************************************************)
CONSTANTS
    Requests,     \* calls of the handler; an event is named by its creator
    Keys, NoKey,  \* idempotency keys of one Organization, and its absence
    Contents,     \* customer, metric, amount and timestamp (the fingerprint)
    Malformed,    \* contents that fail the schema of either mode
    Calls,        \* the calls clients make
    NoCall, NoEvent

AllCalls == [key : Keys \cup {NoKey}, content : Contents, ledger : BOOLEAN]

ASSUME ConstantsOK ==
    /\ NoKey \notin Keys
    /\ Malformed \subseteq Contents
    /\ Calls \subseteq AllCalls
    /\ NoCall \notin AllCalls
    /\ NoEvent \notin Requests

VARIABLES
    events,                     \* UsageEvent rows, with their intents
    keyActive, subscribed, known, window,   \* what the checks read
    call, at, answer, eventId,  \* each request: input, next await, response
    promised                    \* requests begun after an equal one was accepted

env     == <<keyActive, subscribed, known, window>>
request == <<call, at, answer, eventId>>
vars    == <<events, env, request, promised>>

Steps   == {"idle", "lookup", "window", "subscription", "customer", "metric",
            "insert", "relookup", "dispatch", "aggregate", "done"}
Answers == {"none", "ACCEPTED", "success", "400", "401", "403", "409", "500"}

TypeOK ==
    /\ events \in SUBSET Requests
    /\ keyActive \in BOOLEAN
    /\ subscribed \in BOOLEAN
    /\ known \in SUBSET {"customer", "metric"}
    /\ window \in {"early", "open", "closed"}
    /\ call \in [Requests -> Calls \cup {NoCall}]
    /\ \A r \in Requests : call[r] = NoCall => at[r] = "idle"
    /\ at \in [Requests -> Steps]
    /\ answer \in [Requests -> Answers]
    /\ eventId \in [Requests -> Requests \cup {NoEvent}]
    /\ promised \in SUBSET Requests

Init ==
    /\ events = {}
    /\ keyActive = TRUE
    /\ subscribed \in BOOLEAN
    /\ known \in SUBSET {"customer", "metric"}
    /\ window \in {"early", "open", "closed"}
    /\ call = [r \in Requests |-> NoCall]
    /\ at = [r \in Requests |-> "idle"]
    /\ answer = [r \in Requests |-> "none"]
    /\ eventId = [r \in Requests |-> NoEvent]
    /\ promised = {}

-----------------------------------------------------------------------------

Ledger(r) == call[r].ledger

Existing(r) == {e \in events : call[e].key = call[r].key}

\* The unique index on (orgId, idempotencyKey); NULLs never collide.
Collides(r) == call[r].key # NoKey /\ Existing(r) # {}

\* Mutant: the stored fingerprint is not compared.
BugMatches(r, e) == Ledger(e)

Matches(r, e) == Ledger(e) /\ call[e].content = call[r].content

Answer(r, a) ==
    /\ at' = [at EXCEPT ![r] = "done"]
    /\ answer' = [answer EXCEPT ![r] = a]
    /\ UNCHANGED <<call, eventId>>

Accepted(r, e) ==
    /\ at' = [at EXCEPT ![r] = "done"]
    /\ answer' = [answer EXCEPT ![r] = "ACCEPTED"]
    /\ eventId' = [eventId EXCEPT ![r] = e]
    /\ UNCHANGED call

\* originalResult when the stored event is the same one, otherwise conflict.
AnswerFrom(r, e) == IF Matches(r, e) THEN Accepted(r, e) ELSE Answer(r, "409")

Goto(r, s) ==
    /\ at' = [at EXCEPT ![r] = s]
    /\ UNCHANGED <<call, answer, eventId>>

-----------------------------------------------------------------------------
(* The handler.                                                             *)

Parses(c) == c.content \notin Malformed /\ (c.ledger => c.key # NoKey)

\* The API key, then the body: parsing awaits nothing that can change.
Begin(r, c) ==
    /\ at[r] = "idle"
    /\ call' = [call EXCEPT ![r] = c]
    /\ LET refused == IF ~ keyActive THEN "401" ELSE IF Parses(c) THEN "none" ELSE "400"
       IN  /\ answer' = [answer EXCEPT ![r] = refused]
           /\ at' = [at EXCEPT ![r] =
                IF refused # "none" THEN "done"
                ELSE IF c.ledger THEN "lookup" ELSE "subscription"]
    /\ promised' = IF \E q \in Requests : call[q] = c /\ answer[q] = "ACCEPTED"
                   THEN promised \cup {r} ELSE promised
    /\ UNCHANGED <<events, env, eventId>>

\* Mutant: a retry is validated like a new event first.
BugLookup(r) ==
    /\ at[r] = "lookup"
    /\ Goto(r, "window")
    /\ UNCHANGED <<events, env, promised>>

\* A retry is answered from the stored event before anything is validated.
Lookup(r) ==
    /\ at[r] = "lookup"
    /\ \/ \E e \in Existing(r) : AnswerFrom(r, e)
       \/ Existing(r) = {} /\ Goto(r, "window")
    /\ UNCHANGED <<events, env, promised>>

Check(r, step, holds, refusal, next) ==
    /\ at[r] = step
    /\ IF holds THEN Goto(r, next) ELSE Answer(r, refusal)
    /\ UNCHANGED <<events, env, promised>>

CheckWindow(r) == Check(r, "window", window = "open", "400", "subscription")

CheckSubscription(r) ==
    Check(r, "subscription", subscribed, "403", IF Ledger(r) THEN "customer" ELSE "metric")

CheckCustomer(r) == Check(r, "customer", "customer" \in known, "400", "metric")

CheckMetric(r) == Check(r, "metric", "metric" \in known, "400", "insert")

\* The event and its intent commit together, or the key is taken (P2002).
Insert(r) ==
    /\ at[r] = "insert"
    /\ IF Collides(r)
       THEN /\ IF Ledger(r) THEN Goto(r, "relookup") ELSE Answer(r, "success")
            /\ UNCHANGED events
       ELSE /\ events' = events \cup {r}
            /\ Goto(r, IF Ledger(r) THEN "dispatch" ELSE "aggregate")
    /\ UNCHANGED <<env, promised>>

\* The row the insert collided with is there: no handler deletes one.
Relookup(r) ==
    /\ at[r] = "relookup"
    /\ \E e \in Existing(r) : AnswerFrom(r, e)
    /\ UNCHANGED <<events, env, promised>>

\* The dispatch may fail or time out after 500 ms: the answer is the same.
Dispatch(r) ==
    /\ at[r] = "dispatch"
    /\ Accepted(r, r)
    /\ UNCHANGED <<events, env, promised>>

\* Legacy: the aggregation wakeup and lastUsedAt, either of which may throw.
Aggregate(r) ==
    /\ at[r] = "aggregate"
    /\ \E a \in {"success", "500"} : Answer(r, a)
    /\ UNCHANGED <<events, env, promised>>

\* A query throws (500, but not once the dispatch swallows it), a commit is
\* not acknowledged, or the process ends and the client learns nothing.
Fails(r) ==
    /\ at[r] \notin {"idle", "done"}
    /\ \E a \in IF at[r] = "dispatch" THEN {"none"} ELSE {"none", "500"} : Answer(r, a)
    /\ events' \in IF at[r] = "insert" /\ ~ Collides(r)
                   THEN {events, events \cup {r}} ELSE {events}
    /\ UNCHANGED <<env, promised>>

Handle(r) ==
    \/ \E c \in Calls : Begin(r, c)
    \/ Lookup(r) \/ CheckWindow(r) \/ CheckSubscription(r) \/ CheckCustomer(r)
    \/ CheckMetric(r) \/ Insert(r) \/ Relookup(r) \/ Dispatch(r) \/ Aggregate(r)
    \/ Fails(r)

-----------------------------------------------------------------------------
(* What changes around a request.                                           *)

RevokeKey ==
    /\ keyActive
    /\ keyActive' = FALSE
    /\ UNCHANGED <<events, subscribed, known, window, request, promised>>

\* Activation, or the suspension that follows a failed invoice.
ChangeSubscription ==
    /\ subscribed' = ~ subscribed
    /\ UNCHANGED <<events, keyActive, known, window, request, promised>>

Create(x) ==
    /\ x \notin known
    /\ known' = known \cup {x}
    /\ UNCHANGED <<events, keyActive, subscribed, window, request, promised>>

\* Occurrence times become acceptable, and cease to be 72 h after their month.
TimePasses ==
    /\ window # "closed"
    /\ window' = IF window = "early" THEN "open" ELSE "closed"
    /\ UNCHANGED <<events, keyActive, subscribed, known, request, promised>>

Next ==
    \/ \E r \in Requests : Handle(r)
    \/ RevokeKey \/ ChangeSubscription \/ TimePasses
    \/ \E x \in {"customer", "metric"} : Create(x)

Spec == Init /\ [][Next]_vars

-----------------------------------------------------------------------------

\* What an acceptance names: the event, and the content the client sent.
Contract == INSTANCE AcceptanceContract WITH
    Stored <- Requests \X Contents,
    stored <- [k \in Keys |-> {<<e, call[e].content>> :
                                 e \in {f \in events : call[f].key = k}}],
    told   <- [k \in Keys |-> {<<eventId[r], call[r].content>> :
                 r \in {q \in Requests : answer[q] = "ACCEPTED" /\ call[q].key = k}}]

\* The handler refines AcceptanceContract: racing, retried, crashed and legacy
\* requests never store two events under a key, and no client is told that an
\* event with another content is its own, or of one that was never stored.
ImplementsContract == Contract!Spec

\* A retry begun after its original was accepted gets the same event again,
\* whatever has happened to the month, the subscription or the catalogue since:
\* only a revoked API key or a failing server may answer it otherwise.
RetryStands ==
    \A r \in promised :
        /\ answer[r] \in {"none", "401", "500", "ACCEPTED"}
        /\ \A q \in Requests :
             (answer[q] = "ACCEPTED" /\ call[q] = call[r] /\ answer[r] = "ACCEPTED")
                => eventId[q] = eventId[r]
=============================================================================
