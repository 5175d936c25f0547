---------------------------- MODULE EvidenceLocks ----------------------------
(***************************************************************************)
(* How the approval of a billing record meets the transactions of the       *)
(* ledger.  lib/billing-record-finalization.ts reads its evidence in READ   *)
(* COMMITTED, statement by statement, and relies on one LOCK TABLE for an   *)
(* evidence that stands still; the ledger's transactions know nothing of it *)
(* and take the same tables in orders of their own.  Each transaction is    *)
(* the order of what it locks, reads and writes.  BillingRecord takes from  *)
(* here that finalizations freeze the evidence, and LedgerProcessing that a *)
(* transaction may fail.                                                    *)
(* Writes lock their table (ROW EXCLUSIVE) until the transaction ends; reads*)
(* and the checks of foreign keys conflict with none of the locks below.    *)
(* Locks are granted in any order, those PostgreSQL's queues allow included.*)
(***************************************************************************)
EXTENDS Sequences, Naturals

CONSTANT Sessions      \* database connections

VARIABLES
    tx,      \* the transaction of each session: what it has done, and the rest
    moved    \* tables a session's transaction has read and another since changed

vars == <<tx, moved>>

Write(T) == [do |-> "write", of |-> {T}]      \* ROW EXCLUSIVE on the table
Share(T) == [do |-> "share", of |-> {T}]      \* LOCK TABLE ... IN SHARE MODE
Hold(r) == [do |-> "hold", of |-> {r}]        \* a row or advisory lock
Read(S) == [do |-> "read", of |-> S]

Marks == {"LedgerProcessingIntent", "RatingRetry", "RatingFailure", "UnratedEvent", "RatedEvent"}

\* Mutant: only what a revision locks.
BugFinalize ==
    <<Share("Membership"), Share("Customer"),
      Read({"Membership", "Customer"}), Hold("record"), Read({"UsageEvent"}), Read(Marks)>>

\* LOCK TABLE takes the tables one by one as they are listed.  UnratedEvent and
\* RatingFailure would stand still without their locks: who writes them goes on
\* to RatingRetry.
Finalize ==
    <<Share("Membership"), Share("Customer"), Share("UsageEvent"), Share("LedgerProcessingIntent"),
      Share("RatedEvent"), Share("RatingRetry"), Share("RatingFailure"), Share("UnratedEvent"),
      Read({"Membership", "Customer"}), Hold("record"), Read({"UsageEvent"}), Read(Marks)>>

Revise ==
    <<Share("Membership"), Share("Customer"), Read({"Membership"}), Hold("record")>>

Calculate == <<Hold("record")>>       \* and reads its snapshot

\* Mutant: the intent is written first.
BugAccept == <<Write("LedgerProcessingIntent"), Write("UsageEvent")>>

Accept == <<Write("UsageEvent"), Write("LedgerProcessingIntent")>>

Claim == <<Write("LedgerProcessingIntent"), Write("UsageEvent")>>
Project == <<Write("LedgerProcessingIntent"), Write("UsageEvent")>>
RecordFailure == <<Write("LedgerProcessingIntent"), Write("UsageEvent")>>

\* A rating, by its outcome; each deletes the retry marker afterwards.
Rate(outcome) == <<Hold("Organization"), Write(outcome), Write("RatingRetry")>>

MarkRetry == <<Write("RatingRetry")>>
Correct == <<Hold("Organization"), Read({"UsageEvent"}), Write("RatedEvent")>>
Publish == <<Hold("Organization"), Read({"RatedEvent"})>>
Join == <<Write("Membership")>>
AddCustomer == <<Write("Customer")>>

Program ==
    [finalize |-> Finalize, revise |-> Revise, calculate |-> Calculate,
     accept |-> Accept, claim |-> Claim, project |-> Project, recordFailure |-> RecordFailure,
     rate |-> Rate("RatedEvent"), rateUnpriced |-> Rate("UnratedEvent"),
     rateOverflow |-> Rate("RatingFailure"), markRetry |-> MarkRetry,
     correct |-> Correct, publish |-> Publish, join |-> Join, addCustomer |-> AddCustomer]

Kinds == DOMAIN Program
Idle == [kind |-> "none", past |-> {}, rest |-> <<>>]
Started(kind) == [kind |-> kind, past |-> {}, rest |-> Program[kind]]
Items == {"Organization", "record"} \cup Marks \cup {"Membership", "Customer", "UsageEvent"}

TypeOK ==
    /\ DOMAIN tx = Sessions
    /\ \A s \in Sessions :
         /\ tx[s].kind \in Kinds \cup {"none"}
         /\ \A item \in tx[s].past : item.of \subseteq Items
    /\ moved \in [Sessions -> SUBSET Items]

Init ==
    /\ tx = [s \in Sessions |-> Idle]
    /\ moved = [s \in Sessions |-> {}]

-----------------------------------------------------------------------------
Running(s) == tx[s] # Idle
Ended(s) == Running(s) /\ tx[s].rest = <<>>
NextItem(s) == Head(tx[s].rest)

Of(s, action) == UNION {item.of : item \in {i \in tx[s].past : i.do = action}}

Conflicts(a, b) == {a, b} \in {{"write", "share"}, {"hold"}}

Blocks(u, t) ==
    /\ u # t /\ Running(t) /\ ~Ended(t)
    /\ \E item \in tx[u].past :
         Conflicts(NextItem(t).do, item.do) /\ NextItem(t).of \cap item.of # {}

Begin(s, kind) ==
    /\ ~Running(s)
    /\ tx' = [tx EXCEPT ![s] = Started(kind)]
    /\ UNCHANGED moved

\* The next statement, once the locks it needs are free.
Advance(s) ==
    /\ Running(s) /\ ~Ended(s)
    /\ \A u \in Sessions : ~Blocks(u, s)
    /\ tx' = [tx EXCEPT ![s].past = @ \cup {NextItem(s)}, ![s].rest = Tail(@)]
    /\ UNCHANGED moved

Commit(s) ==
    /\ Ended(s)
    /\ tx' = [tx EXCEPT ![s] = Idle]
    /\ moved' = [t \in Sessions |->
         IF t = s THEN {} ELSE moved[t] \cup (Of(t, "read") \cap Of(s, "write"))]

\* A test fails before anything is written, a statement fails, or the process
\* dies: the transaction ends without effect.
RollBack(s) ==
    /\ Running(s)
    /\ tx' = [tx EXCEPT ![s] = Idle]
    /\ moved' = [moved EXCEPT ![s] = {}]

\* Every member waits for a member; none of them can go on.
Deadlocked(D) == D # {} /\ \A t \in D : \E u \in D : Blocks(u, t)

\* What the process does next when PostgreSQL has chosen its transaction.
AfterAbort(kind) ==
    CASE kind = "project" -> Started("recordFailure")
      [] kind \in {"rate", "rateUnpriced", "rateOverflow"} -> Started("markRetry")
      [] OTHER -> Idle

BreakDeadlock(s) ==
    /\ \E D \in SUBSET Sessions : s \in D /\ Deadlocked(D)
    /\ tx' = [tx EXCEPT ![s] = AfterAbort(@.kind)]
    /\ moved' = [moved EXCEPT ![s] = {}]

Next ==
    \E s \in Sessions :
        \/ \E kind \in Kinds : Begin(s, kind)
        \/ Advance(s) \/ Commit(s) \/ RollBack(s) \/ BreakDeadlock(s)

Spec == Init /\ [][Next]_vars

-----------------------------------------------------------------------------
\* What a finalization has read, of memberships, customers and evidence, is
\* still what is committed when it commits its version, although its reads are
\* several statements.
EvidenceStandsStill == \A s \in Sessions : tx[s].kind = "finalize" => moved[s] = {}

Circle(D) == Deadlocked(D) /\ \A E \in SUBSET D : Deadlocked(E) => E = D

\* PostgreSQL may have to abort a finalization or a ledger transaction that
\* writes against the order of LOCK TABLE, and only because of each other:
\* acceptances, priced ratings, corrections, publications, drafts, revisions
\* and new members or Customers are never a victim, nor are two of the ledger's.
DeadlocksNeedAnApproval ==
    \A D \in SUBSET Sessions : Circle(D) =>
        LET kinds == {tx[s].kind : s \in D}
        IN  /\ "finalize" \in kinds
            /\ kinds \subseteq
                 {"finalize", "claim", "project", "recordFailure", "rateUnpriced", "rateOverflow"}
=============================================================================
