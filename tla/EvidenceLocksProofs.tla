------------------------- MODULE EvidenceLocksProofs -------------------------
(***************************************************************************)
(* A finalization's evidence stands still, for any number of connections.   *)
(* Two facts carry it: what sessions have done never conflicts (Exclusive), *)
(* and a finalization reads nothing before it has shared it (ReadsAreShared,*)
(* a consequence of where in its order it is, InOrder).  The same two say   *)
(* which transactions can be in a deadlock.                                 *)
(***************************************************************************)
EXTENDS EvidenceLocks, TLAPS

\* Locks that two sessions hold at once are compatible.
Exclusive ==
    \A s, t \in Sessions : s # t =>
        \A a \in tx[s].past, b \in tx[t].past : Conflicts(a.do, b.do) => a.of \cap b.of = {}

Statements == [do : {"write", "share", "hold", "read"}, of : SUBSET Items]

\* How far a transaction is: its last Len(rest) statements are left.
Position(kind, past, rest) ==
    LET p == Program[kind]
    IN  /\ rest \in Seq(Statements) /\ Len(rest) <= Len(p)
        /\ \A i \in 1..Len(rest) : rest[i] = p[Len(p) - Len(rest) + i]
        /\ past = {p[i] : i \in 1..(Len(p) - Len(rest))}

InOrder ==
    \A s \in Sessions :
        IF tx[s].kind \in Kinds THEN Position(tx[s].kind, tx[s].past, tx[s].rest) ELSE tx[s].rest = <<>>

Shape ==
    /\ tx \in [Sessions -> [kind : Kinds \cup {"none"}, past : SUBSET Statements, rest : Seq(Statements)]]
    /\ moved \in [Sessions -> SUBSET Items]

\* Nothing has moved for a session that has read nothing.
Quiet == \A s \in Sessions : tx[s].past = {} => moved[s] = {}

IInv == Shape /\ Exclusive /\ InOrder /\ Quiet /\ EvidenceStandsStill

-----------------------------------------------------------------------------
LEMMA ItemsAre ==
  /\ \A T \in Items : Write(T) \in Statements /\ Share(T) \in Statements /\ Hold(T) \in Statements
  /\ \A S \in SUBSET Items : Read(S) \in Statements
  <1>1. \A T \in Items : {T} \in SUBSET Items
    OBVIOUS
  <1>2. \A S \in SUBSET Items, a \in {"write", "share", "hold", "read"} : [do |-> a, of |-> S] \in Statements
    BY Zenon DEF Statements
  <1> QED  BY <1>1, <1>2 DEF Write, Share, Hold, Read

LEMMA FinalizeIsSequence == Finalize \in Seq(Statements) /\ Len(Finalize) = 12
  <1>1. Marks \in SUBSET Items /\ {"UsageEvent"} \in SUBSET Items
        /\ {"Membership", "Customer"} \in SUBSET Items
    BY DEF Marks, Items
  <1>2. \A T \in {"Membership", "Customer", "UsageEvent", "LedgerProcessingIntent", "RatedEvent",
                  "RatingRetry", "RatingFailure", "UnratedEvent", "record"} : T \in Items
    BY DEF Marks, Items
  <1> QED  BY <1>1, <1>2, ItemsAre DEF Finalize

LEMMA ProgramsAreSequences ==
  ASSUME NEW kind \in Kinds
  PROVE  Program[kind] \in Seq(Statements)
  <1>1. \A T \in {"Membership", "Customer", "UsageEvent", "LedgerProcessingIntent", "RatedEvent",
                  "RatingRetry", "RatingFailure", "UnratedEvent", "record", "Organization"} : T \in Items
    BY DEF Marks, Items
  <1>2. \A T \in Items : {T} \in SUBSET Items
    OBVIOUS
  <1>3. /\ Accept \in Seq(Statements) /\ Claim \in Seq(Statements) /\ Project \in Seq(Statements)
        /\ RecordFailure \in Seq(Statements) /\ MarkRetry \in Seq(Statements)
        /\ Join \in Seq(Statements) /\ AddCustomer \in Seq(Statements) /\ Calculate \in Seq(Statements)
    BY <1>1, ItemsAre DEF Accept, Claim, Project, RecordFailure, MarkRetry, Join, AddCustomer, Calculate
  <1>4. \A T \in {"RatedEvent", "RatingFailure", "UnratedEvent"} : Rate(T) \in Seq(Statements)
    BY <1>1, ItemsAre DEF Rate
  <1>5. Correct \in Seq(Statements) /\ Publish \in Seq(Statements) /\ Revise \in Seq(Statements)
    BY <1>1, <1>2, ItemsAre DEF Correct, Publish, Revise
  <1> QED  BY <1>3, <1>4, <1>5, FinalizeIsSequence DEF Kinds, Program

LEMMA Starts ==
  ASSUME NEW kind \in Kinds
  PROVE  Position(kind, {}, Program[kind])
  BY ProgramsAreSequences DEF Position

\* Whatever a finalization has read, it had shared before.
LEMMA ReadsAreShared ==
  ASSUME NEW past, NEW rest, Position("finalize", past, rest),
         NEW item \in past, item.do = "read", NEW T \in item.of
  PROVE  Share(T) \in past
  <1>0. Program["finalize"] = Finalize /\ Len(Finalize) = 12
    BY FinalizeIsSequence DEF Program
  <1>1. PICK i \in 1..(12 - Len(rest)) : item = Finalize[i]
    BY <1>0 DEF Position
  <1>2. i \in 9..12
    <2>1. i \in 1..12
      BY <1>0 DEF Position
    <2> QED  BY <1>1, <2>1 DEF Finalize, Share, Read, Hold
  <1>3. T \in {"Membership", "Customer", "UsageEvent", "LedgerProcessingIntent",
               "RatedEvent", "RatingRetry", "RatingFailure", "UnratedEvent"}
    BY <1>1, <1>2 DEF Finalize, Read, Hold, Marks
  <1>4. \E j \in 1..8 : Finalize[j] = Share(T)
    BY <1>3 DEF Finalize
  <1> QED  BY <1>0, <1>2, <1>4 DEF Position

\* The next statement takes a transaction one position on.
LEMMA PositionMoves ==
  ASSUME NEW kind \in Kinds, NEW past, NEW rest, Position(kind, past, rest), rest # <<>>
  PROVE  Position(kind, past \cup {Head(rest)}, Tail(rest))
  <1> DEFINE p == Program[kind]
             n == Len(rest)
             m == Len(p)
  <1>0. rest \in Seq(Statements) /\ n \in Nat /\ n # 0 /\ m \in Nat /\ n <= m
    BY ProgramsAreSequences DEF Position
  <1>1. /\ Len(Tail(rest)) = n - 1 /\ Head(rest) = rest[1] /\ Tail(rest) \in Seq(Statements)
        /\ \A i \in 1..(n - 1) : Tail(rest)[i] = rest[i + 1]
    BY <1>0
  <1>2. /\ \A i \in 1..n : rest[i] = p[m - n + i]
        /\ past = {p[i] : i \in 1..(m - n)}
    BY DEF Position
  <1> HIDE DEF n, m
  <1>3. Head(rest) = p[m - (n - 1)]
    <2>1. 1 \in 1..n /\ m - n + 1 = m - (n - 1)
      BY <1>0
    <2> QED  BY <1>1, <1>2, <2>1
  <1>4. \A i \in 1..(n - 1) : Tail(rest)[i] = p[m - (n - 1) + i]
    <2> SUFFICES ASSUME NEW i \in 1..(n - 1) PROVE Tail(rest)[i] = p[m - (n - 1) + i]
      OBVIOUS
    <2>1. i + 1 \in 1..n /\ m - n + (i + 1) = m - (n - 1) + i
      BY <1>0
    <2> QED  BY <1>1, <1>2, <2>1
  <1>5. past \cup {Head(rest)} = {p[i] : i \in 1..(m - (n - 1))}
    <2>1. 1..(m - (n - 1)) = 1..(m - n) \cup {m - (n - 1)}
      BY <1>0
    <2> QED  BY <1>2, <1>3, <2>1
  <1>6. n - 1 <= m
    BY <1>0
  <1> QED  BY <1>1, <1>4, <1>5, <1>6 DEF Position, n, m

LEMMA FollowUps ==
  ASSUME NEW kind
  PROVE  \/ AfterAbort(kind) = Idle
         \/ \E k \in Kinds \ {"finalize"} : AfterAbort(kind) = Started(k)
  BY DEF AfterAbort, Kinds, Program

-----------------------------------------------------------------------------
LEMMA InitOK == Init => IInv
  <1>1. "none" \notin Kinds
    BY DEF Kinds, Program
  <1> QED  BY <1>1 DEF Init, IInv, Shape, Exclusive, InOrder, Quiet, EvidenceStandsStill, Idle

\* A session that begins, ends or is aborted holds nothing.
LEMMA RestartOK ==
  ASSUME IInv, NEW s \in Sessions, NEW new,
         new = Idle \/ \E k \in Kinds : new = Started(k),
         tx' = [tx EXCEPT ![s] = new],
         moved' = [moved EXCEPT ![s] = {}]
  PROVE  IInv'
  <1> USE DEF IInv
  <1>1. /\ new \in [kind : Kinds \cup {"none"}, past : SUBSET Statements, rest : Seq(Statements)]
        /\ new.past = {}
    <2>1. CASE new = Idle
      BY <2>1 DEF Idle
    <2>2. ASSUME NEW k \in Kinds, new = Started(k)
          PROVE  new \in [kind : Kinds \cup {"none"}, past : SUBSET Statements, rest : Seq(Statements)]
                 /\ new.past = {}
      BY <2>2, ProgramsAreSequences DEF Started
    <2> QED  BY <2>1, <2>2
  <1>2. IF new.kind \in Kinds THEN Position(new.kind, new.past, new.rest) ELSE new.rest = <<>>
    <2>1. CASE new = Idle
      <3>1. "none" \notin Kinds
        BY DEF Kinds, Program
      <3> QED  BY <2>1, <3>1 DEF Idle
    <2>2. ASSUME NEW k \in Kinds, new = Started(k)
          PROVE  new.kind \in Kinds /\ Position(new.kind, new.past, new.rest)
      BY <2>2, Starts DEF Started
    <2> QED  BY <2>1, <2>2
  <1>3. Shape'
    BY <1>1 DEF Shape
  <1>4. Exclusive'
    BY <1>1 DEF Shape, Exclusive
  <1>5. InOrder'
    BY <1>2 DEF Shape, InOrder
  <1>6. Quiet' /\ EvidenceStandsStill'
    BY DEF Shape, Quiet, EvidenceStandsStill
  <1> QED  BY <1>3, <1>4, <1>5, <1>6

\* A statement that nobody blocks keeps the locks compatible.
LEMMA AdvanceOK ==
  ASSUME IInv, NEW s \in Sessions, Advance(s)
  PROVE  IInv'
  <1> USE DEF IInv
  <1> DEFINE item == NextItem(s)
  <1>1. /\ tx[s] \in [kind : Kinds \cup {"none"}, past : SUBSET Statements, rest : Seq(Statements)]
        /\ tx[s].rest # <<>>
    BY DEF Advance, Running, Ended, Shape
  <1>2. item \in Statements /\ Tail(tx[s].rest) \in Seq(Statements)
    BY <1>1 DEF NextItem
  <1>3. tx' = [tx EXCEPT ![s] = [kind |-> tx[s].kind, past |-> tx[s].past \cup {item},
                                 rest |-> Tail(tx[s].rest)]]
    BY <1>1 DEF Advance, Shape
  <1>4. moved' = moved
    BY DEF Advance
  <1> HIDE DEF item
  <1>5. Shape'
    BY <1>1, <1>2, <1>3, <1>4 DEF Shape
  <1>6. \A u \in Sessions \ {s} : \A b \in tx[u].past :
          Conflicts(item.do, b.do) => item.of \cap b.of = {}
    BY <1>1 DEF Advance, Blocks, Running, Ended, item
  <1>7. \A a, b : Conflicts(a, b) <=> Conflicts(b, a)
    BY DEF Conflicts
  <1>8. Exclusive'
    <2> SUFFICES ASSUME NEW t \in Sessions, NEW u \in Sessions, t # u,
                        NEW a \in tx'[t].past, NEW b \in tx'[u].past, Conflicts(a.do, b.do)
                 PROVE  a.of \cap b.of = {}
      BY DEF Exclusive
    <2>1. tx'[s].past = tx[s].past \cup {item} /\ \A v \in Sessions \ {s} : tx'[v] = tx[v]
      BY <1>3 DEF Shape
    <2>2. CASE t = s /\ a = item
      BY <1>6, <2>1, <2>2
    <2>3. CASE u = s /\ b = item
      BY <1>6, <1>7, <2>1, <2>3
    <2>4. CASE a \in tx[t].past /\ b \in tx[u].past
      BY <2>4 DEF Exclusive
    <2> QED  BY <2>1, <2>2, <2>3, <2>4
  <1>9. InOrder'
    <2>1. tx[s].kind \in Kinds /\ Position(tx[s].kind, tx[s].past \cup {item}, Tail(tx[s].rest))
      BY <1>1, PositionMoves DEF InOrder, NextItem, item
    <2>2. /\ tx'[s].kind = tx[s].kind /\ tx'[s].past = tx[s].past \cup {item}
          /\ tx'[s].rest = Tail(tx[s].rest) /\ \A v \in Sessions \ {s} : tx'[v] = tx[v]
      BY <1>3 DEF Shape
    <2> QED  BY <2>1, <2>2 DEF InOrder
  <1>10. Quiet' /\ EvidenceStandsStill'
    BY <1>3, <1>4 DEF Shape, Quiet, EvidenceStandsStill
  <1> QED  BY <1>5, <1>8, <1>9, <1>10

\* No commit changes what a finalization has read: the finalization shares it,
\* and who writes it would conflict.
LEMMA CommitOK ==
  ASSUME IInv, NEW s \in Sessions, Commit(s)
  PROVE  IInv'
  <1> USE DEF IInv
  <1>1. tx' = [tx EXCEPT ![s] = Idle]
    BY DEF Commit
  <1>2. \A t \in Sessions : moved'[t] =
          IF t = s THEN {} ELSE moved[t] \cup (Of(t, "read") \cap Of(s, "write"))
    BY DEF Commit
  <1>3. \A t \in Sessions \ {s} : tx[t].kind = "finalize" => Of(t, "read") \cap Of(s, "write") = {}
    <2> SUFFICES ASSUME NEW t \in Sessions \ {s}, tx[t].kind = "finalize",
                        NEW T, T \in Of(t, "read"), T \in Of(s, "write")
                 PROVE  FALSE
      OBVIOUS
    <2>1. PICK a \in tx[t].past : a.do = "read" /\ T \in a.of
      BY DEF Of
    <2>2. PICK b \in tx[s].past : b.do = "write" /\ T \in b.of
      BY DEF Of
    <2>3. Share(T) \in tx[t].past
      <3>1. "finalize" \in Kinds
        BY DEF Kinds, Program
      <3> QED  BY <2>1, <3>1, ReadsAreShared DEF InOrder
    <2>4. Conflicts(Share(T).do, b.do) /\ T \in Share(T).of \cap b.of
      BY <2>2 DEF Share, Conflicts
    <2> QED  BY <2>2, <2>3, <2>4 DEF Exclusive
  <1>4. \A t \in Sessions : Of(t, "read") \subseteq Items
    BY DEF Of, Shape, Statements
  <1>5. Shape'
    <2>1. Idle \in [kind : Kinds \cup {"none"}, past : SUBSET Statements, rest : Seq(Statements)]
      BY DEF Idle
    <2>2. moved' \in [Sessions -> SUBSET Items]
      BY <1>4 DEF Commit, Shape
    <2> QED  BY <1>1, <2>1, <2>2 DEF Shape
  <1>6. Exclusive' /\ InOrder'
    <2>1. "none" \notin Kinds
      BY DEF Kinds, Program
    <2> QED  BY <1>1, <2>1 DEF Shape, Exclusive, InOrder, Idle
  <1>7. Quiet'
    <2> SUFFICES ASSUME NEW t \in Sessions, tx'[t].past = {} PROVE moved'[t] = {}
      BY DEF Quiet
    <2>1. CASE t = s
      BY <1>2, <2>1
    <2>2. CASE t # s
      <3>1. tx[t].past = {} /\ moved[t] = {}
        BY <1>1, <2>2 DEF Shape, Quiet
      <3>2. Of(t, "read") = {}
        BY <3>1 DEF Of
      <3> QED  BY <1>2, <2>2, <3>1, <3>2
    <2> QED  BY <2>1, <2>2
  <1>8. EvidenceStandsStill'
    BY <1>1, <1>2, <1>3 DEF Shape, EvidenceStandsStill, Idle
  <1> QED  BY <1>5, <1>6, <1>7, <1>8

LEMMA NextOK == IInv /\ [Next]_vars => IInv'
  <1> SUFFICES ASSUME IInv, [Next]_vars PROVE IInv'
    OBVIOUS
  <1>1. ASSUME NEW s \in Sessions, NEW kind \in Kinds, Begin(s, kind) PROVE IInv'
    <2>1. moved' = [moved EXCEPT ![s] = {}]
      BY <1>1 DEF Begin, Running, Idle, IInv, Quiet, Shape
    <2> QED  BY <1>1, <2>1, RestartOK DEF Begin
  <1>2. ASSUME NEW s \in Sessions, Advance(s) PROVE IInv'
    BY <1>2, AdvanceOK
  <1>3. ASSUME NEW s \in Sessions, Commit(s) PROVE IInv'
    BY <1>3, CommitOK
  <1>4. ASSUME NEW s \in Sessions, RollBack(s) PROVE IInv'
    BY <1>4, RestartOK DEF RollBack
  <1>5. ASSUME NEW s \in Sessions, BreakDeadlock(s) PROVE IInv'
    <2>1. tx' = [tx EXCEPT ![s] = AfterAbort(tx[s].kind)]
      BY <1>5 DEF BreakDeadlock, IInv, Shape
    <2> QED  BY <1>5, <2>1, FollowUps, RestartOK DEF BreakDeadlock
  <1>6. CASE UNCHANGED vars
    BY <1>6 DEF vars, IInv, Shape, Exclusive, InOrder, Quiet, EvidenceStandsStill, Of
  <1> QED  BY <1>1, <1>2, <1>3, <1>4, <1>5, <1>6 DEF Next

\* The inductive invariant, for any number of connections: held locks are
\* compatible and finalizations follow the order of the code.
THEOREM InvariantHolds == Spec => []IInv
  BY InitOK, NextOK, PTL DEF Spec

\* The approval's reads are one instant (lib/billing-record-finalization.ts:13):
\* nothing it has read changes before it commits, however many workers run.
THEOREM ApprovalsReadOneInstant == Spec => []EvidenceStandsStill
  <1>1. IInv => EvidenceStandsStill
    BY DEF IInv
  <1> QED  BY <1>1, InvariantHolds, PTL

-----------------------------------------------------------------------------
(* Deadlocks.                                                               *)

Ledger == {"claim", "project", "recordFailure"}
Ratings == {"rate", "rateUnpriced", "rateOverflow"}
Outcome(kind) ==
    CASE kind = "rate" -> "RatedEvent" [] kind = "rateUnpriced" -> "UnratedEvent" [] OTHER -> "RatingFailure"

\* What a transaction may wait for while it holds something, and what it holds.
MayWait(kind, past, item) ==
    \/ /\ kind = "finalize"
       /\ \A a \in past : a.do = "read" \/ \E T \in Items : a = Share(T)
       /\ item = Hold("record") \/ \E T \in Items : item = Share(T)
       /\ Share("LedgerProcessingIntent") \in past => Share("UsageEvent") \in past
       /\ Share("RatingRetry") \in past => Share("RatedEvent") \in past
    \/ /\ kind = "revise"
       /\ \A a \in past : /\ a.do \in {"share", "read"}
                          /\ a.do = "share" => a.of \subseteq {"Membership", "Customer"}
       /\ item \in {Hold("record"), Share("Customer")}
    \/ kind = "accept" /\ past = {Write("UsageEvent")} /\ item = Write("LedgerProcessingIntent")
    \/ kind \in Ledger /\ past = {Write("LedgerProcessingIntent")} /\ item = Write("UsageEvent")
    \/ kind \in Ratings /\ past = {Hold("Organization")} /\ item = Write(Outcome(kind))
    \/ /\ kind \in Ratings /\ item = Write("RatingRetry")
       /\ past = {Hold("Organization"), Write(Outcome(kind))}
    \/ /\ kind = "correct" /\ item = Write("RatedEvent")
       /\ past = {Hold("Organization"), Read({"UsageEvent"})}

Underway(kind, past, rest) ==
    \E d \in 1..(Len(Program[kind]) - 1) :
        Head(rest) = Program[kind][d + 1] /\ past = {Program[kind][i] : i \in 1..d}

LEMMA AtItsItem ==
  ASSUME NEW kind \in Kinds, NEW past, NEW rest, Position(kind, past, rest), past # {}, rest # <<>>
  PROVE  Underway(kind, past, rest)
  <1> DEFINE p == Program[kind]
             n == Len(rest)
             m == Len(p)
  <1>1. rest \in Seq(Statements) /\ n \in Nat /\ n # 0 /\ m \in Nat /\ n <= m
    BY ProgramsAreSequences DEF Position
  <1>2. Head(rest) = rest[1]
    BY <1>1
  <1>3. /\ \A i \in 1..n : rest[i] = p[m - n + i]
        /\ past = {p[i] : i \in 1..(m - n)}
    BY DEF Position
  <1> HIDE DEF n, m
  <1>4. m - n # 0
    <2>1. CASE m - n = 0
      <3>1. 1..(m - n) = {}
        BY <2>1
      <3> QED  BY <1>3, <3>1
    <2> QED  BY <2>1
  <1>5. m - n \in 1..(m - 1) /\ 1 \in 1..n
    BY <1>1, <1>4
  <1>6. Head(rest) = p[(m - n) + 1]
    BY <1>2, <1>3, <1>5
  <1> QED  BY <1>3, <1>5, <1>6 DEF m, Underway

LEMMA WhatTheyWaitFor ==
  ASSUME NEW kind \in Kinds, NEW past, NEW rest, Position(kind, past, rest),
         past # {}, rest # <<>>, Head(rest).do # "read"
  PROVE  MayWait(kind, past, Head(rest))
  <1> DEFINE p == Program[kind]
  <1>1. PICK d \in 1..(Len(p) - 1) : Head(rest) = p[d + 1] /\ past = {p[i] : i \in 1..d}
    <2>1. Underway(kind, past, rest)
      BY AtItsItem
    <2> QED  BY <2>1 DEF Underway
  <1>0. /\ Hold("record").do = "hold" /\ \A S : Read(S).do = "read"
        /\ \A T : Write(T).do = "write" /\ Share(T).do = "share" /\ Share(T).of = {T}
    BY DEF Hold, Read, Write, Share
  <1> HIDE DEF p
  <1>2. CASE kind = "finalize"
    <2>1. /\ p = Finalize /\ Len(p) = 12
          /\ p[9] = Read({"Membership", "Customer"}) /\ p[10] = Hold("record")
          /\ p[11] = Read({"UsageEvent"}) /\ p[12] = Read(Marks)
      BY <1>2, FinalizeIsSequence DEF Program, Finalize, p
    <2>2. d \in 1..7 \/ d = 9
      <3>1. d \in 1..11
        BY <1>1, <2>1
      <3>2. d + 1 \notin {9, 11, 12}
        BY <1>0, <1>1, <2>1
      <3> QED  BY <3>1, <3>2
    <2>3. \A i \in 1..8 : \E T \in Items : p[i] = Share(T)
      BY <2>1 DEF Finalize, Items, Marks
    <2>4. \A i \in 1..9 : p[i].do = "read" \/ \E T \in Items : p[i] = Share(T)
      <3>1. p[9].do = "read"
        BY <1>0, <2>1
      <3> QED  BY <2>3, <3>1
    <2>5. /\ p[3] = Share("UsageEvent") /\ p[5] = Share("RatedEvent")
          /\ \A i \in 1..9 : /\ p[i] = Share("LedgerProcessingIntent") => i >= 4
                             /\ p[i] = Share("RatingRetry") => i >= 6
      <3>1. /\ p[1].of = {"Membership"} /\ p[2].of = {"Customer"} /\ p[3].of = {"UsageEvent"}
            /\ p[4].of = {"LedgerProcessingIntent"} /\ p[5].of = {"RatedEvent"}
        BY <1>0, <2>1 DEF Finalize
      <3>2. p[9].do # "share"
        BY <1>0, <2>1
      <3>3. /\ Share("LedgerProcessingIntent").of = {"LedgerProcessingIntent"} /\ Share("RatingRetry").of = {"RatingRetry"}
            /\ Share("LedgerProcessingIntent").do = "share" /\ Share("RatingRetry").do = "share"
        BY <1>0
      <3>4. p[3] = Share("UsageEvent") /\ p[5] = Share("RatedEvent")
        BY <2>1 DEF Finalize
      <3>5. ASSUME NEW i \in 1..9 PROVE (p[i] = Share("LedgerProcessingIntent") => i >= 4) /\ (p[i] = Share("RatingRetry") => i >= 6)
        <4>1. (i < 4 => i \in {1, 2, 3}) /\ (i < 6 => i \in {1, 2, 3, 4, 5})
          OBVIOUS
        <4>2. \A S, T : {S} = {T} => S = T
          OBVIOUS
        <4>3. ASSUME p[i] = Share("LedgerProcessingIntent") PROVE i >= 4
          <5>1. CASE i < 4
            <6>1. p[i].of # {"LedgerProcessingIntent"}
              BY <3>1, <4>1, <4>2, <5>1
            <6> QED  BY <3>3, <4>3, <6>1
          <5> QED  BY <5>1
        <4>4. ASSUME p[i] = Share("RatingRetry") PROVE i >= 6
          <5>1. CASE i < 6
            <6>1. p[i].of # {"RatingRetry"}
              BY <3>1, <4>1, <4>2, <5>1
            <6> QED  BY <3>3, <4>4, <6>1
          <5> QED  BY <5>1
        <4> QED  BY <4>3, <4>4
      <3> QED  BY <3>4, <3>5
    <2>6. Head(rest) = Hold("record") \/ \E T \in Items : Head(rest) = Share(T)
      BY <1>1, <2>1, <2>2, <2>3
    <2>7. \A a \in past : \E i \in 1..d : a = p[i] /\ i \in 1..9
      BY <1>1, <2>2
    <2>8. Share("LedgerProcessingIntent") \in past => Share("UsageEvent") \in past
      <3> SUFFICES ASSUME Share("LedgerProcessingIntent") \in past PROVE Share("UsageEvent") \in past
        OBVIOUS
      <3>1. PICK i \in 1..d : p[i] = Share("LedgerProcessingIntent") /\ i \in 1..9
        BY <2>7
      <3>2. i >= 4
        BY <2>5, <3>1
      <3>3. 3 \in 1..d
        BY <3>2
      <3> QED  BY <1>1, <2>5, <3>3
    <2>9. Share("RatingRetry") \in past => Share("RatedEvent") \in past
      <3> SUFFICES ASSUME Share("RatingRetry") \in past PROVE Share("RatedEvent") \in past
        OBVIOUS
      <3>1. PICK i \in 1..d : p[i] = Share("RatingRetry") /\ i \in 1..9
        BY <2>7
      <3>2. i >= 6
        BY <2>5, <3>1
      <3>3. 5 \in 1..d
        BY <3>2
      <3> QED  BY <1>1, <2>5, <3>3
    <2> QED  BY <1>2, <2>4, <2>6, <2>7, <2>8, <2>9 DEF MayWait
  <1>3. CASE kind = "revise"
    <2>1. p = <<Share("Membership"), Share("Customer"), Read({"Membership"}), Hold("record")>>
      BY <1>3 DEF Program, Revise, p
    <2>2. d \in {1, 3}
      <3>1. d \in 1..3
        BY <1>1, <2>1
      <3> QED  BY <1>0, <1>1, <2>1, <3>1
    <2>3. \A a \in past : a \in {Share("Membership"), Share("Customer"), Read({"Membership"})}
      BY <1>1, <2>1, <2>2
    <2>4. Head(rest) \in {Hold("record"), Share("Customer")}
      BY <1>1, <2>1, <2>2
    <2>5. \A a \in past : a.do \in {"share", "read"} /\ (a.do = "share" => a.of \subseteq {"Membership", "Customer"})
      BY <1>0, <2>3
    <2> QED  BY <1>3, <2>4, <2>5 DEF MayWait
  <1>4. CASE kind = "accept"
    <2>1. p = <<Write("UsageEvent"), Write("LedgerProcessingIntent")>>
      BY <1>4 DEF Program, Accept, p
    <2>2. d = 1 /\ Head(rest) = p[2] /\ past = {p[1]}
      BY <1>1, <2>1
    <2> QED  BY <1>4, <2>1, <2>2 DEF MayWait
  <1>5. CASE kind \in Ledger
    <2>1. p = <<Write("LedgerProcessingIntent"), Write("UsageEvent")>>
      BY <1>5 DEF Ledger, Program, Claim, Project, RecordFailure, p
    <2>2. d = 1 /\ Head(rest) = p[2] /\ past = {p[1]}
      BY <1>1, <2>1
    <2> QED  BY <1>5, <2>1, <2>2 DEF MayWait
  <1>6. CASE kind \in Ratings
    <2>1. p = <<Hold("Organization"), Write(Outcome(kind)), Write("RatingRetry")>>
      BY <1>6 DEF Ratings, Outcome, Program, Rate, p
    <2>2. d \in 1..2
      BY <1>1, <2>1
    <2>3. CASE d = 1
      <3>1. Head(rest) = p[2] /\ past = {p[1]}
        BY <1>1, <2>3
      <3> QED  BY <1>6, <2>1, <3>1 DEF MayWait
    <2>4. CASE d = 2
      <3>1. Head(rest) = p[3] /\ past = {p[1], p[2]}
        BY <1>1, <2>4
      <3> QED  BY <1>6, <2>1, <3>1 DEF MayWait
    <2> QED  BY <2>2, <2>3, <2>4
  <1>7. CASE kind = "correct"
    <2>1. p = <<Hold("Organization"), Read({"UsageEvent"}), Write("RatedEvent")>>
      BY <1>7 DEF Program, Correct, p
    <2>2. d = 2
      <3>1. d \in 1..2
        BY <1>1, <2>1
      <3> QED  BY <1>0, <1>1, <2>1, <3>1
    <2>3. Head(rest) = p[3] /\ past = {p[1], p[2]}
      BY <1>1, <2>2
    <2> QED  BY <1>7, <2>1, <2>3 DEF MayWait
  <1>8. CASE kind \in {"calculate", "markRetry", "join", "addCustomer", "publish"}
    <2>1. Len(p) \in 1..2 /\ (Len(p) = 2 => p[2].do = "read")
      BY <1>0, <1>8 DEF Program, Calculate, MarkRetry, Join, AddCustomer, Publish, p
    <2> QED  BY <1>1, <2>1
  <1>9. kind \in {"finalize", "revise", "accept", "correct"} \cup Ledger \cup Ratings
                   \cup {"calculate", "markRetry", "join", "addCustomer", "publish"}
    BY DEF Kinds, Program, Ledger, Ratings
  <1> QED  BY <1>2, <1>3, <1>4, <1>5, <1>6, <1>7, <1>8, <1>9

\* In a circle every member waits for a member and is waited for by one.
LEMMA CirclesTurn ==
  ASSUME NEW D \in SUBSET Sessions, Circle(D), NEW t \in D
  PROVE  (\E u \in D : Blocks(u, t)) /\ (\E u \in D : Blocks(t, u))
  <1>1. PICK u \in D : Blocks(u, t)
    BY DEF Circle, Deadlocked
  <1>2. u # t
    BY <1>1 DEF Blocks
  <1>3. ASSUME \A v \in D : ~Blocks(t, v) PROVE FALSE
    <2>1. Deadlocked(D \ {t})
      BY <1>2, <1>3 DEF Circle, Deadlocked
    <2>2. D \ {t} \in SUBSET D /\ D \ {t} # D
      OBVIOUS
    <2> QED  BY <2>1, <2>2 DEF Circle
  <1> QED  BY <1>1, <1>3

Meets(item, past) == \E a \in past : Conflicts(item.do, a.do) /\ item.of \cap a.of # {}

\* Who waits in a circle holds something, and whom it waits for waits too.
LEMMA MembersWait ==
  ASSUME IInv, NEW D \in SUBSET Sessions, Circle(D), NEW t \in D
  PROVE  /\ MayWait(tx[t].kind, tx[t].past, NextItem(t))
         /\ \E u \in D : u # t /\ Meets(NextItem(t), tx[u].past)
         /\ \E u \in D : u # t /\ Meets(NextItem(u), tx[t].past)
  <1>1. PICK u \in D : Blocks(u, t)
    BY CirclesTurn
  <1>2. PICK v \in D : Blocks(t, v)
    BY CirclesTurn
  <1>3. t \in Sessions /\ tx[t].past # {} /\ tx[t].rest # <<>> /\ tx[t] # Idle
    BY <1>1, <1>2 DEF Blocks, Ended, Running
  <1>4. NextItem(t).do # "read"
    BY <1>1 DEF Blocks, Conflicts
  <1>5. tx[t].kind \in Kinds
    BY <1>3 DEF IInv, InOrder
  <1>6. MayWait(tx[t].kind, tx[t].past, NextItem(t))
    BY <1>3, <1>4, <1>5, WhatTheyWaitFor DEF IInv, InOrder, NextItem
  <1> QED  BY <1>1, <1>2, <1>6 DEF Blocks, Meets

LEMMA OnlyAgainstApprovals ==
  ASSUME IInv PROVE DeadlocksNeedAnApproval
  <1> SUFFICES ASSUME NEW D \in SUBSET Sessions, Circle(D)
      PROVE  /\ \E s \in D : tx[s].kind = "finalize"
             /\ \A s \in D : tx[s].kind \in
                  {"finalize", "claim", "project", "recordFailure", "rateUnpriced", "rateOverflow"}
    BY DEF DeadlocksNeedAnApproval
  <1> DEFINE item(t) == NextItem(t)
             past(t) == tx[t].past
             kind(t) == tx[t].kind
  <1>1. ASSUME NEW t \in D
        PROVE  /\ MayWait(kind(t), past(t), item(t))
               /\ \E u \in D : u # t /\ Meets(item(t), past(u))
               /\ \E u \in D : u # t /\ Meets(item(u), past(t))
    BY MembersWait
  <1>3. ASSUME NEW t \in D, NEW u \in D, t # u, NEW a \in past(t), NEW b \in past(u), Conflicts(a.do, b.do)
        PROVE  a.of \cap b.of = {}
    BY <1>3 DEF IInv, Exclusive
  <1> HIDE DEF item, past, kind
  <1>2. \A a, b : Conflicts(a, b) <=>
                  \/ (a = "write" /\ b = "share") \/ (a = "share" /\ b = "write")
                  \/ (a = "hold" /\ b = "hold")
    <2>1. \A a, b : {a, b} = {"write", "share"} <=> ((a = "write" /\ b = "share") \/ (a = "share" /\ b = "write"))
      <3> SUFFICES ASSUME NEW a, NEW b, {a, b} = {"write", "share"}
                   PROVE  (a = "write" /\ b = "share") \/ (a = "share" /\ b = "write")
        OBVIOUS
      <3>1. a \in {"write", "share"} /\ b \in {"write", "share"} /\ "write" \in {a, b} /\ "share" \in {a, b}
        OBVIOUS
      <3> QED  BY <3>1
    <2>2. \A a, b : {a, b} = {"hold"} <=> a = "hold" /\ b = "hold"
      OBVIOUS
    <2>3. \A a, b : Conflicts(a, b) <=> {a, b} = {"write", "share"} \/ {a, b} = {"hold"}
      BY Zenon DEF Conflicts
    <2> QED  BY <2>1, <2>2, <2>3
  <1>0. /\ \A T : Write(T).do = "write" /\ Write(T).of = {T}
        /\ \A T : Share(T).do = "share" /\ Share(T).of = {T}
        /\ \A T : Hold(T).do = "hold" /\ Hold(T).of = {T}
        /\ \A S : Read(S).do = "read"
    BY DEF Write, Share, Hold, Read
  \* Nobody in a circle waits for a row or an advisory lock: who holds one does
  \* not wait for a lock of that kind, and the Organization's is taken first.
  <1>8. ASSUME NEW t \in D PROVE item(t).do # "hold"
    <2> SUFFICES ASSUME item(t).do = "hold" PROVE FALSE
      OBVIOUS
    <2>0. MayWait(kind(t), past(t), item(t))
      BY <1>1
    <2>1. item(t) = Hold("record")
      BY <1>0, <2>0 DEF MayWait
    <2>2. PICK u \in D : Meets(item(t), past(u))
      BY <1>1
    <2>3. PICK a \in past(u) : a.do = "hold" /\ "record" \in a.of
      BY <1>0, <1>2, <2>1, <2>2 DEF Meets
    <2>4. a # Hold("Organization")
      BY <1>0, <2>3
    <2>5. MayWait(kind(u), past(u), item(u))
      BY <1>1
    <2>6. a.do \notin {"share", "read", "write"}
      BY <2>3
    <2> QED  BY <1>0, <2>3, <2>4, <2>5, <2>6 DEF MayWait
  <1>4. ASSUME NEW t \in D
        PROVE  \E u \in D, a \in past(t) : u # t /\ a.do \in {"write", "share"} /\ Conflicts(item(u).do, a.do)
    <2>1. PICK u \in D : u # t /\ Meets(item(u), past(t))
      BY <1>1
    <2>2. PICK a \in past(t) : Conflicts(item(u).do, a.do)
      BY <2>1 DEF Meets
    <2> QED  BY <1>2, <1>8, <2>1, <2>2
  \* Only a finalization or a revision shares, and whose write meets a share
  \* meets a finalization's.
  <1>5. ASSUME NEW t \in D, item(t).do = "write"
        PROVE  \E u \in D : /\ u # t /\ MayWait(kind(u), past(u), item(u)) /\ kind(u) \in {"finalize", "revise"}
                            /\ \E a \in past(u) : a.do = "share" /\ item(t).of \cap a.of # {}
    <2>1. PICK u \in D : u # t /\ Meets(item(t), past(u))
      BY <1>1
    <2>2. PICK a \in past(u) : a.do = "share" /\ item(t).of \cap a.of # {}
      BY <1>2, <1>5, <2>1 DEF Meets
    <2>3. MayWait(kind(u), past(u), item(u))
      BY <1>1
    <2>4. kind(u) \in {"finalize", "revise"}
      BY <1>0, <2>2, <2>3 DEF MayWait
    <2> QED  BY <2>1, <2>2, <2>3, <2>4
  <1>6. ASSUME NEW t \in D PROVE kind(t) # "revise"
    <2> SUFFICES ASSUME kind(t) = "revise" PROVE FALSE
      OBVIOUS
    <2>1. item(t) = Share("Customer")
      <3>1. MayWait(kind(t), past(t), item(t)) /\ item(t).do # "hold"
        BY <1>1, <1>8
      <3> QED  BY <1>0, <3>1 DEF MayWait, Ledger, Ratings
    <2>2. PICK u \in D : Meets(item(t), past(u))
      BY <1>1
    <2>3. PICK a \in past(u) : a.do = "write" /\ "Customer" \in a.of
      BY <1>0, <1>2, <2>1, <2>2 DEF Meets
    <2>4. MayWait(kind(u), past(u), item(u))
      BY <1>1
    <2> QED  BY <1>0, <2>3, <2>4 DEF MayWait, Outcome
  \* A finalization that shares T has shared S, when T is the second of a pair.
  <1>7. ASSUME NEW t \in D, NEW T, item(t) = Write(T), NEW S,
               <<T, S>> \in {<<"LedgerProcessingIntent", "UsageEvent">>, <<"RatingRetry", "RatedEvent">>}
        PROVE  Write(S) \notin past(t)
    <2> SUFFICES ASSUME Write(S) \in past(t) PROVE FALSE
      OBVIOUS
    <2>1. PICK u \in D : /\ u # t /\ MayWait(kind(u), past(u), item(u)) /\ kind(u) = "finalize"
                        /\ \E a \in past(u) : a.do = "share" /\ T \in a.of
      BY <1>0, <1>5, <1>6, <1>7
    <2>2. Share(T) \in past(u)
      BY <1>0, <2>1 DEF MayWait, Ledger, Ratings
    <2>3. Share(S) \in past(u)
      BY <1>7, <2>1, <2>2 DEF MayWait, Ledger, Ratings
    <2>4. Conflicts(Write(S).do, Share(S).do) /\ Write(S).of \cap Share(S).of # {}
      BY <1>0, <1>2
    <2> QED  BY <1>3, <2>1, <2>3, <2>4
  <1>9. ASSUME NEW t \in D
        PROVE  \/ kind(t) = "finalize"
               \/ kind(t) \in Ledger \cup {"rateUnpriced", "rateOverflow"} /\ item(t).do = "write"
    <2>1. MayWait(kind(t), past(t), item(t))
      BY <1>1
    <2>2. \E a \in past(t) : a.do \in {"write", "share"}
      BY <1>4
    <2>3. CASE kind(t) = "accept"
      <3>1. Write("UsageEvent") \in past(t) /\ item(t) = Write("LedgerProcessingIntent")
        BY <2>1, <2>3 DEF MayWait, Ledger, Ratings
      <3> QED  BY <1>7, <3>1
    <2>4. CASE kind(t) \in Ratings
      <3>1. Write(Outcome(kind(t))) \in past(t) /\ item(t) = Write("RatingRetry")
        BY <1>0, <2>1, <2>2, <2>4 DEF MayWait, Ledger, Ratings
      <3>2. kind(t) # "rate"
        BY <1>7, <3>1 DEF Outcome
      <3> QED  BY <1>0, <2>4, <3>1, <3>2 DEF Ratings
    <2>5. CASE kind(t) = "correct"
      BY <1>0, <2>1, <2>2, <2>5 DEF MayWait, Ledger, Ratings
    <2>6. CASE kind(t) \in Ledger
      BY <1>0, <2>1, <2>6 DEF MayWait, Ledger, Ratings
    <2> QED  BY <1>6, <2>1, <2>3, <2>4, <2>5, <2>6 DEF MayWait
  <1>10. \E t \in D : kind(t) = "finalize"
    <2>1. PICK t \in D : TRUE
      BY DEF Circle, Deadlocked
    <2>2. CASE item(t).do = "write"
      BY <1>5, <1>6, <2>2
    <2> QED  BY <1>9, <2>1, <2>2
  <1> QED  BY <1>9, <1>10 DEF kind, Ledger

\* What PostgreSQL may abort to break a deadlock, for any number of connections:
\* finalizations (lib/billing-record-finalization.ts:13) and the ledger's
\* transactions that write against the order of its LOCK TABLE, never others.
THEOREM DeadlocksAreTheApprovals == Spec => []DeadlocksNeedAnApproval
  BY OnlyAgainstApprovals, InvariantHolds, PTL
=============================================================================
