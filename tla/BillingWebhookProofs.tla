------------------------- MODULE BillingWebhookProofs -------------------------
(***************************************************************************)
(* Proofs about BillingWebhookDelivery for every number of endpoints, runs, *)
(* workers, owners, keys, attempts, cycles and faults.                      *)
(***************************************************************************)
EXTENDS BillingWebhookDelivery, FiniteSetTheorems, TLAPS

-----------------------------------------------------------------------------
(* Work rows                                                                *)

\* What holds of every work row: AttemptsAccounted and UnsettledCanMove of it.
RowOK(row) ==
    /\ row.attempt = row.failed + IF row.completed \/ row.token # NoToken THEN 1 ELSE 0
    /\ row.token = NoToken <=> row.lease = "none"
    /\ row.completed \/ row.terminal => row.token = NoToken
    /\ (row.token = NoToken /\ ~ row.completed)
          => (row.terminal <=> row.attempt = MaxAttempts)

\* A claim that was read is the row's last one or an earlier one.
Seen(old, row) ==
    /\ old.token # NoToken /\ old.attempt >= 1
    /\ \/ old.cycle < row.cycle
       \/ old.cycle = row.cycle /\ old.attempt < row.attempt
       \/ /\ old.cycle = row.cycle /\ old.attempt = row.attempt
          /\ row.token \in {old.token, NoToken}

\* What a reconciliation and a replay are about to write over a row.
Releases(new, row) ==
    /\ row.token # NoToken
    /\ new.cycle = row.cycle /\ new.attempt = row.attempt /\ new.failed = row.failed + 1
    /\ new.token = NoToken /\ new.lease = "none" /\ ~ new.completed
    /\ new.terminal <=> new.attempt >= MaxAttempts

Reopens(new, row) ==
    /\ row.terminal /\ ~ row.completed
    /\ new.cycle = row.cycle + 1 /\ new.attempt = 0 /\ new.failed = 0
    /\ new.token = NoToken /\ new.lease = "none" /\ ~ new.completed /\ ~ new.terminal

Reserved(new, row, w) ==
    /\ new.cycle = row.cycle /\ new.attempt = row.attempt + 1 /\ new.failed = row.failed
    /\ new.token = w /\ new.lease = "live" /\ ~ new.completed /\ ~ new.terminal

Settles(new, row, res) ==
    /\ new.cycle = row.cycle /\ new.attempt = row.attempt
    /\ new.failed = IF res = "FAILED" THEN row.failed + 1 ELSE row.failed
    /\ new.token = NoToken /\ new.lease = "none"
    /\ new.completed <=> res # "FAILED"
    /\ new.terminal <=> res = "SKIPPED" \/ (res = "FAILED" /\ row.attempt >= MaxAttempts)

\* Only the clock touched the row.
Touched(row, new) ==
    /\ new.cycle = row.cycle /\ new.attempt = row.attempt /\ new.failed = row.failed
    /\ new.terminal = row.terminal /\ new.completed = row.completed
    /\ new.token = row.token
    /\ new.lease = "none" <=> row.lease = "none"

LEMMA NewWorkType == NewWork \in WorkRows /\ RowOK(NewWork)
BY ConstantsOK DEF NewWork, WorkRows, Cycles, RowOK

LEMMA Fields ==
    ASSUME NEW row \in WorkRows
    PROVE  /\ row.cycle \in Cycles /\ row.attempt \in 0..MaxAttempts
           /\ row.failed \in 0..MaxAttempts /\ row.terminal \in BOOLEAN
           /\ row.completed \in BOOLEAN /\ row.token \in Slots \cup {NoToken}
           /\ row.lease \in {"none", "live", "expired"} /\ row.due \in BOOLEAN
           /\ (row.attempt >= MaxAttempts) \in BOOLEAN
BY ConstantsOK DEF WorkRows

LEMMA Release ==
    \A row \in WorkRows, f \in 0..MaxAttempts, t, d \in BOOLEAN :
        [row EXCEPT !.token = NoToken, !.lease = "none", !.failed = f,
                    !.terminal = t, !.due = d] \in WorkRows
BY DEF WorkRows

LEMMA Settlement ==
    \A row \in WorkRows, f \in 0..MaxAttempts, t, c, d \in BOOLEAN :
        [row EXCEPT !.token = NoToken, !.lease = "none", !.completed = c,
                    !.failed = f, !.terminal = t, !.due = d] \in WorkRows
<1> TAKE row \in WorkRows, f \in 0..MaxAttempts, t, c, d \in BOOLEAN
<1>1. QED
  BY DEF WorkRows

LEMMA ReleasedRowOK ==
    ASSUME NEW row \in WorkRows, RowOK(row), row.token # NoToken
    PROVE  ReleasedRow(row) \in WorkRows /\ Releases(ReleasedRow(row), row)
<1>1. row.attempt = row.failed + 1 /\ row.completed = FALSE
  BY Fields DEF RowOK
<1>2. row.failed + 1 \in 0..MaxAttempts
  BY <1>1, Fields
<1>3. (IF row.attempt >= MaxAttempts THEN row.due ELSE FALSE) \in BOOLEAN
  BY Fields
<1>4. ReleasedRow(row) \in WorkRows
  BY <1>2, <1>3, Fields, Release, Zenon DEF ReleasedRow
<1>5. /\ ReleasedRow(row).cycle = row.cycle /\ ReleasedRow(row).attempt = row.attempt
      /\ ReleasedRow(row).failed = row.failed + 1 /\ ReleasedRow(row).token = NoToken
      /\ ReleasedRow(row).lease = "none"
      /\ ReleasedRow(row).completed <=> row.completed
      /\ ReleasedRow(row).terminal <=> row.attempt >= MaxAttempts
  BY ConstantsOK DEF WorkRows, ReleasedRow
<1>6. QED
  BY <1>1, <1>4, <1>5 DEF Releases

LEMMA SettledRowOK ==
    ASSUME NEW w \in Slots, work[ep[w]] \in WorkRows, RowOK(work[ep[w]]),
           work[ep[w]].token # NoToken, result[w] \in {"SUCCESS", "FAILED", "SKIPPED"}
    PROVE  SettledRow(w) \in WorkRows /\ Settles(SettledRow(w), work[ep[w]], result[w])
<1> DEFINE row  == work[ep[w]]
           fail == result[w] = "FAILED"
           last == row.attempt >= MaxAttempts
           f    == IF fail THEN row.failed + 1 ELSE row.failed
           t    == result[w] = "SKIPPED" \/ (fail /\ last)
           c    == ~ fail
           d    == IF fail /\ ~ last THEN FALSE ELSE row.due
<1>1. f \in 0..MaxAttempts /\ t \in BOOLEAN /\ c \in BOOLEAN /\ d \in BOOLEAN
  <2>1. f \in 0..MaxAttempts
    BY Fields DEF RowOK
  <2>2. t \in BOOLEAN /\ c \in BOOLEAN
    OBVIOUS
  <2>3. d \in BOOLEAN
    BY Fields
  <2>4. QED
    BY <2>1, <2>2, <2>3
<1>2. SettledRow(w) = [row EXCEPT !.token = NoToken, !.lease = "none", !.completed = c,
                                  !.failed = f, !.terminal = t, !.due = d]
  BY Zenon DEF SettledRow
<1>3. SettledRow(w) \in WorkRows
  <2> HIDE DEF f, t, c, d, row
  <2>1. row \in WorkRows
    BY DEF row
  <2>2. [row EXCEPT !.token = NoToken, !.lease = "none", !.completed = c,
                    !.failed = f, !.terminal = t, !.due = d] \in WorkRows
    BY <1>1, <2>1, Settlement, Zenon
  <2>3. QED
    BY <1>2, <2>2, Zenon
<1>4. Settles(SettledRow(w), row, result[w])
  BY <1>1 DEF WorkRows, SettledRow, Settles
<1>5. QED
  BY <1>3, <1>4

LEMMA SettlesOK ==
    ASSUME NEW row \in WorkRows, RowOK(row), row.token # NoToken, NEW new \in WorkRows,
           NEW res \in {"SUCCESS", "FAILED", "SKIPPED"}, Settles(new, row, res)
    PROVE  RowOK(new) /\ (RowOutcome(new) = "DELIVERED" <=> res = "SUCCESS")
<1>1. RowOK(new)
  BY Fields, ConstantsOK DEF RowOK, Settles
<1>2. RowOutcome(new) = "DELIVERED" <=> res = "SUCCESS"
  BY Fields, NullsOK DEF RowOutcome, Settles
<1>3. QED
  BY <1>1, <1>2

LEMMA ReservedRowOK ==
    ASSUME NEW row \in WorkRows, RowOK(row), NEW w \in Slots, row.token = NoToken,
           ~ row.completed, ~ row.terminal, row.attempt < MaxAttempts,
           NEW new, new = [row EXCEPT !.token = w, !.lease = "live", !.attempt = @ + 1]
    PROVE  new \in WorkRows /\ Reserved(new, row, w)
<1>1. row.attempt + 1 \in 0..MaxAttempts
  BY Fields, ConstantsOK
<1>2. new \in WorkRows
  BY <1>1 DEF WorkRows
<1>3. Reserved(new, row, w)
  BY DEF Reserved, WorkRows
<1>4. QED
  BY <1>2, <1>3

LEMMA ReservedOK ==
    ASSUME NEW row \in WorkRows, RowOK(row), NEW w \in Slots, row.token = NoToken,
           ~ row.completed, NEW new \in WorkRows, Reserved(new, row, w)
    PROVE  RowOK(new)
BY Fields, ConstantsOK DEF RowOK, Reserved

LEMMA ReleasesOK ==
    ASSUME NEW row \in WorkRows, RowOK(row), NEW new \in WorkRows, Releases(new, row)
    PROVE  RowOK(new)
BY Fields, ConstantsOK DEF RowOK, Releases

LEMMA ReopenedRowOK ==
    ASSUME NEW row \in WorkRows, row.terminal, ~ row.completed, row.cycle < MaxCycles,
           NEW new, new = [NewWork EXCEPT !.cycle = row.cycle + 1]
    PROVE  new \in WorkRows /\ Reopens(new, row)
<1>1. row.cycle + 1 \in Cycles
  BY Fields, ConstantsOK DEF Cycles
<1>2. QED
  BY <1>1, NewWorkType DEF WorkRows, NewWork, Reopens

LEMMA ReopensOK ==
    ASSUME NEW row \in WorkRows, RowOK(row), NEW new \in WorkRows, Reopens(new, row)
    PROVE  RowOK(new)
BY Fields, ConstantsOK DEF RowOK, Reopens

LEMMA TouchedOK ==
    ASSUME NEW row \in WorkRows, NEW new \in WorkRows, Touched(row, new)
    PROVE  /\ RowOK(row) => RowOK(new)
           /\ \A old : /\ Seen(old, row) => Seen(old, new)
                       /\ Releases(old, row) => Releases(old, new)
                       /\ Reopens(old, row) => Reopens(old, new)
           /\ RowOutcome(new) = RowOutcome(row)
<1>1. RowOK(row) => RowOK(new)
  BY Fields DEF Touched, RowOK
<1>2. \A old : /\ Seen(old, row) => Seen(old, new)
               /\ Releases(old, row) => Releases(old, new)
               /\ Reopens(old, row) => Reopens(old, new)
  BY DEF Touched, Seen, Releases, Reopens
<1>3. RowOutcome(new) = RowOutcome(row)
  BY Fields, NullsOK DEF Touched, RowOutcome
<1>4. QED
  BY <1>1, <1>2, <1>3

-----------------------------------------------------------------------------
(* The inductive invariant                                                  *)

RowsOK == \A e \in Endpoints : work[e] # NoWork => RowOK(work[e])

\* A run past its claim works for a cycle that exists, and holds the event row
\* only while the claim it reserved is still the row's.
RunOK(w) ==
    /\ pc[w] = "idle" => result[w] = "none"
    /\ pc[w] # "idle" => ep[w] \in Endpoints
    /\ pc[w] \in {"lock", "http", "late", "answered", "write"} =>
         work[ep[w]] # NoWork /\ no[w][1] <= work[ep[w]].cycle
    /\ pc[w] \in {"answered", "write"} => result[w] # "none"
    /\ result[w] = "SUCCESS" => pc[w] \in {"answered", "write"} /\ no[w] \in received[ep[w]]
    /\ pc[w] = "write" => OwnsClaim(w)

RunsOK == \A w \in Slots : RunOK(w)

OneWriter == \A v, w \in Slots : pc[v] = "write" /\ pc[w] = "write" => v = w

\* A transaction outside a send holds what it is about to overwrite: it marks an
\* attempt only with the claim it releases, and the attempt is still PENDING.
TxOK(r) ==
    LET t == tx[r] IN
    /\ t.step # "idle" => t.ep \in Endpoints /\ work[t.ep] # NoWork /\ t.row # NoWork
    /\ t.step = "read" => t.key = NoKey /\ Seen(t.row, work[t.ep])
    /\ Open(r) /\ t.key = NoKey =>
         /\ t.marks => t.writes
         /\ t.writes =>
              /\ Releases(t.row, work[t.ep])
              /\ t.marks <=> delivery[t.ep][<<t.row.cycle, t.row.attempt>>] = "PENDING"
    /\ Open(r) /\ t.key # NoKey =>
         t.writes /\ ~ t.marks /\ Reopens(t.row, work[t.ep])

TxsOK == \A r \in Refreshers : TxOK(r)

OneLocker ==
    \A r, q \in Refreshers, e \in Endpoints : LocksRow(r, e) /\ LocksRow(q, e) => r = q

DataOK == RowsOK /\ PendingAttemptIsClaimed /\ SuccessIsRecorded

IInv ==
    TypeOK /\ DataOK /\ RunsOK /\ OneWriter /\ SendsOnlyWhileActive /\ TxsOK /\ OneLocker

-----------------------------------------------------------------------------
(* What a step does to one endpoint's work row and attempts                 *)

Now(e) == <<work[e].cycle, work[e].attempt>>

ReservesOf(w, e) ==
    /\ Claimable(e) /\ ~ RowLocked(e)
    /\ Reserved(work'[e], work[e], w)
    /\ delivery'[e] = [m \in Attempts |->
         IF m = <<work[e].cycle, work[e].attempt + 1>>
         THEN IF active[e] THEN "PENDING" ELSE "SKIPPED"
         ELSE IF m[1] = work[e].cycle /\ delivery[e][m] = "PENDING" THEN "FAILED"
         ELSE delivery[e][m]]

SettlesOf(w, e) ==
    /\ pc[w] = "write" /\ ep[w] = e /\ pc'[w] = "idle" /\ ~ RowLocked(e)
    /\ Settles(work'[e], work[e], result[w])
    /\ delivery'[e] = [delivery[e] EXCEPT ![no[w]] = result[w]]

ReleasesOf(r, e) ==
    /\ LocksRow(r, e) /\ tx'[r] = NoTx /\ ~ EventHeld
    /\ Releases(work'[e], work[e])
    /\ delivery'[e] = [delivery[e] EXCEPT ![Now(e)] = IF @ = "PENDING" THEN "FAILED" ELSE @]

ReopensOf(r, e) ==
    /\ LocksRow(r, e) /\ tx'[r] = NoTx /\ ~ EventHeld
    /\ Reopens(work'[e], work[e])
    /\ delivery'[e] = delivery[e]

EndpointStep(e) ==
    \/ work'[e] = work[e] /\ delivery'[e] = delivery[e]
    \/ work[e] = NoWork /\ work'[e] = NewWork /\ delivery'[e] = delivery[e]
    \/ \E w \in Slots : ReservesOf(w, e) \/ SettlesOf(w, e)
    \/ \E r \in Refreshers : ReleasesOf(r, e) \/ ReopensOf(r, e)
    \/ work[e] # NoWork /\ Touched(work[e], work'[e]) /\ delivery'[e] = delivery[e]

\* A step changes rows as EndpointStep says, and keeps their type.
RowStep ==
    /\ work' \in [Endpoints -> WorkRows \cup {NoWork}]
    /\ delivery' \in [Endpoints -> [Attempts -> Deliveries]]
    /\ \A e \in Endpoints : EndpointStep(e)
    /\ \A e \in Endpoints : work[e] # NoWork => work'[e] # NoWork

LEMMA Unchanged == TypeOK /\ UNCHANGED <<work, delivery>> => RowStep
BY DEF TypeOK, RowStep, EndpointStep

LEMMA CreateWorkRows == IInv /\ CreateWork => RowStep
<1> SUFFICES ASSUME IInv, CreateWork PROVE RowStep
  OBVIOUS
<1> USE DEF IInv, TypeOK, CreateWork
<1>1. work' \in [Endpoints -> WorkRows \cup {NoWork}]
  BY NewWorkType
<1>2. \A e \in Endpoints : EndpointStep(e)
  BY DEF EndpointStep, rows
<1>3. QED
  BY <1>1, <1>2 DEF RowStep, rows

LEMMA ClaimRows == ASSUME IInv, NEW w \in Slots, Claim(w) PROVE RowStep
<1> USE DEF IInv, TypeOK
<1>1. PICK e \in Endpoints : e = ep[w]
  BY DEF Claim, RunsOK, RunOK
<1>2. PICK row \in WorkRows : row = work[e]
  BY <1>1 DEF Claim, Claimable
<1>3. RowOK(row) /\ row.token = NoToken /\ ~ row.completed /\ ~ row.terminal
      /\ row.attempt < MaxAttempts
  BY <1>1, <1>2 DEF Claim, Claimable, DataOK, RowsOK
<1>4. PICK new : new = [row EXCEPT !.token = w, !.lease = "live", !.attempt = @ + 1]
  OBVIOUS
<1>5. new \in WorkRows /\ Reserved(new, row, w)
  BY <1>3, <1>4, ReservedRowOK
<1>6. work' = [work EXCEPT ![e] = new]
  BY <1>1, <1>2, <1>4 DEF Claim, Reserves
<1>7. delivery' = [delivery EXCEPT ![e] = [m \in Attempts |->
         IF m = <<row.cycle, row.attempt + 1>>
         THEN IF active[e] THEN "PENDING" ELSE "SKIPPED"
         ELSE IF m[1] = row.cycle /\ delivery[e][m] = "PENDING" THEN "FAILED"
         ELSE delivery[e][m]]]
  BY <1>1, <1>2 DEF Claim, Reserves
<1>8. ReservesOf(w, e)
  BY <1>1, <1>2, <1>5, <1>6, <1>7 DEF Claim, ReservesOf
<1>9. \A f \in Endpoints : EndpointStep(f)
  BY <1>6, <1>7, <1>8 DEF EndpointStep
<1>10. QED
  BY <1>5, <1>6, <1>7, <1>9, NullsOK DEF RowStep, Deliveries

\* A writer's row is the one it claimed.
LEMMA WriterOwns ==
    ASSUME IInv, NEW w \in Slots, pc[w] = "write"
    PROVE  /\ ep[w] \in Endpoints /\ work[ep[w]] \in WorkRows /\ RowOK(work[ep[w]])
           /\ work[ep[w]].token = w /\ work[ep[w]].token # NoToken
           /\ no[w] = Now(ep[w]) /\ no[w] \in Attempts
           /\ result[w] \in {"SUCCESS", "FAILED", "SKIPPED"}
<1>1. /\ ep[w] \in Endpoints /\ work[ep[w]] # NoWork /\ OwnsClaim(w)
      /\ result[w] # "none"
  BY DEF IInv, RunsOK, RunOK
<1>2. QED
  BY <1>1, ConstantsOK DEF IInv, TypeOK, DataOK, RowsOK, OwnsClaim, Now, Results

LEMMA SettleRows == ASSUME IInv, NEW w \in Slots, Settle(w) PROVE RowStep
<1> USE DEF IInv, TypeOK
<1>1. PICK e \in Endpoints : e = ep[w]
  BY WriterOwns DEF Settle
<1>2. /\ SettledRow(w) \in WorkRows
      /\ Settles(SettledRow(w), work[e], result[w])
  BY <1>1, WriterOwns, SettledRowOK DEF Settle
<1>3. work' = [work EXCEPT ![e] = SettledRow(w)]
  BY <1>1 DEF Settle
<1>4. delivery' = [delivery EXCEPT ![e] = [@ EXCEPT ![no[w]] = result[w]]]
  BY <1>1 DEF Settle
<1>5. SettlesOf(w, e)
  BY <1>1, <1>2, <1>3, <1>4 DEF SettlesOf, Settle, End
<1>6. \A f \in Endpoints : EndpointStep(f)
  BY <1>3, <1>4, <1>5 DEF EndpointStep
<1>7. QED
  BY <1>2, <1>3, <1>4, <1>6, WriterOwns, NullsOK DEF RowStep, Deliveries, Settle

LEMMA CommitRows == ASSUME IInv, NEW r \in Refreshers, Commit(r) PROVE RowStep
<1> USE DEF IInv, TypeOK
<1>1. PICK t \in Txs : t = tx[r]
  OBVIOUS
<1>2. /\ t.step = "computed" /\ Open(r) /\ ~ EventHeld /\ tx' = [tx EXCEPT ![r] = NoTx]
      /\ t.ep \in Endpoints /\ t.row \in WorkRows /\ work[t.ep] \in WorkRows
      /\ t.writes \in BOOLEAN /\ t.marks \in BOOLEAN
  BY <1>1 DEF Commit, Open, TxsOK, TxOK, Txs
<1>3. CASE ~ t.writes
  <2>1. ~ t.marks
    BY <1>1, <1>2, <1>3 DEF TxsOK, TxOK
  <2>2. UNCHANGED <<work, delivery>>
    BY <1>1, <1>3, <2>1 DEF Commit, OwnWork, MarkedDelivery
  <2>3. QED
    BY <2>2, Unchanged
<1>4. CASE t.writes
  <2>1. work' = [work EXCEPT ![t.ep] = t.row]
    BY <1>1, <1>4 DEF Commit, OwnWork
  <2>2. LocksRow(r, t.ep) /\ tx'[r] = NoTx
    BY <1>1, <1>2, <1>4 DEF LocksRow
  <2>3. CASE t.key = NoKey
    <3>1. /\ Releases(t.row, work[t.ep])
          /\ <<t.row.cycle, t.row.attempt>> = Now(t.ep)
          /\ t.marks <=> delivery[t.ep][Now(t.ep)] = "PENDING"
      BY <1>1, <1>2, <1>4, <2>3 DEF TxsOK, TxOK, Releases, Now
    <3>2. delivery' = IF t.marks THEN [delivery EXCEPT ![t.ep] = [@ EXCEPT ![Now(t.ep)] = "FAILED"]]
                                 ELSE delivery
      BY <1>1, <3>1 DEF Commit, MarkedDelivery
    <3>3. ReleasesOf(r, t.ep)
      <4>1. work'[t.ep] = t.row
        BY <1>2, <2>1
      <4>2. delivery'[t.ep] = [delivery[t.ep] EXCEPT ![Now(t.ep)] = IF @ = "PENDING" THEN "FAILED" ELSE @]
        BY <1>2, <3>1, <3>2
      <4>3. QED
        BY <1>2, <2>2, <3>1, <4>1, <4>2 DEF ReleasesOf
    <3>4. \A f \in Endpoints : EndpointStep(f)
      BY <1>2, <2>1, <3>2, <3>3 DEF EndpointStep
    <3>5. QED
      BY <1>2, <2>1, <3>2, <3>4, NullsOK DEF RowStep, Deliveries
  <2>4. CASE t.key # NoKey
    <3>1. ~ t.marks /\ Reopens(t.row, work[t.ep])
      BY <1>1, <1>2, <2>4 DEF TxsOK, TxOK
    <3>2. delivery' = delivery
      BY <1>1, <3>1 DEF Commit, MarkedDelivery
    <3>3. ReopensOf(r, t.ep)
      BY <1>2, <2>1, <2>2, <3>1, <3>2 DEF ReopensOf
    <3>4. \A f \in Endpoints : EndpointStep(f)
      BY <1>2, <2>1, <3>2, <3>3 DEF EndpointStep
    <3>5. QED
      BY <1>2, <2>1, <3>2, <3>4, NullsOK DEF RowStep
  <2>5. QED
    BY <2>3, <2>4
<1>5. QED
  BY <1>2, <1>3, <1>4

LEMMA ClockRows ==
    ASSUME IInv, NEW e \in Endpoints, LeaseExpires(e) \/ ComesDue(e)
    PROVE  RowStep
<1> USE DEF IInv, TypeOK
<1>1. PICK row \in WorkRows : row = work[e]
  BY DEF LeaseExpires, ComesDue
<1>2. PICK new \in WorkRows : work' = [work EXCEPT ![e] = new] /\ Touched(row, new)
  <2>1. CASE LeaseExpires(e)
    <3>1. [row EXCEPT !.lease = "expired"] \in WorkRows
      BY DEF WorkRows
    <3>2. Touched(row, [row EXCEPT !.lease = "expired"])
      BY <1>1, <2>1 DEF WorkRows, Touched, LeaseExpires
    <3>3. work' = [work EXCEPT ![e] = [row EXCEPT !.lease = "expired"]]
      BY <1>1, <2>1 DEF LeaseExpires
    <3>4. QED
      BY <3>1, <3>2, <3>3
  <2>2. CASE ComesDue(e)
    <3>1. [row EXCEPT !.due = TRUE] \in WorkRows
      BY DEF WorkRows
    <3>2. Touched(row, [row EXCEPT !.due = TRUE])
      BY DEF WorkRows, Touched
    <3>3. work' = [work EXCEPT ![e] = [row EXCEPT !.due = TRUE]]
      BY <1>1, <2>2 DEF ComesDue
    <3>4. QED
      BY <3>1, <3>2, <3>3
  <2>3. QED
    BY <2>1, <2>2
<1>3. delivery' = delivery
  BY DEF LeaseExpires, ComesDue
<1>4. work[e] # NoWork
  BY <1>1, NullsOK
<1>5. QED
  BY <1>1, <1>2, <1>3, <1>4, NullsOK DEF RowStep, EndpointStep

\* Every step is such a row step, and receivers never forget a request.
LEMMA StepIsRowStep ==
    ASSUME IInv, [Next]_vars
    PROVE  RowStep /\ \A e \in Endpoints : received[e] \subseteq received'[e]
<1>1. RowStep
  <2>1. ASSUME \/ CommitEvent \/ Select
               \/ \E e \in Endpoints : Dispatch(e) \/ Wake(e) \/ Toggle(e)
               \/ \E w \in Slots, e \in Endpoints : Take(w, e)
               \/ \E w \in Slots : \/ ClaimNothing(w) \/ LockEndpoint(w) \/ Answer(w)
                                    \/ SendTimesOut(w) \/ LateAnswer(w)
                                    \/ LockEvent(w) \/ RunAborts(w)
               \/ \E r \in Scanners, e \in Endpoints : ReadExpired(r, e)
               \/ \E r \in Scanners : Mark(r)
               \/ \E r \in Owners, e \in Endpoints, k \in Keys : StartReplay(r, e, k)
               \/ \E r \in Refreshers : Compute(r) \/ TxAborts(r)
               \/ \E w \in Slots, r \in Refreshers : BreakDeadlock(w, r)
               \/ UNCHANGED vars
        PROVE  UNCHANGED <<work, delivery>>
    BY <2>1 DEF CommitEvent, Select, Dispatch, Wake, Toggle, Take, ClaimNothing,
       LockEndpoint, Answer, SendTimesOut, LateAnswer, LockEvent, RunAborts, ReadExpired,
       Mark, StartReplay, Compute, TxAborts, BreakDeadlock, rows, vars
  <2>2. QED
    BY <2>1, Unchanged, CreateWorkRows, ClaimRows, SettleRows, CommitRows, ClockRows
       DEF Next, RunStep, IInv
<1>2. \A e \in Endpoints : received[e] \subseteq received'[e]
  <2>1. CASE \E w \in Slots : Answer(w) \/ LateAnswer(w)
    BY <2>1 DEF Answer, LateAnswer, IInv, TypeOK
  <2>2. CASE received' = received
    BY <2>2
  <2>3. QED
    BY <2>1, <2>2 DEF Next, RunStep, CommitEvent, Select, CreateWork, Dispatch, Wake, Toggle,
       Take, Claim, ClaimNothing, LockEndpoint, LockEvent, Settle, RunAborts, SendTimesOut,
       ReadExpired, Mark, StartReplay, Compute, Commit, TxAborts, BreakDeadlock,
       LeaseExpires, ComesDue, vars
<1>3. QED
  BY <1>1, <1>2

-----------------------------------------------------------------------------
(* Rows, attempts and what was received                                     *)

\* What DataOK says of one endpoint.
DataOf(e) ==
    /\ work[e] # NoWork => RowOK(work[e])
    /\ \A n \in Attempts :
         /\ delivery[e][n] = "PENDING" =>
              work[e] # NoWork /\ work[e].token # NoToken /\ n = Now(e)
         /\ delivery[e][n] = "SUCCESS" =>
              n \in received[e] /\ RowOutcome(work[e]) = "DELIVERED" /\ n = Now(e)
         /\ RowOutcome(work[e]) = "DELIVERED" /\ n = Now(e) => delivery[e][n] = "SUCCESS"

LEMMA DataByEndpoint == DataOK <=> \A e \in Endpoints : DataOf(e)
BY DEF DataOK, DataOf, RowsOK, PendingAttemptIsClaimed, SuccessIsRecorded, Outcome, Now

\* A row that no claim and no success stands on has neither kind of attempt.
LEMMA NoPending ==
    ASSUME NEW e \in Endpoints, DataOf(e), work[e] # NoWork => work[e].token = NoToken
    PROVE  \A n \in Attempts : delivery[e][n] # "PENDING"
BY DEF DataOf

LEMMA OutcomeIs ==
    ASSUME NEW row \in WorkRows
    PROVE  RowOutcome(row) = "DELIVERED" <=> row.completed /\ ~ row.terminal
BY NullsOK, Fields DEF RowOutcome

LEMMA DataStep ==
    ASSUME IInv, TypeOK', [Next]_vars
    PROVE  DataOK'
<1>0. DataOK' <=> \A e \in Endpoints : DataOf(e)'
  BY DEF DataOK, DataOf, RowsOK, PendingAttemptIsClaimed, SuccessIsRecorded, Outcome, Now
<1> SUFFICES ASSUME NEW e \in Endpoints PROVE DataOf(e)'
  BY <1>0
<1> USE DEF IInv, TypeOK
<1>1. /\ DataOf(e) /\ EndpointStep(e) /\ received[e] \subseteq received'[e]
      /\ work[e] # NoWork => work'[e] \in WorkRows
  BY StepIsRowStep, DataByEndpoint DEF RowStep
<1>2. CASE work'[e] = work[e] /\ delivery'[e] = delivery[e]
  BY <1>1, <1>2 DEF DataOf, Now
<1>3. CASE work[e] = NoWork /\ work'[e] = NewWork /\ delivery'[e] = delivery[e]
  <2>1. RowOutcome(work[e]) = "PENDING"
    BY <1>3 DEF RowOutcome
  <2>2. \A n \in Attempts : delivery[e][n] \notin {"PENDING", "SUCCESS"}
    BY <1>1, <1>3, <2>1 DEF DataOf
  <2>3. RowOutcome(NewWork) = "PENDING"
    BY NewWorkType, NullsOK DEF RowOutcome, NewWork
  <2>4. QED
    BY <1>3, <2>2, <2>3, NewWorkType DEF DataOf
<1>4. ASSUME NEW w \in Slots, ReservesOf(w, e) PROVE DataOf(e)'
  <2>1. PICK row \in WorkRows : row = work[e]
    BY <1>4 DEF ReservesOf, Claimable
  <2>2. PICK new \in WorkRows : new = work'[e]
    BY <1>1, <2>1, NullsOK
  <2>3. /\ RowOK(row) /\ row.token = NoToken /\ ~ row.completed /\ Reserved(new, row, w)
    BY <1>1, <1>4, <2>1, <2>2, NullsOK DEF ReservesOf, Claimable, DataOf
  <2>4. RowOK(new) /\ new.token = w /\ Now(e)' = <<row.cycle, row.attempt + 1>>
    BY <2>2, <2>3, ReservedOK DEF Reserved, Now
  <2>5. RowOutcome(new) # "DELIVERED" /\ RowOutcome(row) # "DELIVERED"
    BY <2>3, OutcomeIs DEF Reserved
  <2>6. \A n \in Attempts : delivery[e][n] \notin {"PENDING", "SUCCESS"}
    BY <1>1, <2>1, <2>3, <2>5, NoPending DEF DataOf
  <2>7. \A n \in Attempts : /\ delivery'[e][n] # "SUCCESS"
                            /\ delivery'[e][n] = "PENDING" => n = Now(e)'
    BY <1>4, <2>1, <2>4, <2>6 DEF ReservesOf
  <2>8. QED
    BY <2>2, <2>4, <2>5, <2>7, NullsOK, ConstantsOK DEF DataOf
<1>5. ASSUME NEW w \in Slots, SettlesOf(w, e) PROVE DataOf(e)'
  <2>1. /\ work[e] \in WorkRows /\ RowOK(work[e]) /\ work[e].token # NoToken
        /\ no[w] = Now(e) /\ no[w] \in Attempts
        /\ result[w] \in {"SUCCESS", "FAILED", "SKIPPED"}
    BY <1>5, WriterOwns DEF SettlesOf
  <2>2. PICK new \in WorkRows : new = work'[e]
    BY <1>1, <2>1, NullsOK
  <2>3. /\ RowOK(new) /\ new.token = NoToken /\ Now(e)' = Now(e)
        /\ RowOutcome(new) = "DELIVERED" <=> result[w] = "SUCCESS"
    BY <1>5, <2>1, <2>2, SettlesOK DEF SettlesOf, Settles, Now
  <2>4. RowOutcome(work[e]) # "DELIVERED"
    BY <2>1, OutcomeIs DEF RowOK
  <2>5. \A n \in Attempts : delivery[e][n] # "SUCCESS"
    BY <1>1, <2>4 DEF DataOf
  <2>6. \A n \in Attempts : delivery[e][n] = "PENDING" => n = no[w]
    BY <1>1, <2>1 DEF DataOf
  <2>7. \A n \in Attempts :
           delivery'[e][n] = IF n = no[w] THEN result[w] ELSE delivery[e][n]
    BY <1>5, <2>1 DEF SettlesOf
  <2>8. result[w] = "SUCCESS" => no[w] \in received'[e]
    BY <1>1, <1>5 DEF SettlesOf, RunsOK, RunOK
  <2>9. \A n \in Attempts :
           /\ delivery'[e][n] # "PENDING"
           /\ delivery'[e][n] = "SUCCESS" => n = no[w] /\ result[w] = "SUCCESS"
           /\ n = no[w] /\ result[w] = "SUCCESS" => delivery'[e][n] = "SUCCESS"
    BY <2>1, <2>5, <2>6, <2>7
  <2>10. QED
    BY <2>1, <2>2, <2>3, <2>8, <2>9 DEF DataOf
<1>6. ASSUME NEW r \in Refreshers, ReleasesOf(r, e) PROVE DataOf(e)'
  <2>1. work[e] # NoWork
    BY <1>6 DEF ReleasesOf, LocksRow, TxsOK, TxOK, Open
  <2>2. PICK new \in WorkRows : new = work'[e]
    BY <1>1, <2>1
  <2>3. /\ RowOK(work[e]) /\ RowOK(new) /\ new.token = NoToken /\ Now(e)' = Now(e)
        /\ work[e].token # NoToken /\ ~ new.completed
    BY <1>1, <1>6, <2>1, <2>2, ReleasesOK DEF ReleasesOf, Releases, Now, DataOf
  <2>4. RowOutcome(work[e]) # "DELIVERED" /\ RowOutcome(new) # "DELIVERED"
    BY <2>1, <2>3, OutcomeIs DEF RowOK
  <2>5. \A n \in Attempts : delivery'[e][n] \notin {"PENDING", "SUCCESS"}
    BY <1>1, <1>6, <2>4 DEF DataOf, ReleasesOf
  <2>6. QED
    BY <2>2, <2>3, <2>4, <2>5 DEF DataOf
<1>7. ASSUME NEW r \in Refreshers, ReopensOf(r, e) PROVE DataOf(e)'
  <2>1. work[e] # NoWork
    BY <1>7 DEF ReopensOf, LocksRow, TxsOK, TxOK, Open
  <2>2. PICK new \in WorkRows : new = work'[e]
    BY <1>1, <2>1
  <2>3. /\ RowOK(work[e]) /\ RowOK(new) /\ work[e].token = NoToken
        /\ ~ work[e].completed /\ ~ new.completed
    BY <1>1, <1>7, <2>1, <2>2, ReopensOK DEF ReopensOf, Reopens, DataOf, RowOK
  <2>4. RowOutcome(work[e]) # "DELIVERED" /\ RowOutcome(new) # "DELIVERED"
    BY <2>1, <2>3, OutcomeIs
  <2>5. \A n \in Attempts : delivery'[e][n] \notin {"PENDING", "SUCCESS"}
    BY <1>1, <1>7, <2>1, <2>3, <2>4 DEF DataOf, ReopensOf
  <2>6. QED
    BY <2>2, <2>3, <2>4, <2>5 DEF DataOf
<1>8. CASE work[e] # NoWork /\ Touched(work[e], work'[e]) /\ delivery'[e] = delivery[e]
  <2>1. PICK row \in WorkRows : row = work[e]
    BY <1>8
  <2>2. PICK new \in WorkRows : new = work'[e]
    BY <1>1, <1>8
  <2>3. /\ RowOK(new) /\ RowOutcome(new) = RowOutcome(row) /\ Now(e)' = Now(e)
        /\ new.token = row.token
    BY <1>1, <1>8, <2>1, <2>2, TouchedOK DEF Touched, Now, DataOf
  <2>4. work'[e] # NoWork /\ RowOK(work'[e])
    BY <2>2, <2>3, NullsOK
  <2>5. RowOutcome(work'[e]) = RowOutcome(work[e]) /\ work'[e].token = work[e].token
    BY <2>1, <2>2, <2>3
  <2>6. QED
    BY <1>1, <1>8, <2>3, <2>4, <2>5 DEF DataOf
<1>9. QED
  BY <1>1, <1>2, <1>3, <1>4, <1>5, <1>6, <1>7, <1>8 DEF EndpointStep

-----------------------------------------------------------------------------
(* Runs                                                                     *)

\* Cycles never shrink, and a writer's claim outlives every other step.
LEMMA RunFrame ==
    ASSUME IInv, [Next]_vars, NEW w \in Slots,
           pc'[w] = pc[w], ep'[w] = ep[w], no'[w] = no[w], result'[w] = result[w]
    PROVE  RunOK(w)'
<1> USE DEF IInv, TypeOK
<1>1. RunOK(w)
  BY DEF RunsOK
<1>2. CASE ep[w] \notin Endpoints
  BY <1>1, <1>2 DEF RunOK
<1>3. CASE ep[w] \in Endpoints /\ work[ep[w]] = NoWork
  <2>1. pc[w] \notin {"lock", "http", "late", "answered", "write"} /\ result[w] # "SUCCESS"
    BY <1>1, <1>3 DEF RunOK
  <2>2. QED
    BY <1>1, <2>1 DEF RunOK
<1>4. CASE ep[w] \in Endpoints /\ work[ep[w]] # NoWork
  <2>1. PICK e \in Endpoints : e = ep[w]
    BY <1>4
  <2>2. /\ work[e] \in WorkRows /\ work'[e] \in WorkRows /\ work'[e] # NoWork
        /\ EndpointStep(e) /\ received[e] \subseteq received'[e]
        /\ work[e].cycle \in Nat /\ work'[e].cycle \in Nat
    <3>1. work[e] \in WorkRows /\ work'[e] \in WorkRows
      BY <1>4, <2>1, StepIsRowStep DEF RowStep
    <3>2. QED
      BY <3>1, <1>4, <2>1, StepIsRowStep, Fields DEF RowStep, Cycles
  <2>3. work[e].cycle <= work'[e].cycle
    <3>1. ASSUME NEW v \in Slots, ReservesOf(v, e) \/ SettlesOf(v, e)
          PROVE  work'[e].cycle = work[e].cycle
      BY <3>1 DEF ReservesOf, Reserved, SettlesOf, Settles
    <3>2. ASSUME NEW r \in Refreshers, ReleasesOf(r, e) \/ ReopensOf(r, e)
          PROVE  work'[e].cycle \in {work[e].cycle, work[e].cycle + 1}
      BY <3>2 DEF ReleasesOf, Releases, ReopensOf, Reopens
    <3>3. ASSUME Touched(work[e], work'[e])
          PROVE  work'[e].cycle = work[e].cycle
      BY <3>3 DEF Touched
    <3>4. work'[e].cycle \in {work[e].cycle, work[e].cycle + 1}
      BY <1>4, <2>1, <2>2, <3>1, <3>2, <3>3 DEF EndpointStep
    <3>5. QED
      BY <2>2, <3>4
  <2>4. no[w][1] \in Nat
    BY DEF Attempts, Cycles
  <2>5. pc[w] = "write" => OwnsClaim(w)'
    <3> SUFFICES ASSUME pc[w] = "write" PROVE OwnsClaim(w)'
      OBVIOUS
    <3>1. work[e].token = w /\ w # NoToken /\ no[w] = Now(e)
      BY <2>1, WriterOwns
    <3>2. ~ \E v \in Slots : ReservesOf(v, e)
      BY <3>1 DEF ReservesOf, Claimable
    <3>3. ~ \E v \in Slots : SettlesOf(v, e)
      BY DEF SettlesOf, OneWriter
    <3>4. ~ \E r \in Refreshers : ReleasesOf(r, e) \/ ReopensOf(r, e)
      BY DEF ReleasesOf, ReopensOf, EventHeld
    <3>5. work'[e] = work[e] \/ Touched(work[e], work'[e])
      BY <1>4, <2>1, <2>2, <3>2, <3>3, <3>4 DEF EndpointStep
    <3>6. QED
      BY <2>1, <3>1, <3>5 DEF OwnsClaim, Touched, Now
  <2>6. QED
    BY <1>1, <2>1, <2>2, <2>3, <2>4, <2>5 DEF RunOK
<1>5. QED
  BY <1>2, <1>3, <1>4

\* A run that ended, or waits in its queue, is bound to nothing.
LEMMA EndedRun ==
    ASSUME NEW w \in Slots, TypeOK, End(w)
    PROVE  /\ RunOK(w)' /\ pc'[w] = "idle"
           /\ \A v \in Slots \ {w} :
                pc'[v] = pc[v] /\ ep'[v] = ep[v] /\ no'[v] = no[v] /\ result'[v] = result[v]
BY DEF TypeOK, End, RunOK

\* All runs but w are as they were, and w itself satisfies what runs must.
LEMMA OtherRuns ==
    ASSUME IInv, [Next]_vars, NEW w \in Slots, RunOK(w)', pc'[w] # "write", pc'[w] # "http",
           UNCHANGED active,
           \A v \in Slots \ {w} :
             pc'[v] = pc[v] /\ ep'[v] = ep[v] /\ no'[v] = no[v] /\ result'[v] = result[v]
    PROVE  RunsOK' /\ OneWriter' /\ SendsOnlyWhileActive'
<1>1. RunsOK'
  BY RunFrame DEF RunsOK
<1>2. OneWriter'
  BY DEF IInv, OneWriter
<1>3. SendsOnlyWhileActive'
  BY DEF IInv, SendsOnlyWhileActive
<1>4. QED
  BY <1>1, <1>2, <1>3

LEMMA SameRuns ==
    ASSUME IInv, [Next]_vars, UNCHANGED <<runs, active>>
    PROVE  RunsOK' /\ OneWriter' /\ SendsOnlyWhileActive'
<1>1. RunsOK'
  BY RunFrame DEF RunsOK, runs
<1>2. QED
  BY <1>1 DEF IInv, OneWriter, SendsOnlyWhileActive, runs

\* Every step keeps what runs must satisfy.
LEMMA RunsStep ==
    ASSUME IInv, TypeOK', [Next]_vars
    PROVE  RunsOK' /\ OneWriter' /\ SendsOnlyWhileActive'
<1> USE DEF IInv, TypeOK
<1>1. CASE UNCHANGED <<runs, active>>
  BY <1>1, SameRuns
<1>2. ASSUME NEW e \in Endpoints, Toggle(e)
      PROVE  RunsOK' /\ OneWriter' /\ SendsOnlyWhileActive'
  <2>1. RunsOK'
    BY <1>2, RunFrame DEF RunsOK, Toggle, runs
  <2>2. OneWriter'
    BY <1>2 DEF OneWriter, Toggle, runs
  <2>3. SendsOnlyWhileActive'
    BY <1>2 DEF SendsOnlyWhileActive, Toggle, EndpointHeld, runs, RunsOK, RunOK
  <2>4. QED
    BY <2>1, <2>2, <2>3
<1>3. ASSUME NEW w \in Slots, NEW e \in Endpoints, Take(w, e)
      PROVE  RunsOK' /\ OneWriter' /\ SendsOnlyWhileActive'
  <2>1. RunOK(w)' /\ pc'[w] = "claim"
    BY <1>3 DEF Take, RunsOK, RunOK
  <2>2. QED
    BY <1>3, <2>1, OtherRuns DEF Take
<1>4. ASSUME NEW w \in Slots, Claim(w)
      PROVE  RunsOK' /\ OneWriter' /\ SendsOnlyWhileActive'
  <2>1. ep[w] \in Endpoints /\ ep'[w] = ep[w] /\ work[ep[w]] # NoWork
        /\ result'[w] = result[w] /\ result[w] # "SUCCESS" /\ pc'[w] = "lock"
        /\ no'[w] = <<work[ep[w]].cycle, work[ep[w]].attempt + 1>>
    BY <1>4 DEF Claim, Claimable, Reserves, RunsOK, RunOK
  <2>2. work'[ep[w]] # NoWork /\ work'[ep[w]].cycle = work[ep[w]].cycle
    <3>1. work'[ep[w]] # NoWork
      BY <2>1, StepIsRowStep DEF RowStep
    <3>2. work'[ep[w]].cycle = work[ep[w]].cycle
      BY <1>4, <2>1 DEF Claim, Reserves, WorkRows
    <3>3. QED
      BY <3>1, <3>2
  <2>3. work[ep[w]].cycle \in Nat
    BY <2>1, Fields DEF Cycles
  <2>4. RunOK(w)'
    BY <2>1, <2>2, <2>3 DEF RunOK
  <2>5. QED
    BY <1>4, <2>1, <2>4, OtherRuns DEF Claim, Reserves
<1>5. ASSUME NEW w \in Slots,
             End(w), UNCHANGED active
      PROVE  RunsOK' /\ OneWriter' /\ SendsOnlyWhileActive'
  BY <1>5, EndedRun, OtherRuns
<1>6. ASSUME NEW w \in Slots, LockEndpoint(w)
      PROVE  RunsOK' /\ OneWriter' /\ SendsOnlyWhileActive'
  <2>1. /\ \A v \in Slots \ {w} :
             pc'[v] = pc[v] /\ ep'[v] = ep[v] /\ no'[v] = no[v] /\ result'[v] = result[v]
        /\ ep'[w] = ep[w] /\ no'[w] = no[w] /\ active' = active /\ work' = work
        /\ received' = received /\ pc[w] = "lock"
        /\ \/ pc'[w] = "http" /\ result'[w] = result[w] /\ active[ep[w]]
           \/ pc'[w] = "answered" /\ result'[w] = "SKIPPED"
    BY <1>6 DEF LockEndpoint, Sends, rows
  <2>2. RunOK(w)'
    BY <2>1 DEF RunsOK, RunOK
  <2>3. RunsOK'
    BY <2>1, <2>2, RunFrame DEF RunsOK
  <2>4. OneWriter'
    BY <2>1 DEF OneWriter
  <2>5. SendsOnlyWhileActive'
    BY <2>1 DEF SendsOnlyWhileActive
  <2>6. QED
    BY <2>3, <2>4, <2>5
<1>7. ASSUME NEW w \in Slots, Answer(w)
      PROVE  RunsOK' /\ OneWriter' /\ SendsOnlyWhileActive'
  <2>1. /\ \A v \in Slots \ {w} :
             pc'[v] = pc[v] /\ ep'[v] = ep[v] /\ no'[v] = no[v] /\ result'[v] = result[v]
        /\ ep'[w] = ep[w] /\ no'[w] = no[w] /\ active' = active /\ work' = work
        /\ pc[w] = "http" /\ pc'[w] = "answered" /\ ep[w] \in Endpoints
        /\ result'[w] \in {"SUCCESS", "FAILED"}
        /\ result'[w] = "SUCCESS" => no[w] \in received'[ep[w]]
    BY <1>7 DEF Answer, rows, RunsOK, RunOK
  <2>2. RunOK(w)'
    BY <2>1 DEF RunsOK, RunOK
  <2>3. QED
    BY <2>1, <2>2, OtherRuns
<1>8. ASSUME NEW w \in Slots, LockEvent(w), ~ End(w)
      PROVE  RunsOK' /\ OneWriter' /\ SendsOnlyWhileActive'
  <2>1. /\ \A v \in Slots \ {w} :
             pc'[v] = pc[v] /\ ep'[v] = ep[v] /\ no'[v] = no[v] /\ result'[v] = result[v]
        /\ ep'[w] = ep[w] /\ no'[w] = no[w] /\ result'[w] = result[w]
        /\ active' = active /\ work' = work /\ received' = received
        /\ pc[w] = "answered" /\ pc'[w] = "write" /\ ~ EventHeld /\ OwnsClaim(w)
    BY <1>8 DEF LockEvent, rows
  <2>2. RunOK(w)'
    BY <2>1 DEF RunsOK, RunOK, OwnsClaim
  <2>3. RunsOK'
    BY <2>1, <2>2, RunFrame DEF RunsOK
  <2>4. OneWriter'
    BY <2>1 DEF OneWriter, EventHeld
  <2>5. SendsOnlyWhileActive'
    BY <2>1 DEF SendsOnlyWhileActive
  <2>6. QED
    BY <2>3, <2>4, <2>5
<1>9. ASSUME NEW w \in Slots, SendTimesOut(w)
      PROVE  RunsOK' /\ OneWriter' /\ SendsOnlyWhileActive'
  <2>1. /\ \A v \in Slots \ {w} :
             pc'[v] = pc[v] /\ ep'[v] = ep[v] /\ no'[v] = no[v] /\ result'[v] = result[v]
        /\ ep'[w] = ep[w] /\ no'[w] = no[w] /\ result'[w] = result[w]
        /\ active' = active /\ work' = work /\ received' = received
        /\ pc[w] = "http" /\ pc'[w] = "late"
    BY <1>9 DEF SendTimesOut, rows
  <2>2. RunOK(w)'
    BY <2>1 DEF RunsOK, RunOK
  <2>3. QED
    BY <2>1, <2>2, OtherRuns
<1>10. QED
  <2>1. ASSUME \/ CommitEvent \/ Select \/ CreateWork
               \/ \E e \in Endpoints : \/ Dispatch(e) \/ Wake(e)
                                        \/ LeaseExpires(e) \/ ComesDue(e)
               \/ \E r \in Scanners, e \in Endpoints : ReadExpired(r, e)
               \/ \E r \in Scanners : Mark(r)
               \/ \E r \in Owners, e \in Endpoints, k \in Keys : StartReplay(r, e, k)
               \/ \E r \in Refreshers : Compute(r) \/ Commit(r) \/ TxAborts(r)
               \/ UNCHANGED vars
        PROVE  UNCHANGED <<runs, active>>
    BY <2>1 DEF CommitEvent, Select, CreateWork, Dispatch, Wake, LeaseExpires, ComesDue,
       ReadExpired, Mark, StartReplay, Compute, Commit, TxAborts, vars
  <2>2. ASSUME NEW w \in Slots, NEW r \in Refreshers, BreakDeadlock(w, r)
        PROVE  UNCHANGED <<runs, active>> \/ (End(w) /\ UNCHANGED active)
    BY <2>2 DEF BreakDeadlock
  <2>3. ASSUME NEW w \in Slots,
               ClaimNothing(w) \/ LateAnswer(w) \/ Settle(w) \/ RunAborts(w)
        PROVE  End(w) /\ UNCHANGED active
    BY <2>3 DEF ClaimNothing, LateAnswer, Settle, RunAborts
  <2>4. ASSUME NEW w \in Slots, LockEvent(w)
        PROVE  UNCHANGED active
    BY <2>4 DEF LockEvent
  <2>5. QED
    BY <1>1, <1>2, <1>3, <1>4, <1>5, <1>6, <1>7, <1>8, <1>9, <2>1, <2>2, <2>3, <2>4
       DEF Next, RunStep

-----------------------------------------------------------------------------
(* Transactions                                                             *)

\* A claim that was read stays one that was reserved.
LEMMA SeenStays ==
    ASSUME IInv, NEW e \in Endpoints, EndpointStep(e), work[e] \in WorkRows,
           work'[e] \in WorkRows, NEW old \in WorkRows, Seen(old, work[e])
    PROVE  Seen(old, work'[e])
<1> USE DEF IInv
<1>1. /\ old.cycle \in Nat /\ old.attempt \in Nat
      /\ work[e].cycle \in Nat /\ work[e].attempt \in Nat
  BY Fields, ConstantsOK DEF Cycles
<1>2. ASSUME NEW w \in Slots, ReservesOf(w, e) \/ SettlesOf(w, e)
      PROVE  Seen(old, work'[e])
  BY <1>1, <1>2 DEF ReservesOf, Reserved, SettlesOf, Settles, Seen
<1>3. ASSUME NEW r \in Refreshers, ReleasesOf(r, e) \/ ReopensOf(r, e)
      PROVE  Seen(old, work'[e])
  BY <1>1, <1>3 DEF ReleasesOf, Releases, ReopensOf, Reopens, Seen
<1>4. ASSUME Touched(work[e], work'[e])
      PROVE  Seen(old, work'[e])
  BY <1>4, TouchedOK
<1>5. work[e] # NoWork
  BY NullsOK
<1>6. QED
  BY <1>2, <1>3, <1>4, <1>5 DEF EndpointStep

\* What a transaction is about to overwrite is locked: nobody else writes it.
LEMMA TxFrame ==
    ASSUME IInv, [Next]_vars, NEW r \in Refreshers, tx'[r] = tx[r]
    PROVE  TxOK(r)'
<1> USE DEF IInv, TypeOK
<1>1. PICK t \in Txs : t = tx[r] /\ t = tx'[r]
  OBVIOUS
<1>2. TxOK(r)
  BY DEF TxsOK
<1>3. CASE t.step = "idle"
  BY <1>1, <1>2, <1>3 DEF TxOK, Open
<1>4. CASE t.step # "idle"
  <2>1. PICK e \in Endpoints : e = t.ep /\ work[e] # NoWork /\ t.row # NoWork
    BY <1>1, <1>2, <1>4 DEF TxOK
  <2>2. /\ work[e] \in WorkRows /\ work'[e] \in WorkRows /\ work'[e] # NoWork
        /\ EndpointStep(e) /\ t.row \in WorkRows
    <3>1. work[e] \in WorkRows /\ t.row \in WorkRows
      BY <2>1 DEF Txs
    <3>2. QED
      BY <2>1, <3>1, StepIsRowStep DEF RowStep
  <2>3. t.step = "read" => t.key = NoKey /\ Seen(t.row, work'[e])
    BY <1>1, <1>2, <2>1, <2>2, SeenStays DEF TxOK
  <2>4. CASE ~ Open(r) \/ (t.key = NoKey /\ ~ t.writes)
    <3>1. t.key = NoKey /\ Open(r) => ~ t.marks
      BY <1>1, <1>2, <2>4 DEF TxOK
    <3>2. Open(r)' = Open(r)
      BY <1>1 DEF Open
    <3>3. QED
      BY <1>1, <2>1, <2>2, <2>3, <2>4, <3>1, <3>2 DEF TxOK
  <2>5. CASE Open(r) /\ t.writes
    <3>1. LocksRow(r, e) /\ RowLocked(e)
      BY <1>1, <2>1, <2>5 DEF LocksRow, RowLocked
    <3>2. ~ \E w \in Slots : ReservesOf(w, e) \/ SettlesOf(w, e)
      BY <3>1 DEF ReservesOf, SettlesOf
    <3>3. ASSUME NEW q \in Refreshers, ReleasesOf(q, e) \/ ReopensOf(q, e)
          PROVE  FALSE
      <4>1. q = r
        BY <3>1, <3>3 DEF OneLocker, ReleasesOf, ReopensOf
      <4>2. tx'[r] = NoTx
        BY <3>3, <4>1 DEF ReleasesOf, ReopensOf
      <4>3. QED
        BY <1>1, <1>4, <4>2 DEF NoTx
    <3>4. (work'[e] = work[e] \/ Touched(work[e], work'[e])) /\ delivery'[e] = delivery[e]
      BY <2>1, <2>2, <3>2, <3>3 DEF EndpointStep
    <3>5. /\ Releases(t.row, work[e]) => Releases(t.row, work'[e])
          /\ Reopens(t.row, work[e]) => Reopens(t.row, work'[e])
      BY <2>2, <3>4, TouchedOK
    <3>6. Open(r)' /\ t.step # "read"
      BY <1>1, <2>5 DEF Open
    <3>7. CASE t.key = NoKey
      BY <1>1, <1>2, <2>1, <2>2, <2>5, <3>4, <3>5, <3>6, <3>7 DEF TxOK
    <3>8. CASE t.key # NoKey
      BY <1>1, <1>2, <2>1, <2>2, <2>5, <3>4, <3>5, <3>6, <3>8 DEF TxOK
    <3>9. QED
      BY <3>7, <3>8
  <2>6. CASE Open(r) /\ t.key # NoKey /\ ~ t.writes
    BY <1>1, <1>2, <2>6 DEF TxOK
  <2>7. QED
    BY <2>4, <2>5, <2>6 DEF Txs
<1>5. QED
  BY <1>3, <1>4

\* Only r's transaction changes, and what it locks was free or its own.
LEMMA OtherTxs ==
    ASSUME IInv, [Next]_vars, NEW r \in Refreshers, TxOK(r)',
           \A q \in Refreshers \ {r} : tx'[q] = tx[q],
           \A e \in Endpoints : LocksRow(r, e)' => LocksRow(r, e) \/ ~ RowLocked(e)
    PROVE  TxsOK' /\ OneLocker'
<1>1. TxsOK'
  BY TxFrame DEF TxsOK
<1>2. OneLocker'
  <2> SUFFICES ASSUME NEW e \in Endpoints, NEW p \in Refreshers, NEW q \in Refreshers,
                      LocksRow(p, e)', LocksRow(q, e)'
               PROVE  p = q
    BY DEF OneLocker
  <2>1. \A s \in Refreshers \ {r} : LocksRow(s, e)' => LocksRow(s, e)
    BY DEF LocksRow, Open
  <2>2. CASE p # r /\ q # r
    BY <2>1, <2>2 DEF IInv, OneLocker
  <2>3. CASE p = r /\ q # r
    BY <2>1, <2>3 DEF IInv, OneLocker, RowLocked
  <2>4. CASE p # r /\ q = r
    BY <2>1, <2>4 DEF IInv, OneLocker, RowLocked
  <2>5. QED
    BY <2>2, <2>3, <2>4
<1>3. QED
  BY <1>1, <1>2

LEMMA EndedTx ==
    ASSUME NEW r \in Refreshers, tx'[r] = NoTx
    PROVE  TxOK(r)' /\ \A e \in Endpoints : ~ LocksRow(r, e)'
BY DEF TxOK, NoTx, LocksRow, Open

LEMMA ReadExpiredTx ==
    ASSUME IInv, [Next]_vars, NEW r \in Refreshers, NEW e \in Endpoints, ReadExpired(r, e)
    PROVE  TxsOK' /\ OneLocker'
<1> USE DEF IInv, TypeOK
<1>1. /\ tx'[r] = [NoTx EXCEPT !.step = "read", !.ep = e, !.row = work[e]]
      /\ work' = work /\ work[e] # NoWork /\ work[e] \in WorkRows
      /\ work[e].token # NoToken
      /\ \A q \in Refreshers \ {r} : tx'[q] = tx[q]
  BY DEF ReadExpired, Expired, rows
<1>2. /\ tx'[r].step = "read" /\ tx'[r].ep = e /\ tx'[r].row = work[e]
      /\ tx'[r].key = NoKey
  BY <1>1 DEF NoTx
<1>3. work[e].attempt >= 1
  BY <1>1, Fields DEF DataOK, RowsOK, RowOK
<1>4. Seen(work[e], work[e])
  BY <1>1, <1>3 DEF Seen
<1>5. TxOK(r)' /\ \A f \in Endpoints : ~ LocksRow(r, f)'
  BY <1>1, <1>2, <1>4 DEF TxOK, Open, LocksRow
<1>6. QED
  BY <1>1, <1>5, OtherTxs

\* The updates match the claim that was read, or neither of them matches.
LEMMA MarkTx ==
    ASSUME IInv, [Next]_vars, NEW r \in Refreshers, Mark(r)
    PROVE  TxsOK' /\ OneLocker'
<1> USE DEF IInv, TypeOK
<1>1. PICK t \in Txs : t = tx[r]
  OBVIOUS
<1>2. PICK e \in Endpoints : e = t.ep /\ work[e] # NoWork
  BY <1>1 DEF Mark, TxsOK, TxOK
<1>3. PICK row \in WorkRows : row = work[e]
  BY <1>2
<1>4. t.step = "read" /\ t.key = NoKey /\ Seen(t.row, row) /\ t.row \in WorkRows /\ RowOK(row)
  BY <1>1, <1>2, <1>3 DEF Mark, TxsOK, TxOK, Txs, DataOK, RowsOK
<1> DEFINE n     == <<t.row.cycle, t.row.attempt>>
           owned == SameClaim(row, t.row)
           new   == IF owned THEN ReleasedRow(row) ELSE t.row
<1>5. n \in Attempts
  BY <1>4, Fields DEF Seen, Attempts
<1>6. delivery[e][n] = "PENDING" => owned
  <2> SUFFICES ASSUME delivery[e][n] = "PENDING" PROVE owned
    OBVIOUS
  <2>1. row.token # NoToken /\ t.row.cycle = row.cycle /\ t.row.attempt = row.attempt
    BY <1>2, <1>3, <1>5 DEF DataOK, PendingAttemptIsClaimed
  <2>2. row.cycle \in Nat /\ row.attempt \in Nat
    BY Fields DEF Cycles
  <2>3. row.token = t.row.token
    BY <1>4, <2>1, <2>2 DEF Seen
  <2>4. QED
    BY <2>1, <2>3 DEF SameClaim
<1>7. owned => /\ ReleasedRow(row) \in WorkRows /\ Releases(ReleasedRow(row), row)
               /\ n = <<ReleasedRow(row).cycle, ReleasedRow(row).attempt>>
  BY <1>4, ReleasedRowOK DEF SameClaim, Seen, Releases
<1>8. new \in WorkRows /\ new # NoWork
  BY <1>4, <1>7, NullsOK
<1>9. /\ tx' = [tx EXCEPT ![r] = [t EXCEPT !.step = "wrote", !.writes = owned,
                                          !.marks = delivery[e][n] = "PENDING", !.row = new]]
      /\ work' = work /\ delivery' = delivery /\ ~ RowLocked(e)
  <2>1. work' = work /\ delivery' = delivery /\ ~ RowLocked(e)
    BY <1>1, <1>2 DEF Mark, rows
  <2>2. tx' = [tx EXCEPT ![r] = [t EXCEPT !.step = "wrote", !.writes = owned,
                                          !.marks = delivery[e][n] = "PENDING", !.row = new]]
    BY <1>1, <1>2, <1>3 DEF Mark
  <2>3. QED
    BY <2>1, <2>2
<1>10. /\ tx'[r].step = "wrote" /\ tx'[r].ep = e /\ tx'[r].key = NoKey /\ tx'[r].row = new
       /\ tx'[r].writes <=> owned
       /\ tx'[r].marks <=> delivery[e][n] = "PENDING"
  BY <1>2, <1>4, <1>9 DEF Txs
<1> HIDE DEF owned, new
<1>11. TxOK(r)'
  <2>1. Open(r)' /\ tx'[r].step = "wrote"
    BY <1>10 DEF Open
  <2>2. owned => Releases(new, row) /\ n = <<new.cycle, new.attempt>>
    BY <1>7 DEF new
  <2>3. QED
    BY <1>2, <1>3, <1>6, <1>8, <1>9, <1>10, <2>1, <2>2 DEF TxOK
<1>12. \A f \in Endpoints : LocksRow(r, f)' => ~ RowLocked(f)
  BY <1>9, <1>10 DEF LocksRow
<1>13. \A q \in Refreshers \ {r} : tx'[q] = tx[q]
  BY <1>9
<1>14. QED
  BY <1>11, <1>12, <1>13, OtherTxs

LEMMA StartReplayTx ==
    ASSUME IInv, [Next]_vars, NEW r \in Owners, NEW e \in Endpoints, NEW k \in Keys,
           StartReplay(r, e, k)
    PROVE  TxsOK' /\ OneLocker'
<1> USE DEF IInv, TypeOK
<1>1. r \in Refreshers
  BY DEF Refreshers
<1>2. PICK row \in WorkRows : row = work[e] /\ row.terminal /\ ~ row.completed
                              /\ row.cycle < MaxCycles
  BY DEF StartReplay, Replayable
<1>3. PICK new : new = [NewWork EXCEPT !.cycle = row.cycle + 1]
  OBVIOUS
<1>4. new \in WorkRows /\ new # NoWork /\ Reopens(new, row)
  BY <1>2, <1>3, ReopenedRowOK, NullsOK
<1>5. /\ tx' = [tx EXCEPT ![r] = [NoTx EXCEPT !.step = "wrote", !.ep = e, !.writes = TRUE,
                                             !.key = k, !.row = new]]
      /\ work' = work /\ delivery' = delivery /\ ~ RowLocked(e) /\ work[e] # NoWork
  BY <1>2, <1>3 DEF StartReplay, Replayable, rows
<1>6. /\ tx'[r].step = "wrote" /\ tx'[r].ep = e /\ tx'[r].key = k /\ tx'[r].row = new
      /\ tx'[r].writes /\ ~ tx'[r].marks
  BY <1>1, <1>5 DEF NoTx
<1>7. TxOK(r)'
  BY <1>2, <1>4, <1>5, <1>6, ConstantsOK DEF TxOK, Open
<1>8. \A f \in Endpoints : LocksRow(r, f)' => ~ RowLocked(f)
  BY <1>5, <1>6 DEF LocksRow
<1>9. \A q \in Refreshers \ {r} : tx'[q] = tx[q]
  BY <1>1, <1>5
<1>10. QED
  BY <1>1, <1>7, <1>8, <1>9, OtherTxs

LEMMA ComputeTx ==
    ASSUME IInv, [Next]_vars, NEW r \in Refreshers, Compute(r)
    PROVE  TxsOK' /\ OneLocker'
<1> USE DEF IInv, TypeOK
<1>1. PICK t \in Txs : t = tx[r]
  OBVIOUS
<1>2. PICK s : s = Aggregate(OwnWork(r))
  OBVIOUS
<1>3. /\ t.step = "wrote" /\ tx' = [tx EXCEPT ![r] = [t EXCEPT !.step = "computed", !.status = s]]
      /\ work' = work /\ delivery' = delivery
  BY <1>1, <1>2 DEF Compute, rows
<1>4. /\ tx'[r].step = "computed" /\ tx'[r].ep = t.ep /\ tx'[r].key = t.key
      /\ tx'[r].row = t.row /\ tx'[r].writes = t.writes /\ tx'[r].marks = t.marks
  BY <1>3 DEF Txs
<1>5. Open(r) /\ Open(r)' /\ TxOK(r)
  BY <1>1, <1>3, <1>4 DEF Open, TxsOK
<1>6. TxOK(r)'
  BY <1>1, <1>3, <1>4, <1>5 DEF TxOK
<1>7. \A f \in Endpoints : LocksRow(r, f)' => LocksRow(r, f)
  BY <1>1, <1>4, <1>5 DEF LocksRow
<1>8. \A q \in Refreshers \ {r} : tx'[q] = tx[q]
  BY <1>3
<1>9. QED
  BY <1>6, <1>7, <1>8, OtherTxs

\* Every step keeps what transactions must satisfy.
LEMMA TxsStep ==
    ASSUME IInv, [Next]_vars
    PROVE  TxsOK' /\ OneLocker'
<1> USE DEF IInv, TypeOK
<1>1. CASE UNCHANGED tx
  <2>1. TxsOK'
    BY <1>1, TxFrame DEF TxsOK
  <2>2. OneLocker'
    BY <1>1 DEF OneLocker, LocksRow, Open
  <2>3. QED
    BY <2>1, <2>2
<1>2. ASSUME NEW r \in Refreshers, tx' = [tx EXCEPT ![r] = NoTx]
      PROVE  TxsOK' /\ OneLocker'
  <2>1. tx'[r] = NoTx /\ \A q \in Refreshers \ {r} : tx'[q] = tx[q]
    BY <1>2
  <2>2. QED
    BY <2>1, EndedTx, OtherTxs
<1>3. ASSUME NEW r \in Refreshers, Commit(r) \/ TxAborts(r)
      PROVE  tx' = [tx EXCEPT ![r] = NoTx]
  BY <1>3 DEF Commit, TxAborts
<1>4. ASSUME NEW w \in Slots, NEW r \in Refreshers, BreakDeadlock(w, r)
      PROVE  UNCHANGED tx \/ tx' = [tx EXCEPT ![r] = NoTx]
  BY <1>4 DEF BreakDeadlock
<1>5. ASSUME \/ CommitEvent \/ Select \/ CreateWork
             \/ \E e \in Endpoints : \/ Dispatch(e) \/ Wake(e) \/ Toggle(e)
                                      \/ LeaseExpires(e) \/ ComesDue(e)
             \/ \E w \in Slots, e \in Endpoints : Take(w, e)
             \/ \E w \in Slots : RunStep(w) \/ RunAborts(w) \/ SendTimesOut(w)
             \/ UNCHANGED vars
      PROVE  UNCHANGED tx
  BY <1>5 DEF CommitEvent, Select, CreateWork, Dispatch, Wake, Toggle, LeaseExpires,
     ComesDue, Take, RunStep, Claim, ClaimNothing, LockEndpoint, Answer, LateAnswer,
     LockEvent, Settle, RunAborts, SendTimesOut, vars
<1>6. \A r \in Scanners : r \in Refreshers
  BY DEF Refreshers
<1>7. QED
  BY <1>1, <1>2, <1>3, <1>4, <1>5, <1>6, ReadExpiredTx, MarkTx, StartReplayTx, ComputeTx
     DEF Next

-----------------------------------------------------------------------------
(* Type correctness, with the invariant the counters need                   *)

LEMMA AggregateType ==
    ASSUME NEW wk
    PROVE  Aggregate(wk) \in Statuses
BY DEF Aggregate, Statuses

LEMMA EndType ==
    ASSUME TypeOK, NEW w \in Slots, End(w)
    PROVE  /\ pc' \in [Slots -> PCs]
           /\ ep' \in [Slots -> Endpoints \cup {NoEndpoint}]
           /\ no' \in [Slots -> Attempts]
           /\ result' \in [Slots -> Results]
BY ConstantsOK DEF TypeOK, End, PCs, Results, Attempts, Cycles

\* The rows are RowStep's; the other variables are left to each action.
RestOK ==
    /\ selection \in {"absent", "unrecorded", "recorded"}
    /\ targets \in SUBSET Endpoints
    /\ status \in Statuses
    /\ active \in [Endpoints -> BOOLEAN]
    /\ replays \in [Keys -> (Endpoints \X Cycles) \cup {NoReplay}]
    /\ wakeups \in SUBSET Endpoints
    /\ pc \in [Slots -> PCs]
    /\ ep \in [Slots -> Endpoints \cup {NoEndpoint}]
    /\ no \in [Slots -> Attempts]
    /\ result \in [Slots -> Results]
    /\ tx \in [Refreshers -> Txs]
    /\ received \in [Endpoints -> SUBSET Attempts]
    /\ faults \in 0..MaxFaults

LEMMA NoTxType == NoTx \in Txs
BY ConstantsOK DEF NoTx, Txs, TxSteps, Statuses

LEMMA FaultType == TypeOK /\ Fault => faults' \in 0..MaxFaults
BY ConstantsOK DEF TypeOK, Fault

LEMMA TypeStep ==
    ASSUME IInv, [Next]_vars
    PROVE  TypeOK'
<1> SUFFICES RestOK'
  BY StepIsRowStep DEF RowStep, RestOK, TypeOK
<1> USE DEF IInv, TypeOK, RestOK, event, rows, runs
<1>1. ASSUME CommitEvent \/ Select PROVE RestOK'
  BY <1>1 DEF CommitEvent, Select, Statuses
<1>2. ASSUME CreateWork PROVE RestOK'
  BY <1>2 DEF CreateWork
<1>3. ASSUME NEW e \in Endpoints, Dispatch(e) \/ Wake(e) \/ Toggle(e) PROVE RestOK'
  BY <1>3 DEF Dispatch, Wake, Toggle
<1>4. ASSUME NEW w \in Slots, NEW e \in Endpoints, Take(w, e) PROVE RestOK'
  BY <1>4 DEF Take, PCs
<1>5. ASSUME NEW w \in Slots, Claim(w) PROVE RestOK'
  <2>1. PICK e \in Endpoints : e = ep[w]
    BY <1>5 DEF Claim, RunsOK, RunOK
  <2>2. PICK row \in WorkRows : row = work[e] /\ row.attempt < MaxAttempts
    BY <1>5, <2>1 DEF Claim, Claimable
  <2>3. <<row.cycle, row.attempt + 1>> \in Attempts
    BY <2>2, Fields, ConstantsOK DEF Attempts
  <2>4. no' = [no EXCEPT ![w] = <<row.cycle, row.attempt + 1>>]
    BY <1>5, <2>1, <2>2 DEF Claim, Reserves
  <2>5. QED
    BY <1>5, <2>3, <2>4 DEF Claim, PCs
<1>6. ASSUME NEW w \in Slots, ClaimNothing(w) PROVE RestOK'
  BY <1>6, EndType DEF ClaimNothing
<1>7. ASSUME NEW w \in Slots, LockEndpoint(w) PROVE RestOK'
  BY <1>7 DEF LockEndpoint, PCs, Results
<1>8. ASSUME NEW w \in Slots, Answer(w) PROVE RestOK'
  <2>1. received' \in [Endpoints -> SUBSET Attempts]
    BY <1>8 DEF Answer, RunsOK, RunOK
  <2>2. result' \in [Slots -> Results]
    BY <1>8 DEF Answer, Results
  <2>3. QED
    BY <1>8, <2>1, <2>2 DEF Answer, PCs
<1>9. ASSUME NEW w \in Slots, LockEvent(w) PROVE RestOK'
  BY <1>9, EndType DEF LockEvent, PCs
<1>10. ASSUME NEW w \in Slots, Settle(w) PROVE RestOK'
  <2>1. status' \in Statuses
    BY <1>10 DEF Settle, Aggregate, Statuses
  <2>2. QED
    BY <1>10, <2>1, EndType DEF Settle
<1>11. ASSUME NEW w \in Slots, RunAborts(w) PROVE RestOK'
  BY <1>11, EndType, FaultType DEF RunAborts
<1>12. ASSUME NEW w \in Slots, SendTimesOut(w) PROVE RestOK'
  BY <1>12, FaultType DEF SendTimesOut, PCs
<1>13. ASSUME NEW w \in Slots, LateAnswer(w) PROVE RestOK'
  <2>1. received' \in [Endpoints -> SUBSET Attempts]
    BY <1>13 DEF LateAnswer, RunsOK, RunOK
  <2>2. QED
    BY <1>13, <2>1, EndType DEF LateAnswer
<1>14. ASSUME NEW r \in Refreshers, NEW e \in Endpoints, ReadExpired(r, e) PROVE RestOK'
  <2>1. [NoTx EXCEPT !.step = "read", !.ep = e, !.row = work[e]] \in Txs
    BY NoTxType DEF Txs, TxSteps
  <2>2. QED
    BY <1>14, <2>1 DEF ReadExpired
<1>15. ASSUME NEW r \in Refreshers, Mark(r) PROVE RestOK'
  <2>1. PICK t \in Txs : t = tx[r]
    OBVIOUS
  <2>2. PICK e \in Endpoints : e = t.ep /\ work[e] \in WorkRows /\ RowOK(work[e])
    BY <1>15, <2>1 DEF Mark, TxsOK, TxOK, DataOK, RowsOK
  <2>3. t.step = "read" /\ t.row \in WorkRows /\ t.row.token # NoToken
    BY <1>15, <2>1 DEF Mark, TxsOK, TxOK, Txs, Seen
  <2> DEFINE owned == SameClaim(work[e], t.row)
             marks == delivery[e][<<t.row.cycle, t.row.attempt>>] = "PENDING"
             new   == IF owned THEN ReleasedRow(work[e]) ELSE t.row
  <2>4. new \in WorkRows
    BY <2>2, <2>3, ReleasedRowOK DEF SameClaim
  <2>5. tx' = [tx EXCEPT ![r] = [t EXCEPT !.step = "wrote", !.writes = owned,
                                          !.marks = marks, !.row = new]]
    BY <1>15, <2>1, <2>2 DEF Mark
  <2>6. owned \in BOOLEAN /\ marks \in BOOLEAN
    BY DEF SameClaim
  <2>7. tx' \in [Refreshers -> Txs]
    <3> HIDE DEF owned, marks, new
    <3>1. [t EXCEPT !.step = "wrote", !.writes = owned, !.marks = marks, !.row = new] \in Txs
      BY <2>4, <2>6 DEF Txs, TxSteps
    <3>2. QED
      BY <2>5, <3>1
  <2>8. QED
    BY <1>15, <2>7 DEF Mark
<1>16. ASSUME NEW r \in Refreshers, NEW e \in Endpoints, NEW k \in Keys, StartReplay(r, e, k)
       PROVE  RestOK'
  <2>1. PICK row \in WorkRows : row = work[e] /\ row.terminal /\ ~ row.completed
                                /\ row.cycle < MaxCycles
    BY <1>16 DEF StartReplay, Replayable
  <2>2. PICK new : new = [NewWork EXCEPT !.cycle = row.cycle + 1]
    OBVIOUS
  <2>3. new \in WorkRows
    BY <2>1, <2>2, ReopenedRowOK
  <2>4. [NoTx EXCEPT !.step = "wrote", !.ep = e, !.writes = TRUE, !.key = k, !.row = new] \in Txs
    BY <2>3, NoTxType DEF Txs, TxSteps
  <2>5. tx' \in [Refreshers -> Txs]
    BY <1>16, <2>1, <2>2, <2>4 DEF StartReplay
  <2>6. QED
    BY <1>16, <2>5 DEF StartReplay
<1>17. ASSUME NEW r \in Refreshers, Compute(r) PROVE RestOK'
  <2>1. PICK s \in Statuses : s = Aggregate(OwnWork(r))
    BY AggregateType
  <2>2. [tx[r] EXCEPT !.step = "computed", !.status = s] \in Txs
    BY DEF Txs, TxSteps
  <2>3. QED
    BY <1>17, <2>1, <2>2 DEF Compute
<1>18. ASSUME NEW r \in Refreshers, Commit(r) PROVE RestOK'
  <2>1. PICK t \in Txs : t = tx[r]
    OBVIOUS
  <2>2. t.ep \in Endpoints /\ t.row \in WorkRows /\ t.status \in Statuses
    BY <1>18, <2>1 DEF Commit, TxsOK, TxOK, Txs
  <2>3. <<t.ep, t.row.cycle>> \in Endpoints \X Cycles
    BY <2>2, Fields
  <2>4. replays' \in [Keys -> (Endpoints \X Cycles) \cup {NoReplay}]
    BY <1>18, <2>1, <2>3 DEF Commit
  <2>5. QED
    BY <1>18, <2>1, <2>2, <2>4, NoTxType DEF Commit
<1>19. ASSUME NEW r \in Refreshers, TxAborts(r) PROVE RestOK'
  BY <1>19, NoTxType, FaultType DEF TxAborts
<1>20. ASSUME NEW w \in Slots, NEW r \in Refreshers, BreakDeadlock(w, r) PROVE RestOK'
  BY <1>20, NoTxType, EndType DEF BreakDeadlock
<1>21. ASSUME NEW e \in Endpoints, LeaseExpires(e) \/ ComesDue(e) PROVE RestOK'
  BY <1>21, FaultType DEF LeaseExpires, ComesDue
<1>22. CASE UNCHANGED vars
  BY <1>22 DEF vars
<1>23. Scanners \subseteq Refreshers /\ Owners \subseteq Refreshers
  BY DEF Refreshers
<1>24. QED
  BY <1>1, <1>2, <1>3, <1>4, <1>5, <1>6, <1>7, <1>8, <1>9, <1>10, <1>11, <1>12, <1>13,
     <1>14, <1>15, <1>16, <1>17, <1>18, <1>19, <1>20, <1>21, <1>22, <1>23 DEF Next, RunStep

-----------------------------------------------------------------------------
(* Safety                                                                   *)

LEMMA InitHolds == Init => IInv
<1> SUFFICES ASSUME Init PROVE IInv
  OBVIOUS
<1>1. TypeOK
  BY ConstantsOK, NoTxType DEF Init, TypeOK, Statuses, Deliveries, Results, PCs,
     Attempts, Cycles
<1>2. DataOK
  BY DEF Init, DataOK, RowsOK, PendingAttemptIsClaimed, SuccessIsRecorded, Outcome,
     RowOutcome
<1>3. RunsOK /\ OneWriter /\ SendsOnlyWhileActive
  BY DEF Init, RunsOK, RunOK, OneWriter, SendsOnlyWhileActive
<1>4. TxsOK /\ OneLocker
  BY DEF Init, TxsOK, TxOK, OneLocker, LocksRow, Open, NoTx
<1>5. QED
  BY <1>1, <1>2, <1>3, <1>4 DEF IInv

\* Work rows, attempt history, claims, locks and receivers agree, whatever
\* crashes, expires, comes late or is replayed.
THEOREM InvariantHolds == Spec => []IInv
<1>1. IInv /\ [Next]_vars => IInv'
  BY TypeStep, DataStep, RunsStep, TxsStep DEF IInv
<1>2. QED
  BY <1>1, InitHolds, PTL DEF Spec

\* Every variable keeps its type; the attempt counters stay within their limit
\* only because every reserved attempt is settled once.
THEOREM TypeCorrect == Spec => []TypeOK
<1>1. IInv => TypeOK
  BY DEF IInv
<1>2. QED
  BY <1>1, InvariantHolds, PTL

\* Every reserved attempt is counted by its run or by its reconciliation.
THEOREM AttemptsAreAccounted == Spec => []AttemptsAccounted
<1>1. IInv => AttemptsAccounted
  BY DEF IInv, DataOK, RowsOK, RowOK, AttemptsAccounted
<1>2. QED
  BY <1>1, InvariantHolds, PTL

\* A row that is not settled is one that some transaction can move.
THEOREM UnsettledMoves == Spec => []UnsettledCanMove
<1>1. IInv => UnsettledCanMove
  BY DEF IInv, DataOK, RowsOK, RowOK, UnsettledCanMove
<1>2. QED
  BY <1>1, InvariantHolds, PTL

\* An attempt is PENDING only under its claim.
THEOREM PendingIsClaimed == Spec => []PendingAttemptIsClaimed
<1>1. IInv => PendingAttemptIsClaimed
  BY DEF IInv, DataOK
<1>2. QED
  BY <1>1, InvariantHolds, PTL

\* The work row and the attempt history agree on success, and the receiver did
\* accept what is recorded as delivered.
THEOREM SuccessRecorded == Spec => []SuccessIsRecorded
<1>1. IInv => SuccessIsRecorded
  BY DEF IInv, DataOK
<1>2. QED
  BY <1>1, InvariantHolds, PTL

\* While the transaction that sent a request is open its endpoint is active; the
\* request itself may outlive it (DeactivationWaits).
THEOREM SendsWhileActive == Spec => []SendsOnlyWhileActive
<1>1. IInv => SendsOnlyWhileActive
  BY DEF IInv
<1>2. QED
  BY <1>1, InvariantHolds, PTL

-----------------------------------------------------------------------------
(* Replays                                                                  *)

\* A transaction's key is its own and still unused; only replays have one.
KeysOK ==
    \A r \in Refreshers : tx[r].key \in Keys =>
        /\ r \in Owners
        /\ replays[tx[r].key] = NoReplay
        /\ \A q \in Refreshers : tx[q].key = tx[r].key => q = r

ReplaysOf(e) == {k \in Keys : \E c \in Cycles : replays[k] = <<e, c>>}

CycleCount(e) == CycleOf(e) = 1 + Cardinality(ReplaysOf(e))

\* Transactions that keep or lose their keys disturb no key.
LEMMA KeysKept ==
    ASSUME KeysOK, replays' = replays,
           \A q \in Refreshers : tx'[q].key = tx[q].key \/ tx'[q].key = NoKey
    PROVE  KeysOK'
BY ConstantsOK DEF KeysOK

\* What a step does to the keys.
LEMMA KeysStep ==
    ASSUME IInv, KeysOK, [Next]_vars
    PROVE  KeysOK'
<1> USE DEF IInv, TypeOK
<1>1. NoTx.key = NoKey
  BY DEF NoTx
<1>2. ASSUME NEW r \in Refreshers,
             \/ \E e \in Endpoints : ReadExpired(r, e)
             \/ Mark(r) \/ Compute(r) \/ TxAborts(r)
      PROVE  KeysOK'
  <2>1. tx[r] \in Txs /\ replays' = replays
    BY <1>2 DEF ReadExpired, Mark, Compute, TxAborts, rows
  <2>2. \A q \in Refreshers \ {r} : tx'[q] = tx[q]
    BY <1>2 DEF ReadExpired, Mark, Compute, TxAborts
  <2>3. tx'[r].key \in {tx[r].key, NoKey}
    <3>1. CASE Mark(r)
      BY <2>1, <3>1 DEF Mark, Txs
    <3>2. CASE Compute(r)
      BY <2>1, <3>2 DEF Compute, Txs
    <3>3. CASE TxAborts(r)
      BY <1>1, <3>3 DEF TxAborts
    <3>4. ASSUME NEW e \in Endpoints, ReadExpired(r, e) PROVE tx'[r].key = NoKey
      BY <3>4 DEF ReadExpired, NoTx
    <3>5. QED
      BY <1>2, <3>1, <3>2, <3>3, <3>4
  <2>4. QED
    BY <2>1, <2>2, <2>3, KeysKept
<1>3. ASSUME NEW r \in Owners, NEW e \in Endpoints, NEW k \in Keys, StartReplay(r, e, k)
      PROVE  KeysOK'
  <2>1. r \in Refreshers /\ replays' = replays /\ \A q \in Refreshers \ {r} : tx'[q] = tx[q]
    BY <1>3 DEF StartReplay, rows, Refreshers
  <2>2. tx'[r].key = k
    BY <1>3, <2>1 DEF StartReplay, NoTx
  <2>3. replays[k] = NoReplay /\ \A q \in Refreshers : tx[q].key # k
    BY <1>3 DEF StartReplay, KeyUnused, KeysOK
  <2>4. SUFFICES ASSUME NEW q \in Refreshers, tx'[q].key \in Keys
                 PROVE  /\ q \in Owners
                        /\ replays[tx'[q].key] = NoReplay
                        /\ \A p \in Refreshers : tx'[p].key = tx'[q].key => p = q
    BY <2>1 DEF KeysOK
  <2>5. CASE q = r
    BY <2>1, <2>2, <2>3, <2>5
  <2>6. CASE q # r
    <3>1. tx'[q].key = tx[q].key /\ tx[q].key \in Keys /\ tx[q].key # k
      BY <2>1, <2>3, <2>4, <2>6
    <3>2. /\ q \in Owners /\ replays[tx[q].key] = NoReplay
          /\ \A p \in Refreshers : tx[p].key = tx[q].key => p = q
      BY <3>1 DEF KeysOK
    <3>3. \A p \in Refreshers : tx'[p].key = tx[q].key => p = q
      BY <2>1, <2>2, <3>1, <3>2
    <3>4. QED
      BY <2>1, <3>1, <3>2, <3>3
  <2>7. QED
    BY <2>5, <2>6
<1>4. ASSUME NEW r \in Refreshers, Commit(r)
      PROVE  KeysOK'
  <2>1. tx'[r].key = NoKey /\ \A q \in Refreshers \ {r} : tx'[q] = tx[q]
    BY <1>1, <1>4 DEF Commit
  <2>2. \A k \in Keys : k # tx[r].key => replays'[k] = replays[k]
    BY <1>4 DEF Commit
  <2>3. QED
    BY <2>1, <2>2, ConstantsOK DEF KeysOK
<1>5. ASSUME NEW w \in Slots, NEW r \in Refreshers, BreakDeadlock(w, r)
      PROVE  KeysOK'
  BY <1>1, <1>5, KeysKept DEF BreakDeadlock, rows
<1>6. ASSUME UNCHANGED <<tx, replays>>
      PROVE  KeysOK'
  BY <1>6 DEF KeysOK
<1>7. ASSUME \/ CommitEvent \/ Select \/ CreateWork
             \/ \E e \in Endpoints : \/ Dispatch(e) \/ Wake(e) \/ Toggle(e)
                                      \/ LeaseExpires(e) \/ ComesDue(e)
             \/ \E w \in Slots, e \in Endpoints : Take(w, e)
             \/ \E w \in Slots : RunStep(w) \/ RunAborts(w) \/ SendTimesOut(w)
             \/ UNCHANGED vars
      PROVE  UNCHANGED <<tx, replays>>
  BY <1>7 DEF CommitEvent, Select, CreateWork, Dispatch, Wake, Toggle, LeaseExpires,
     ComesDue, Take, RunStep, Claim, ClaimNothing, LockEndpoint, Answer, LateAnswer,
     LockEvent, Settle, RunAborts, SendTimesOut, rows, vars
<1>8. Scanners \subseteq Refreshers
  BY DEF Refreshers
<1>9. QED
  BY <1>2, <1>3, <1>4, <1>5, <1>6, <1>7, <1>8 DEF Next

\* A replay's commit opens the cycle and records its key, both once.
LEMMA CommitCounts ==
    ASSUME IInv, KeysOK, OneCyclePerReplay, [Next]_vars, NEW r \in Refreshers, Commit(r)
    PROVE  OneCyclePerReplay'
<1> USE DEF IInv, TypeOK
<1>1. PICK t \in Txs : t = tx[r]
  OBVIOUS
<1>2. TxOK(r) /\ Open(r)
  BY <1>1 DEF Commit, TxsOK, Open
<1>3. PICK a \in Endpoints : a = t.ep /\ work[a] \in WorkRows /\ t.row \in WorkRows
  BY <1>1, <1>2 DEF TxOK, Open, Txs
<1>4. /\ \A f \in Endpoints \ {a} : work'[f] = work[f]
      /\ work'[a] = IF t.writes THEN t.row ELSE work[a]
  BY <1>1, <1>3 DEF Commit, OwnWork
<1>5. /\ \A f \in Endpoints \ {a} : CycleOf(f)' = CycleOf(f)
      /\ CycleOf(a) = work[a].cycle
      /\ CycleOf(a)' = IF t.writes THEN t.row.cycle ELSE work[a].cycle
  BY <1>3, <1>4, NullsOK DEF CycleOf
<1>6. CASE t.key = NoKey
  <2>1. t.writes => t.row.cycle = work[a].cycle
    BY <1>1, <1>2, <1>3, <1>6 DEF TxOK, Releases
  <2>2. \A f \in Endpoints : CycleOf(f)' = CycleOf(f)
    BY <1>5, <2>1
  <2>3. replays' = replays
    BY <1>1, <1>6, ConstantsOK DEF Commit
  <2>4. QED
    BY <2>2, <2>3 DEF OneCyclePerReplay
<1>7. CASE t.key # NoKey
  <2>1. PICK k \in Keys : k = t.key
    BY <1>7 DEF Txs
  <2>2. t.writes /\ t.row.cycle = work[a].cycle + 1
    BY <1>1, <1>2, <1>3, <1>7 DEF TxOK, Reopens
  <2>3. CycleOf(a)' = CycleOf(a) + 1
    BY <1>5, <2>2
  <2>4. PICK c \in Cycles : c = t.row.cycle
    BY <1>3, Fields
  <2>5. replays' = [replays EXCEPT ![k] = <<a, c>>]
    BY <1>1, <1>3, <2>1, <2>4 DEF Commit
  <2>6. replays[k] = NoReplay
    BY <1>1, <2>1 DEF KeysOK
  <2>7. \A f \in Endpoints : k \notin ReplaysOf(f)
    <3>1. \A f \in Endpoints, d \in Cycles : <<f, d>> # NoReplay
      BY NullsOK
    <3>2. QED
      BY <2>6, <3>1 DEF ReplaysOf
  <2>8. ReplaysOf(a)' = ReplaysOf(a) \cup {k}
    BY <2>1, <2>5 DEF ReplaysOf
  <2>9. \A f \in Endpoints \ {a} : ReplaysOf(f)' = ReplaysOf(f)
    BY <2>1, <2>5, <2>7 DEF ReplaysOf
  <2>10. IsFiniteSet(ReplaysOf(a)) /\ Cardinality(ReplaysOf(a)) \in Nat
    <3>1. ReplaysOf(a) \in SUBSET Keys
      BY DEF ReplaysOf
    <3>2. QED
      BY <3>1, FS_Subset, FS_CardinalityType, ConstantsOK
  <2>11. Cardinality(ReplaysOf(a) \cup {k}) = Cardinality(ReplaysOf(a)) + 1
    BY <2>7, <2>10, FS_AddElement
  <2>12. \A f \in Endpoints : CycleCount(f)
    BY DEF OneCyclePerReplay, CycleCount, ReplaysOf
  <2>13. CycleCount(a)'
    BY <2>3, <2>8, <2>10, <2>11, <2>12 DEF CycleCount
  <2>14. \A f \in Endpoints \ {a} : CycleCount(f)'
    BY <1>5, <2>9, <2>12 DEF CycleCount
  <2>15. QED
    BY <2>13, <2>14 DEF OneCyclePerReplay, CycleCount, ReplaysOf
<1>8. QED
  BY <1>6, <1>7

LEMMA CountStep ==
    ASSUME IInv, KeysOK, OneCyclePerReplay, [Next]_vars
    PROVE  OneCyclePerReplay'
<1> USE DEF IInv, TypeOK
<1>1. ASSUME replays' = replays, \A e \in Endpoints : CycleOf(e)' = CycleOf(e)
      PROVE  OneCyclePerReplay'
  BY <1>1 DEF OneCyclePerReplay
<1>2. ASSUME UNCHANGED <<work, replays>> PROVE OneCyclePerReplay'
  BY <1>1, <1>2 DEF CycleOf
<1>3. ASSUME CreateWork PROVE OneCyclePerReplay'
  <2>1. NewWork # NoWork /\ NewWork.cycle = 1
    BY NewWorkType, NullsOK DEF NewWork
  <2>2. \A e \in Endpoints : CycleOf(e)' = CycleOf(e)
    BY <1>3, <2>1 DEF CreateWork, CycleOf
  <2>3. QED
    BY <1>1, <1>3, <2>2 DEF CreateWork
<1>4. ASSUME NEW e \in Endpoints, replays' = replays, work[e] # NoWork, work'[e] # NoWork,
             work'[e].cycle = work[e].cycle, \A f \in Endpoints \ {e} : work'[f] = work[f]
      PROVE  OneCyclePerReplay'
  <2>1. \A f \in Endpoints : CycleOf(f)' = CycleOf(f)
    BY <1>4 DEF CycleOf
  <2>2. QED
    BY <1>1, <1>4, <2>1
<1>5. ASSUME NEW w \in Slots, Claim(w) PROVE OneCyclePerReplay'
  <2>1. PICK e \in Endpoints : e = ep[w] /\ work[e] \in WorkRows
    BY <1>5 DEF Claim, Claimable, RunsOK, RunOK
  <2>2. PICK row \in WorkRows : row = work[e]
    BY <2>1
  <2>3. /\ work'[e].cycle = work[e].cycle /\ replays' = replays
        /\ \A f \in Endpoints \ {e} : work'[f] = work[f]
    BY <1>5, <2>1, <2>2 DEF Claim, Reserves, WorkRows
  <2>4. work'[e] \in WorkRows
    BY StepIsRowStep, <1>5, <2>1, <2>2, NullsOK DEF RowStep, Claim, Reserves, WorkRows
  <2>5. QED
    BY <1>4, <2>1, <2>3, <2>4, NullsOK
<1>6. ASSUME NEW w \in Slots, Settle(w) PROVE OneCyclePerReplay'
  <2>1. PICK e \in Endpoints : e = ep[w] /\ work[e] \in WorkRows
    BY <1>6, WriterOwns DEF Settle
  <2>2. SettledRow(w) \in WorkRows /\ Settles(SettledRow(w), work[e], result[w])
    BY <1>6, <2>1, WriterOwns, SettledRowOK DEF Settle
  <2>3. /\ work'[e] = SettledRow(w) /\ replays' = replays
        /\ \A f \in Endpoints \ {e} : work'[f] = work[f]
    BY <1>6, <2>1 DEF Settle
  <2>4. QED
    BY <1>4, <2>1, <2>2, <2>3, NullsOK DEF Settles
<1>7. ASSUME NEW e \in Endpoints, LeaseExpires(e) \/ ComesDue(e) PROVE OneCyclePerReplay'
  <2>1. PICK row \in WorkRows : row = work[e]
    BY <1>7 DEF LeaseExpires, ComesDue
  <2>2. /\ work'[e] \in {[row EXCEPT !.lease = "expired"], [row EXCEPT !.due = TRUE]}
        /\ replays' = replays /\ \A f \in Endpoints \ {e} : work'[f] = work[f]
    BY <1>7, <2>1 DEF LeaseExpires, ComesDue
  <2>3. work'[e].cycle = row.cycle /\ work'[e] \in WorkRows
    BY <2>2 DEF WorkRows
  <2>4. QED
    BY <1>4, <2>1, <2>2, <2>3, NullsOK
<1>8. ASSUME \/ CommitEvent \/ Select
             \/ \E e \in Endpoints : Dispatch(e) \/ Wake(e) \/ Toggle(e)
             \/ \E w \in Slots, e \in Endpoints : Take(w, e)
             \/ \E w \in Slots : \/ ClaimNothing(w) \/ LockEndpoint(w) \/ Answer(w)
                                  \/ SendTimesOut(w) \/ LateAnswer(w)
                                  \/ LockEvent(w) \/ RunAborts(w)
             \/ \E r \in Scanners, e \in Endpoints : ReadExpired(r, e)
             \/ \E r \in Scanners : Mark(r)
             \/ \E r \in Owners, e \in Endpoints, k \in Keys : StartReplay(r, e, k)
             \/ \E r \in Refreshers : Compute(r) \/ TxAborts(r)
             \/ \E w \in Slots, r \in Refreshers : BreakDeadlock(w, r)
             \/ UNCHANGED vars
      PROVE  UNCHANGED <<work, replays>>
  BY <1>8 DEF CommitEvent, Select, Dispatch, Wake, Toggle, Take, ClaimNothing,
     LockEndpoint, Answer, SendTimesOut, LateAnswer, LockEvent, RunAborts, ReadExpired,
     Mark, StartReplay, Compute, TxAborts, BreakDeadlock, rows, vars
<1>9. QED
  BY <1>2, <1>3, <1>5, <1>6, <1>7, <1>8, CommitCounts DEF Next, RunStep

\* Two replays, of one key or of two, never open two cycles for one request, and
\* none opens a cycle without leaving its row.
THEOREM ReplaysOpenCycles == Spec => []OneCyclePerReplay
<1>1. Init => KeysOK /\ OneCyclePerReplay
  <2> SUFFICES ASSUME Init PROVE KeysOK /\ OneCyclePerReplay
    OBVIOUS
  <2>1. KeysOK
    BY ConstantsOK DEF Init, KeysOK, NoTx
  <2>2. \A e \in Endpoints : ReplaysOf(e) = {}
    <3>1. \A f \in Endpoints, d \in Cycles : <<f, d>> # NoReplay
      BY NullsOK
    <3>2. QED
      BY <3>1 DEF Init, ReplaysOf
  <2>3. \A e \in Endpoints : CycleOf(e) = 1
    BY DEF Init, CycleOf
  <2>4. QED
    BY <2>1, <2>2, <2>3, FS_EmptySet DEF OneCyclePerReplay, ReplaysOf
<1>2. IInv /\ (KeysOK /\ OneCyclePerReplay) /\ [Next]_vars => (KeysOK /\ OneCyclePerReplay)'
  BY KeysStep, CountStep
<1>3. QED
  BY <1>1, <1>2, InvariantHolds, PTL DEF Spec

-----------------------------------------------------------------------------
(* Refinement                                                               *)

Accepted(e) == {n[1] : n \in received[e]}

LEMMA ContractState ==
    /\ Contract!contractVars = <<[e \in Endpoints |-> CycleOf(e)],
                                 [e \in Endpoints |-> Outcome(e)],
                                 [e \in Endpoints |-> Accepted(e)]>>
    /\ Contract!contractVars' = <<[e \in Endpoints |-> CycleOf(e)'],
                                  [e \in Endpoints |-> Outcome(e)'],
                                  [e \in Endpoints |-> Accepted(e)']>>
BY DEF Contract!contractVars, Accepted

LEMMA Outcomes ==
    ASSUME NEW row \in WorkRows
    PROVE  /\ RowOutcome(row) = "DISABLED" <=> row.terminal /\ row.completed
           /\ RowOutcome(row) = "FAILED" <=> row.terminal /\ ~ row.completed
           /\ RowOutcome(row) = "DELIVERED" <=> ~ row.terminal /\ row.completed
           /\ RowOutcome(row) = "PENDING" <=> ~ row.terminal /\ ~ row.completed
BY NullsOK, Fields DEF RowOutcome

\* A claimed row's cycle is not over; its settlement or its release may end it.
LEMMA ClaimedRowEnds ==
    ASSUME NEW row \in WorkRows, RowOK(row), row.token # NoToken,
           NEW new \in WorkRows, NEW res \in {"SUCCESS", "FAILED", "SKIPPED"},
           Settles(new, row, res) \/ (Releases(new, row) /\ res = "FAILED")
    PROVE  /\ RowOutcome(row) = "PENDING"
           /\ RowOutcome(new) \in {"PENDING", "DELIVERED", "FAILED", "DISABLED"}
           /\ RowOutcome(new) = "DELIVERED" => res = "SUCCESS"
           /\ new.cycle = row.cycle
<1>1. ~ row.terminal /\ ~ row.completed
  BY DEF RowOK
<1>2. RowOutcome(row) = "PENDING"
  BY <1>1, Outcomes
<1>3. RowOutcome(new) \in {"PENDING", "DELIVERED", "FAILED", "DISABLED"}
  BY Outcomes
<1>4. RowOutcome(new) = "DELIVERED" => res = "SUCCESS"
  BY Outcomes DEF Settles, Releases
<1>5. new.cycle = row.cycle
  BY DEF Settles, Releases
<1>6. QED
  BY <1>2, <1>3, <1>4, <1>5

\* The outcome is a function of the two flags.
LEMMA SameFlags ==
    ASSUME NEW row \in WorkRows, NEW new \in WorkRows,
           new.terminal = row.terminal, new.completed = row.completed
    PROVE  RowOutcome(new) = RowOutcome(row)
<1>1. row.terminal \in BOOLEAN /\ row.completed \in BOOLEAN
  BY Fields
<1>2. CASE row.terminal /\ row.completed
  <2>1. new.terminal /\ new.completed
    BY <1>2
  <2>2. RowOutcome(row) = "DISABLED" /\ RowOutcome(new) = "DISABLED"
    BY <1>2, <2>1, Outcomes
  <2>3. QED
    BY <2>2
<1>3. CASE row.terminal /\ ~ row.completed
  <2>1. new.terminal /\ ~ new.completed
    BY <1>3
  <2>2. RowOutcome(row) = "FAILED" /\ RowOutcome(new) = "FAILED"
    BY <1>3, <2>1, Outcomes
  <2>3. QED
    BY <2>2
<1>4. CASE ~ row.terminal /\ row.completed
  <2>1. ~ new.terminal /\ new.completed
    BY <1>4
  <2>2. RowOutcome(row) = "DELIVERED" /\ RowOutcome(new) = "DELIVERED"
    BY <1>4, <2>1, Outcomes
  <2>3. QED
    BY <2>2
<1>5. CASE ~ row.terminal /\ ~ row.completed
  <2>1. ~ new.terminal /\ ~ new.completed
    BY <1>5
  <2>2. RowOutcome(row) = "PENDING" /\ RowOutcome(new) = "PENDING"
    BY <1>5, <2>1, Outcomes
  <2>3. QED
    BY <2>2
<1>6. QED
  BY <1>1, <1>2, <1>3, <1>4, <1>5

\* Neither a first work row, nor a claim, nor the clock ends or opens a cycle.
LEMMA OpenRowStays ==
    ASSUME IInv, [Next]_vars, NEW e \in Endpoints,
           \/ work'[e] = work[e]
           \/ work[e] = NoWork /\ work'[e] = NewWork
           \/ work[e] # NoWork /\ Touched(work[e], work'[e])
           \/ \E w \in Slots : ReservesOf(w, e)
    PROVE  CycleOf(e)' = CycleOf(e) /\ Outcome(e)' = Outcome(e)
<1> USE DEF IInv, TypeOK
<1>1. CASE work'[e] = work[e]
  BY <1>1 DEF CycleOf, Outcome
<1>2. CASE work[e] = NoWork /\ work'[e] = NewWork
  <2>1. NewWork # NoWork /\ NewWork.cycle = 1 /\ ~ NewWork.terminal /\ ~ NewWork.completed
    BY NewWorkType, NullsOK DEF NewWork
  <2>2. RowOutcome(NewWork) = "PENDING"
    BY <2>1, NewWorkType, Outcomes
  <2>3. RowOutcome(NoWork) = "PENDING"
    BY DEF RowOutcome
  <2>4. QED
    BY <1>2, <2>1, <2>2, <2>3 DEF CycleOf, Outcome
<1>3. CASE work[e] # NoWork /\ (Touched(work[e], work'[e]) \/ \E w \in Slots : ReservesOf(w, e))
  <2>1. /\ work[e] \in WorkRows /\ work'[e] \in WorkRows /\ work'[e] # NoWork
    BY <1>3, StepIsRowStep DEF RowStep
  <2>2. work'[e].cycle = work[e].cycle /\ work'[e].terminal = work[e].terminal
        /\ work'[e].completed = work[e].completed
    BY <1>3, <2>1, Fields DEF Touched, ReservesOf, Reserved, Claimable
  <2>3. RowOutcome(work'[e]) = RowOutcome(work[e])
    BY <2>1, <2>2, SameFlags
  <2>4. QED
    BY <1>3, <2>1, <2>2, <2>3 DEF CycleOf, Outcome
<1>4. QED
  BY <1>1, <1>2, <1>3 DEF ReservesOf, Claimable

\* A step on e's cycle and outcome alone, as the contract allows it.
LEMMA CycleEnds ==
    ASSUME NEW e \in Endpoints, NEW o \in {"DELIVERED", "FAILED", "DISABLED"},
           Outcome(e) = "PENDING", Outcome(e)' = o,
           o = "DELIVERED" => CycleOf(e) \in Accepted(e),
           \A f \in Endpoints : CycleOf(f)' = CycleOf(f) /\ Accepted(f)' = Accepted(f),
           \A f \in Endpoints \ {e} : Outcome(f)' = Outcome(f)
    PROVE  Contract!Next
<1>1. Contract!Finish(e, o)
  <2>1. [f \in Endpoints |-> Outcome(f)][e] = "PENDING"
    OBVIOUS
  <2>2. o = "DELIVERED" => [f \in Endpoints |-> CycleOf(f)][e] \in [f \in Endpoints |-> Accepted(f)][e]
    OBVIOUS
  <2>3. [f \in Endpoints |-> Outcome(f)'] = [[f \in Endpoints |-> Outcome(f)] EXCEPT ![e] = o]
    OBVIOUS
  <2>4. /\ [f \in Endpoints |-> CycleOf(f)'] = [f \in Endpoints |-> CycleOf(f)]
        /\ [f \in Endpoints |-> Accepted(f)'] = [f \in Endpoints |-> Accepted(f)]
    OBVIOUS
  <2>5. QED
    BY <2>1, <2>2, <2>3, <2>4 DEF Contract!Finish, Accepted
<1>2. QED
  BY <1>1 DEF Contract!Next

LEMMA CycleReopens ==
    ASSUME NEW e \in Endpoints, Outcome(e) = "FAILED", Outcome(e)' = "PENDING",
           CycleOf(e)' = CycleOf(e) + 1,
           \A f \in Endpoints : Accepted(f)' = Accepted(f),
           \A f \in Endpoints \ {e} : CycleOf(f)' = CycleOf(f) /\ Outcome(f)' = Outcome(f)
    PROVE  Contract!Next
<1>1. Contract!Replay(e)
  <2>1. [f \in Endpoints |-> Outcome(f)][e] = "FAILED"
    OBVIOUS
  <2>2. [f \in Endpoints |-> Outcome(f)'] = [[f \in Endpoints |-> Outcome(f)] EXCEPT ![e] = "PENDING"]
    OBVIOUS
  <2>3. [f \in Endpoints |-> CycleOf(f)'] = [[f \in Endpoints |-> CycleOf(f)] EXCEPT ![e] = @ + 1]
    OBVIOUS
  <2>4. [f \in Endpoints |-> Accepted(f)'] = [f \in Endpoints |-> Accepted(f)]
    OBVIOUS
  <2>5. QED
    BY <2>1, <2>2, <2>3, <2>4 DEF Contract!Replay, Accepted
<1>2. QED
  BY <1>1 DEF Contract!Next

\* A request is accepted for a cycle the work row has reached.
LEMMA AnswerRefines ==
    ASSUME IInv, NEW w \in Slots, Answer(w) \/ LateAnswer(w)
    PROVE  [Contract!Next]_(Contract!contractVars)
<1> USE DEF IInv, TypeOK
<1>1. PICK e \in Endpoints : e = ep[w] /\ work[e] # NoWork /\ no[w][1] <= work[e].cycle
  BY DEF Answer, LateAnswer, RunsOK, RunOK
<1>2. PICK c \in Cycles : c = no[w][1]
  BY DEF Attempts
<1>3. \A f \in Endpoints : CycleOf(f)' = CycleOf(f) /\ Outcome(f)' = Outcome(f)
  BY DEF Answer, LateAnswer, rows, CycleOf, Outcome
<1>4. CASE received' = received
  BY <1>3, <1>4, ContractState DEF Accepted
<1>5. CASE received' = [received EXCEPT ![e] = @ \cup {no[w]}]
  <2>1. Accepted(e)' = Accepted(e) \cup {c}
    BY <1>2, <1>5 DEF Accepted
  <2>2. \A f \in Endpoints \ {e} : Accepted(f)' = Accepted(f)
    BY <1>5 DEF Accepted
  <2>3. Contract!Accept(e, c)
    <3>1. c <= [f \in Endpoints |-> CycleOf(f)][e]
      BY <1>1, <1>2 DEF CycleOf
    <3>2. [f \in Endpoints |-> Accepted(f)'] = [[f \in Endpoints |-> Accepted(f)] EXCEPT ![e] = @ \cup {c}]
      BY <2>1, <2>2
    <3>3. /\ [f \in Endpoints |-> CycleOf(f)'] = [f \in Endpoints |-> CycleOf(f)]
          /\ [f \in Endpoints |-> Outcome(f)'] = [f \in Endpoints |-> Outcome(f)]
      BY <1>3
    <3>4. QED
      BY <3>1, <3>2, <3>3 DEF Contract!Accept, Accepted
  <2>4. QED
    BY <2>3 DEF Contract!Next
<1>6. QED
  BY <1>1, <1>4, <1>5 DEF Answer, LateAnswer

\* A settlement or a commit ends or reopens the cycle of its endpoint, or none.
LEMMA RowChangeRefines ==
    ASSUME IInv, [Next]_vars, NEW e \in Endpoints, work'[e] # work[e],
           \A f \in Endpoints \ {e} : work'[f] = work[f], received' = received,
           \/ \E w \in Slots : SettlesOf(w, e)
           \/ \E r \in Refreshers : ReleasesOf(r, e) \/ ReopensOf(r, e)
    PROVE  [Contract!Next]_(Contract!contractVars)
<1> USE DEF IInv, TypeOK
<1>1. work[e] # NoWork
  <2>1. ASSUME NEW w \in Slots, SettlesOf(w, e)
        PROVE  work[e] # NoWork
    <3>1. pc[w] = "write" /\ ep[w] = e
      BY <2>1 DEF SettlesOf
    <3>2. QED
      BY <3>1, WriterOwns, NullsOK
  <2>2. ASSUME NEW r \in Refreshers, LocksRow(r, e)
        PROVE  work[e] # NoWork
    <3>1. TxOK(r) /\ tx[r].step # "idle" /\ tx[r].ep = e
      BY <2>2 DEF TxsOK, LocksRow, Open
    <3>2. QED
      BY <3>1 DEF TxOK
  <2>3. QED
    BY <2>1, <2>2 DEF ReleasesOf, ReopensOf
<1>2. /\ work[e] \in WorkRows /\ work'[e] \in WorkRows /\ work'[e] # NoWork /\ RowOK(work[e])
  BY <1>1, StepIsRowStep DEF RowStep, DataOK, RowsOK
<1>3. /\ CycleOf(e) = work[e].cycle /\ CycleOf(e)' = work'[e].cycle
      /\ Outcome(e) = RowOutcome(work[e]) /\ Outcome(e)' = RowOutcome(work'[e])
  BY <1>1, <1>2 DEF CycleOf, Outcome
<1>4. /\ \A f \in Endpoints : Accepted(f)' = Accepted(f)
      /\ \A f \in Endpoints \ {e} : CycleOf(f)' = CycleOf(f) /\ Outcome(f)' = Outcome(f)
  BY DEF Accepted, CycleOf, Outcome
<1>5. ASSUME NEW res \in {"SUCCESS", "FAILED", "SKIPPED"}, work[e].token # NoToken,
             \/ Settles(work'[e], work[e], res)
             \/ Releases(work'[e], work[e]) /\ res = "FAILED",
             res = "SUCCESS" => CycleOf(e) \in Accepted(e)
      PROVE  [Contract!Next]_(Contract!contractVars)
  <2>1. /\ Outcome(e) = "PENDING" /\ CycleOf(e)' = CycleOf(e)
        /\ Outcome(e)' \in {"PENDING", "DELIVERED", "FAILED", "DISABLED"}
        /\ Outcome(e)' = "DELIVERED" => res = "SUCCESS"
    BY <1>2, <1>3, <1>5, ClaimedRowEnds
  <2>2. CASE Outcome(e)' = "PENDING"
    BY <1>4, <2>1, <2>2, ContractState
  <2>3. CASE Outcome(e)' # "PENDING"
    <3>1. PICK o \in {"DELIVERED", "FAILED", "DISABLED"} : o = Outcome(e)'
      BY <2>1, <2>3
    <3>2. Contract!Next
      BY <1>4, <1>5, <2>1, <3>1, CycleEnds
    <3>3. QED
      BY <3>2
  <2>4. QED
    BY <2>2, <2>3
<1>6. ASSUME NEW w \in Slots, SettlesOf(w, e)
      PROVE  [Contract!Next]_(Contract!contractVars)
  <2>1. /\ pc[w] = "write" /\ ep[w] = e /\ Settles(work'[e], work[e], result[w])
    BY <1>6 DEF SettlesOf
  <2>2. /\ work[e].token # NoToken /\ no[w] = Now(e)
        /\ result[w] \in {"SUCCESS", "FAILED", "SKIPPED"}
    BY <2>1, WriterOwns
  <2>3. result[w] = "SUCCESS" => no[w] \in received[e]
    BY <2>1 DEF RunsOK, RunOK
  <2>4. result[w] = "SUCCESS" => CycleOf(e) \in Accepted(e)
    BY <1>3, <2>2, <2>3 DEF Accepted, Now
  <2>5. QED
    BY <1>5, <2>1, <2>2, <2>4
<1>7. ASSUME NEW r \in Refreshers, ReleasesOf(r, e)
      PROVE  [Contract!Next]_(Contract!contractVars)
  BY <1>5, <1>7 DEF ReleasesOf, Releases
<1>8. ASSUME NEW r \in Refreshers, ReopensOf(r, e)
      PROVE  [Contract!Next]_(Contract!contractVars)
  <2>1. /\ Outcome(e) = "FAILED" /\ Outcome(e)' = "PENDING"
        /\ CycleOf(e)' = CycleOf(e) + 1
    BY <1>2, <1>3, <1>8, Outcomes DEF ReopensOf, Reopens
  <2>2. Contract!Next
    BY <1>4, <2>1, CycleReopens
  <2>3. QED
    BY <2>2
<1>9. QED
  BY <1>6, <1>7, <1>8

LEMMA StepRefines ==
    ASSUME IInv, [Next]_vars
    PROVE  [Contract!Next]_(Contract!contractVars)
<1> USE DEF IInv, TypeOK
<1>1. ASSUME received' = received,
             \A e \in Endpoints :
               \/ work'[e] = work[e]
               \/ work[e] = NoWork /\ work'[e] = NewWork
               \/ work[e] # NoWork /\ Touched(work[e], work'[e])
               \/ \E w \in Slots : ReservesOf(w, e)
      PROVE  [Contract!Next]_(Contract!contractVars)
  <2>1. \A e \in Endpoints : /\ CycleOf(e)' = CycleOf(e) /\ Outcome(e)' = Outcome(e)
                             /\ Accepted(e)' = Accepted(e)
    BY <1>1, OpenRowStays DEF Accepted
  <2>2. QED
    BY <2>1, ContractState
<1>2. ASSUME NEW e \in Endpoints, \A f \in Endpoints \ {e} : work'[f] = work[f],
             received' = received
      PROVE  [Contract!Next]_(Contract!contractVars)
  <2>1. EndpointStep(e)
    BY StepIsRowStep DEF RowStep
  <2>2. CASE work'[e] = work[e]
    BY <1>1, <1>2, <2>2
  <2>3. CASE work'[e] # work[e]
    BY <1>1, <1>2, <2>1, <2>3, RowChangeRefines DEF EndpointStep
  <2>4. QED
    BY <2>2, <2>3
<1>3. ASSUME NEW w \in Slots, Claim(w) \/ Settle(w)
      PROVE  [Contract!Next]_(Contract!contractVars)
  <2>1. PICK e \in Endpoints : e = ep[w]
    BY <1>3 DEF Claim, Settle, RunsOK, RunOK
  <2>2. received' = received /\ \A f \in Endpoints \ {e} : work'[f] = work[f]
    BY <1>3, <2>1 DEF Claim, Reserves, Settle
  <2>3. QED
    BY <1>2, <2>2
<1>4. ASSUME NEW r \in Refreshers, Commit(r)
      PROVE  [Contract!Next]_(Contract!contractVars)
  <2>1. PICK e \in Endpoints : e = tx[r].ep
    BY <1>4 DEF Commit, TxsOK, TxOK
  <2>2. received' = received /\ \A f \in Endpoints \ {e} : work'[f] = work[f]
    BY <1>4, <2>1 DEF Commit, OwnWork
  <2>3. QED
    BY <1>2, <2>2
<1>5. ASSUME NEW e \in Endpoints, LeaseExpires(e) \/ ComesDue(e)
      PROVE  [Contract!Next]_(Contract!contractVars)
  <2>1. received' = received /\ \A f \in Endpoints \ {e} : work'[f] = work[f]
    BY <1>5 DEF LeaseExpires, ComesDue
  <2>2. QED
    BY <1>2, <2>1
<1>6. ASSUME CreateWork
      PROVE  [Contract!Next]_(Contract!contractVars)
  BY <1>1, <1>6 DEF CreateWork
<1>7. ASSUME work' = work, received' = received
      PROVE  [Contract!Next]_(Contract!contractVars)
  BY <1>1, <1>7
<1>8. ASSUME \/ CommitEvent \/ Select
             \/ \E e \in Endpoints : Dispatch(e) \/ Wake(e) \/ Toggle(e)
             \/ \E w \in Slots, e \in Endpoints : Take(w, e)
             \/ \E w \in Slots : \/ ClaimNothing(w) \/ LockEndpoint(w)
                                  \/ LockEvent(w) \/ RunAborts(w) \/ SendTimesOut(w)
             \/ \E r \in Scanners, e \in Endpoints : ReadExpired(r, e)
             \/ \E r \in Scanners : Mark(r)
             \/ \E r \in Owners, e \in Endpoints, k \in Keys : StartReplay(r, e, k)
             \/ \E r \in Refreshers : Compute(r) \/ TxAborts(r)
             \/ \E w \in Slots, r \in Refreshers : BreakDeadlock(w, r)
             \/ UNCHANGED vars
      PROVE  work' = work /\ received' = received
  BY <1>8 DEF CommitEvent, Select, Dispatch, Wake, Toggle, Take, ClaimNothing,
     LockEndpoint, LockEvent, RunAborts, SendTimesOut, ReadExpired, Mark, StartReplay,
     Compute, TxAborts, BreakDeadlock, rows, vars
<1>9. QED
  BY <1>3, <1>4, <1>5, <1>6, <1>7, <1>8, AnswerRefines DEF Next, RunStep

\* The delivery implements its contract: a cycle is DELIVERED only after its
\* receiver accepted a request of it, and only a FAILED one is followed by another.
THEOREM Implements == Spec => ImplementsContract
<1>1. Init => Contract!Init
  BY DEF Init, Contract!Init, CycleOf, Outcome, RowOutcome
<1>2. IInv /\ [Next]_vars => [Contract!Next]_(Contract!contractVars)
  BY StepRefines
<1>3. QED
  BY <1>1, <1>2, InvariantHolds, PTL DEF Spec, ImplementsContract, Contract!Spec
=============================================================================
