----------------------------- MODULE LedgerExport -----------------------------
(***************************************************************************)
(* The owner's ledger export of one UTC month (lib/ledgerExport.ts,         *)
(* app/api/ledger-exports): a repeatable-read transaction reads the events  *)
(* in batches and stores them as numbered rows; a client then fetches the   *)
(* rows page by page.  Events keep being accepted and processed all the     *)
(* while.  An event is its place in the order of (timestamp, id); the       *)
(* digest and the totals are functions of the rows and left out.            *)
(***************************************************************************)
EXTENDS Naturals, Sequences, SequencesExt, FiniteSetsExt

CONSTANTS
    Places,      \* places in the order an event may take: 1..n
    BatchSize,   \* take of findMany, 500 in the code
    PageSize     \* rows of a page, 100 in the code

VARIABLES
    ledger,      \* the events stored: place -> processingState or "none"
    step,        \* of the export: "idle", "read", "rows", "stored"
    snapshot,    \* the ledger when the transaction began: what it sees
    collected,   \* the events read so far, in order
    rows,        \* LedgerExportRow by position, once committed
    page,        \* what the client has received
    cursor       \* its next cursor: a position, "start" or "end"

vars == <<ledger, step, snapshot, collected, rows, page, cursor>>

States == {"none", "PENDING", "PROCESSED"}
Ledgers == [Places -> States]
Entries == [place : Places, state : States \ {"none"}]
Empty == [p \in Places |-> "none"]
Start == 0
End == Max(Places) + 1

TypeOK ==
    /\ {ledger, snapshot} \subseteq Ledgers
    /\ step \in {"idle", "read", "rows", "stored"}
    /\ {collected, rows, page} \subseteq Seq(Entries)
    /\ cursor \in Start..End

Init ==
    /\ ledger = Empty
    /\ step = "idle"
    /\ snapshot = Empty
    /\ collected = <<>>
    /\ rows = <<>>
    /\ page = <<>>
    /\ cursor = Start

\* An occurrence time in the month may precede events accepted before it.
Accept(p) ==
    /\ ledger[p] = "none"
    /\ ledger' = [ledger EXCEPT ![p] = "PENDING"]
    /\ UNCHANGED <<step, snapshot, collected, rows, page, cursor>>

Process(p) ==
    /\ ledger[p] = "PENDING"
    /\ ledger' = [ledger EXCEPT ![p] = "PROCESSED"]
    /\ UNCHANGED <<step, snapshot, collected, rows, page, cursor>>

\* A claim that a completion overtook (LedgerProcessing).
Reopen(p) ==
    /\ ledger[p] = "PROCESSED"
    /\ ledger' = [ledger EXCEPT ![p] = "PENDING"]
    /\ UNCHANGED <<step, snapshot, collected, rows, page, cursor>>

-----------------------------------------------------------------------------
(* createLedgerExport.                                                      *)

Begin ==
    /\ step = "idle"
    /\ step' = "read"
    /\ snapshot' = ledger
    /\ UNCHANGED <<ledger, collected, rows, page, cursor>>

\* Mutant: READ COMMITTED, each query sees what is committed by then.
BugVisible == ledger

\* What a query of the transaction sees: REPEATABLE READ.
Visible == snapshot

Events(l) == {p \in Places : l[p] # "none"}

Ascending(read) == \A i, j \in 1..Len(read) : i < j => read[i].place < read[j].place
PlacesOf(read) == {read[i].place : i \in 1..Len(read)}

LastRead == IF collected = <<>> THEN 0 ELSE Last(collected).place

\* findMany in order, after the cursor row, which is skipped: the first
\* BatchSize of what is left, or all of it.
Batch(read) ==
    LET rest == {p \in Events(Visible) : p > LastRead}
    IN  /\ Ascending(read)
        /\ \A i \in 1..Len(read) : read[i].state = Visible[read[i].place]
        /\ PlacesOf(read) \subseteq rest
        /\ Len(read) = BatchSize \/ PlacesOf(read) = rest
        /\ \A p \in PlacesOf(read), q \in rest \ PlacesOf(read) : p < q

\* A full batch is always followed by another, even an empty one.
ReadBatch ==
    /\ step = "read"
    /\ \E batch \in BoundedSeq(Entries, BatchSize) :
         /\ Batch(batch)
         /\ collected' = collected \o batch
         /\ step' = IF Len(batch) < BatchSize THEN "rows" ELSE "read"
    /\ UNCHANGED <<ledger, snapshot, rows, page, cursor>>

Store ==
    /\ step = "rows"
    /\ rows' = collected
    /\ step' = "stored"
    /\ UNCHANGED <<ledger, snapshot, collected, page, cursor>>

\* Rolled back or timed out after 120 s; the owner may ask again.
ExportFails ==
    /\ step \in {"read", "rows"}
    /\ step' = "idle"
    /\ collected' = <<>>
    /\ snapshot' = Empty
    /\ UNCHANGED <<ledger, rows, page, cursor>>

-----------------------------------------------------------------------------
(* GET /api/ledger-exports/[id]: a position is the index of its row.         *)

After(position) == SubSeq(rows, position + 1, Len(rows))

\* One row more than a page is taken, to know whether there is a next one.
GetPage ==
    /\ step = "stored" /\ cursor # End
    /\ LET found == After(cursor)
           more  == Len(found) > PageSize
           got   == IF more THEN SubSeq(found, 1, PageSize) ELSE found
       IN  /\ page' = page \o got
           /\ cursor' = IF more THEN cursor + PageSize ELSE End
    /\ UNCHANGED <<ledger, step, snapshot, collected, rows>>

Next ==
    \/ \E p \in Places : Accept(p) \/ Process(p) \/ Reopen(p)
    \/ Begin \/ ReadBatch \/ Store \/ ExportFails \/ GetPage

Spec == Init /\ [][Next]_vars

-----------------------------------------------------------------------------

\* The pages a client has fetched are the month at the instant its export
\* began, in order: every event accepted by then is there once, in the state it
\* had, and no later one, however acceptance and processing interleave with
\* the batches, the rows and the pages.
PagesAreTheSnapshot ==
    /\ IsPrefix(page, rows)
    /\ cursor = End => page = rows
    /\ step = "stored" =>
         /\ \A i, j \in 1..Len(rows) : i < j => rows[i].place < rows[j].place
         /\ Range(rows) = {[place |-> p, state |-> snapshot[p]] : p \in Events(snapshot)}
-----------------------------------------------------------------------------
(* What makes PagesAreTheSnapshot inductive.                                *)

\* What is collected is what the snapshot holds up to the last that was read.
CollectedStands ==
    /\ step = "idle" => collected = <<>>
    /\ Ascending(collected)
    /\ \A i \in 1..Len(collected) : collected[i].state = snapshot[collected[i].place]
    /\ {p \in Events(snapshot) : p <= LastRead} \subseteq PlacesOf(collected)
    /\ step \in {"rows", "stored"} => Events(snapshot) \subseteq PlacesOf(collected)

\* What is fetched is the rows up to the cursor.
PageStands ==
    /\ rows = IF step = "stored" THEN collected ELSE <<>>
    /\ step # "stored" => cursor = Start
    /\ IF cursor = End THEN page = rows
       ELSE cursor <= Len(rows) /\ page = SubSeq(rows, 1, cursor)

IInv == TypeOK /\ CollectedStands /\ PageStands
=============================================================================
