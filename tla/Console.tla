------------------------------- MODULE Console -------------------------------
(***************************************************************************)
(* The dashboard's forms and the server actions behind them: the dialogs    *)
(* of components/forms that create something for the Organization, two of   *)
(* which are shown a secret that is stored nowhere in clear and can be read *)
(* only there.  Browsers act on their own and the actions interleave;       *)
(* checks of roles and values are left out but for their refusal, and so    *)
(* are the clipboard and the lists behind the dialogs.                      *)
(***************************************************************************)
EXTENDS Naturals, Sequences

CONSTANTS
    Tabs,      \* browsers with one form each
    Names,     \* what a user may fill in: a name, an address, a URL, a pair
    MaxRows    \* bound on what is created

\* What a dialog can show: its fields, the row that was created, until it is
\* closed (otherwise success closes it), or the row that was there already.
InviteDialog == {"fields", "created", "duplicate"}
ApiKeyDialog == {"fields", "created"}
EndpointDialog == {"fields", "created"}
MetricDialog == {"fields"}
PlanDialog == {"fields"}
AttachDialog == {"fields"}

\* What else tells the six forms apart: the rows, active or not, among which the
\* action first looks for a duplicate, whether a unique index backs it, and
\* whether the audit row is a statement whose failure the action answers with.
InviteForm == [shows |-> InviteDialog, looksFor |-> {TRUE}, unique |-> FALSE,
               auditFails |-> FALSE]
ApiKeyForm == [shows |-> ApiKeyDialog, looksFor |-> {TRUE, FALSE}, unique |-> FALSE,
               auditFails |-> FALSE]
EndpointForm == [shows |-> EndpointDialog, looksFor |-> {}, unique |-> FALSE,
                 auditFails |-> FALSE]
MetricForm == [shows |-> MetricDialog, looksFor |-> {TRUE}, unique |-> TRUE,
               auditFails |-> TRUE]
PlanForm == [shows |-> PlanDialog, looksFor |-> {}, unique |-> FALSE,
             auditFails |-> TRUE]
AttachForm == [shows |-> AttachDialog, looksFor |-> {TRUE}, unique |-> TRUE,
               auditFails |-> TRUE]
Form == [invite |-> InviteForm, apiKey |-> ApiKeyForm, endpoint |-> EndpointForm,
         metric |-> MetricForm, plan |-> PlanForm, planMetric |-> AttachForm]
Forms == DOMAIN Form

VARIABLES
    form,       \* each tab's form
    dialog,     \* what it shows
    request,    \* its server action
    rows,       \* what was created, in order; a row's index is also its secret
    revealed, lost,   \* history: rows a dialog has shown, or whose answer got lost
    overlapped  \* history: <<form, name>> two actions were about to insert

vars == <<form, dialog, request, rows, revealed, lost, overlapped>>

Row == [form : Forms, name : Names, active : BOOLEAN]
NoRow == 0
Closed == [open |-> FALSE, shown |-> NoRow]
Idle == [at |-> "idle"]
Open(t) == dialog[t].open
Loading(t) == request[t] # Idle

TypeOK ==
    /\ form \in [Tabs -> Forms]
    /\ dialog \in [Tabs -> [open : BOOLEAN, shown : 0..MaxRows]]
    /\ request \in [Tabs -> {Idle} \cup
         [at : {"look", "insert", "answer"}, name : Names, row : 0..MaxRows,
          existed : BOOLEAN, mounted : BOOLEAN]]
    /\ rows \in Seq(Row) /\ Len(rows) <= MaxRows
    /\ {revealed, lost} \subseteq SUBSET (1..MaxRows)
    /\ overlapped \in SUBSET (Forms \X Names)

Init ==
    /\ form \in [Tabs -> Forms]
    /\ dialog = [t \in Tabs |-> Closed]
    /\ request = [t \in Tabs |-> Idle]
    /\ rows = <<>>
    /\ revealed = {} /\ lost = {}
    /\ overlapped = {}

-----------------------------------------------------------------------------
(* The dialog.                                                              *)

OpenDialog(t) ==
    /\ ~ Open(t) /\ ~ Loading(t)
    /\ dialog' = [dialog EXCEPT ![t].open = TRUE]
    /\ UNCHANGED <<form, request, rows, revealed, lost, overlapped>>

\* Mutant: the dialog may be closed while the action is under way.
BugMayClose(t) == Open(t)

\* Button, backdrop or Escape: refused while an action is under way.
MayClose(t) == Open(t) /\ ~ Loading(t)

CloseDialog(t) ==
    /\ MayClose(t)
    /\ dialog' = [dialog EXCEPT ![t] = Closed]
    /\ UNCHANGED <<form, request, rows, revealed, lost, overlapped>>

Submit(t, n) ==
    /\ Open(t) /\ dialog[t].shown = NoRow /\ ~ Loading(t)
    /\ request' = [request EXCEPT ![t] =
         [at |-> "look", name |-> n, row |-> NoRow, existed |-> FALSE, mounted |-> TRUE]]
    /\ UNCHANGED <<form, dialog, rows, revealed, lost, overlapped>>

\* The page is left or reloaded: the action goes on, its answer reaches nobody.
Leave(t) ==
    /\ Open(t)
    /\ dialog' = [dialog EXCEPT ![t] = Closed]
    /\ request' = IF Loading(t) THEN [request EXCEPT ![t].mounted = FALSE] ELSE request
    /\ UNCHANGED <<form, rows, revealed, lost, overlapped>>

-----------------------------------------------------------------------------
(* The server actions.                                                      *)

Same(f, n, states) ==
    {i \in 1..Len(rows) : rows[i].form = f /\ rows[i].name = n /\ rows[i].active \in states}

Reply(t, row, existed) ==
    request' = [request EXCEPT ![t].at = "answer", ![t].row = row, ![t].existed = existed]

LookForDuplicate(t) ==
    /\ request[t].at = "look"
    /\ LET f     == form[t]
           n     == request[t].name
           found == Same(f, n, Form[f].looksFor)
       IN  /\ IF found = {} THEN request' = [request EXCEPT ![t].at = "insert"]
              ELSE \E i \in found : Reply(t, IF "duplicate" \in Form[f].shows THEN i ELSE NoRow, TRUE)
           /\ overlapped' =
                IF \E u \in Tabs \ {t} : /\ form[u] = f /\ request[u].at = "insert"
                                         /\ request[u].name = n
                THEN overlapped \cup {<<f, n>>} ELSE overlapped
    /\ UNCHANGED <<form, dialog, rows, revealed, lost>>

\* Mutant: no unique index.
BugRefused(t) == FALSE

Refused(t) == Form[form[t]].unique /\ Same(form[t], request[t].name, {TRUE, FALSE}) # {}

\* The row stays although the audit row that was to follow it failed.
Insert(t) ==
    /\ request[t].at = "insert"
    /\ Len(rows) < MaxRows
    /\ IF Refused(t)
       THEN Reply(t, NoRow, FALSE) /\ UNCHANGED rows
       ELSE /\ rows' = Append(rows, [form |-> form[t], name |-> request[t].name, active |-> TRUE])
            /\ \/ Reply(t, Len(rows'), FALSE)
               \/ Form[form[t]].auditFails /\ Reply(t, NoRow, FALSE)
    /\ UNCHANGED <<form, dialog, revealed, lost, overlapped>>

\* An invalid value, a missing role, a failed statement.
Fail(t) ==
    /\ request[t].at \in {"look", "insert"}
    /\ Reply(t, NoRow, FALSE)
    /\ UNCHANGED <<form, dialog, rows, revealed, lost, overlapped>>

\* revokeApiKey; an invite accepted, cancelled or expired.
Retire(i) ==
    /\ i \in 1..Len(rows)
    /\ rows[i].form \in {"apiKey", "invite"} /\ rows[i].active
    /\ rows' = [rows EXCEPT ![i].active = FALSE]
    /\ UNCHANGED <<form, dialog, request, revealed, lost, overlapped>>

\* An error is a toast and leaves the form; a success is shown, or closes it.
Shows(t) ==
    LET r == request[t].row
    IN  IF r = NoRow THEN dialog[t]
        ELSE IF "created" \in Form[form[t]].shows THEN [dialog[t] EXCEPT !.shown = r]
        ELSE Closed

Answer(t) ==
    /\ request[t].at = "answer" /\ request[t].mounted
    /\ dialog' = [dialog EXCEPT ![t] = Shows(t)]
    /\ request' = [request EXCEPT ![t] = Idle]
    /\ revealed' = IF request[t].row = NoRow THEN revealed ELSE revealed \cup {request[t].row}
    /\ UNCHANGED <<form, rows, lost, overlapped>>

\* The connection broke, or the page is gone: the catch block's toast at most.
LoseAnswer(t) ==
    /\ request[t].at = "answer"
    /\ request' = [request EXCEPT ![t] = Idle]
    /\ lost' = IF request[t].row = NoRow THEN lost ELSE lost \cup {request[t].row}
    /\ UNCHANGED <<form, dialog, rows, revealed, overlapped>>

Next ==
    \/ \E t \in Tabs :
         \/ OpenDialog(t) \/ CloseDialog(t) \/ Leave(t)
         \/ LookForDuplicate(t) \/ Insert(t) \/ Fail(t) \/ Answer(t) \/ LoseAnswer(t)
         \/ \E n \in Names : Submit(t, n)
    \/ \E i \in 1..MaxRows : Retire(i)

Spec == Init /\ [][Next]_vars

-----------------------------------------------------------------------------

\* A secret is readable once, so none may slip away: each one created was shown
\* in an open dialog, or its answer is on its way, or the answer got lost with
\* the connection or the page.  A dialog that is closed or opened anew shows
\* nothing, and two show the same only when it is an existing invite's link.
\* (What has no secret may exist although its action answered an error.)
SecretsReachTheirTab ==
    /\ \A i \in 1..Len(rows) : "created" \in Form[rows[i].form].shows =>
         \/ i \in revealed \cup lost
         \/ \E t \in Tabs : request[t].at = "answer" /\ request[t].row = i
    /\ \A t \in Tabs :
         dialog[t].shown # NoRow => Open(t) /\ rows[dialog[t].shown].form = form[t]
    /\ \A t, u \in Tabs :
         (t # u /\ dialog[t].shown = dialog[u].shown /\ dialog[t].shown # NoRow)
            => form[t] = "invite"

\* A name that an action looks for first repeats only if two actions looked
\* before either had inserted; one that an index guards never repeats.
NamesRepeatOnlyByOverlap ==
    \A i, j \in 1..Len(rows) :
        LET f == rows[i].form
            n == rows[i].name
        IN  (i # j /\ {i, j} \subseteq Same(f, n, Form[f].looksFor))
              => <<f, n>> \in overlapped /\ ~ Form[f].unique
-----------------------------------------------------------------------------
(* What makes the two inductive.                                            *)

\* The tab shows the row, or an answer with it is on its way to the tab.
Holds(t, i) == dialog[t].shown = i \/ (request[t].at = "answer" /\ request[t].row = i)

\* Each row with a secret came to be known, and each is of the form of every tab
\* that holds it.
RowsAreAccounted ==
    \A i \in 1..Len(rows) : "created" \in Form[rows[i].form].shows =>
        i \in revealed \cup lost \/ \E t \in Tabs : request[t].at = "answer" /\ request[t].row = i

HeldRowsExist ==
    \A t \in Tabs, i \in 1..MaxRows : Holds(t, i) => i <= Len(rows) /\ rows[i].form = form[t]

HeldByOne ==
    \A t, u \in Tabs, i \in 1..MaxRows : t # u /\ Holds(t, i) /\ Holds(u, i) => form[t] = "invite"

\* What is shown, and what is loading for a page still there, has its dialog open.
DialogsAreOpen ==
    \A t \in Tabs : dialog[t].shown # NoRow \/ (Loading(t) /\ request[t].mounted) => Open(t)

\* An action that is about to insert found no duplicate, and there is none yet
\* unless another was about to insert the same.
InsertionsAreNoted ==
    \A t \in Tabs : request[t].at = "insert" =>
        LET f == form[t]
            n == request[t].name
        IN  \/ <<f, n>> \in overlapped
            \/ /\ Same(f, n, Form[f].looksFor) = {}
               /\ \A u \in Tabs \ {t} : ~ (request[u].at = "insert" /\ form[u] = f /\ request[u].name = n)

IInv ==
    /\ TypeOK /\ RowsAreAccounted /\ HeldRowsExist /\ HeldByOne /\ DialogsAreOpen
    /\ InsertionsAreNoted /\ NamesRepeatOnlyByOverlap
=============================================================================
