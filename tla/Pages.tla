-------------------------------- MODULE Pages --------------------------------
(***************************************************************************)
(* Buttons on server-rendered pages.  A page shows a row as it was when the *)
(* page was rendered and offers the moves that fit that state; the server   *)
(* action behind a button runs later, against what the row has become by    *)
(* then under other tabs, workers and the clock.  A move is named by the    *)
(* state its button promises.  Layout, texts and roles are left out, but    *)
(* for the refusal an action may answer.                                    *)
(***************************************************************************)
EXTENDS Naturals

CONSTANTS
    Tabs,          \* browsers with one page each
    Nothing,
    MaxReasons,    \* bound on the reasons typed into replay forms
    MaxKeys        \* bound on the idempotency keys they draw

-----------------------------------------------------------------------------
(* The states in which a page's query returns the row.                      *)

GetWebhooks == {"ACTIVE", "INACTIVE"}
GetApiKeys == {"ACTIVE", "REVOKED"}
GetPendingInvites == {"OPEN"}
GetInviteByToken == {"OPEN", "ACCEPTED", "EXPIRED"}
GetInvoice == {"PENDING", "PAID", "FAILED"}
GetPlans == {"ACTIVE", "INACTIVE"}
ListBillingWebhookEvents == {"PENDING", "EXHAUSTED", "DELIVERED"}
GetOrganization == {"LIVE", "n1", "n2", "EUR", "USD", "LOCKED"}

(* The moves its list offers for the state it shows.                        *)

WebhooksList == [ACTIVE |-> {"INACTIVE"}, INACTIVE |-> {"ACTIVE"}]
ApiKeysList == [ACTIVE |-> {"REVOKED"}]
PendingInvitesList == [s \in GetPendingInvites |-> {"CANCELED"}]
InviteCard == [OPEN |-> {"ACCEPTED"}]
InvoiceSection == [PENDING |-> {"PAID", "FAILED"}]
PlanCard == [INACTIVE |-> {"ACTIVE"}]
BillingDeliveryEvents == [EXHAUSTED |-> {"PENDING"}]
OrganizationForm == [n1 |-> {"n2"}, n2 |-> {"n1"}]
DangerZone == [LIVE |-> {"DELETED"}]
CurrencySection == [EUR |-> {"USD"}, USD |-> {"EUR"}, LOCKED |-> {"EUR", "USD"}]

(* Their buttons: whether success renders the page again (a navigation      *)
(* counts), whether the form then follows what was rendered, and whether    *)
(* an idempotency key goes with the request.                                *)

ToggleWebhookButton == [refreshes |-> TRUE, follows |-> TRUE, keyed |-> FALSE]
RevokeApiKeyButton == [refreshes |-> TRUE, follows |-> TRUE, keyed |-> FALSE]
CancelInviteButton == [refreshes |-> TRUE, follows |-> TRUE, keyed |-> FALSE]
AcceptInviteButton == [refreshes |-> TRUE, follows |-> TRUE, keyed |-> FALSE]
InvoiceActions == [refreshes |-> TRUE, follows |-> TRUE, keyed |-> FALSE]
ActivatePlanButton == [refreshes |-> TRUE, follows |-> TRUE, keyed |-> FALSE]
ReplayBillingWebhookButton == [refreshes |-> FALSE, follows |-> TRUE, keyed |-> TRUE]
SaveName == [refreshes |-> TRUE, follows |-> FALSE, keyed |-> FALSE]
DeleteButton == [refreshes |-> TRUE, follows |-> TRUE, keyed |-> FALSE]
SaveCurrency == [refreshes |-> TRUE, follows |-> TRUE, keyed |-> FALSE]

(* The pages.                                                               *)

PageOf(query, list, button) == [query |-> query, list |-> list, button |-> button]
WebhooksPage == PageOf(GetWebhooks, WebhooksList, ToggleWebhookButton)
ApiKeysPage == PageOf(GetApiKeys, ApiKeysList, RevokeApiKeyButton)
MembersPage == PageOf(GetPendingInvites, PendingInvitesList, CancelInviteButton)
InvitePage == PageOf(GetInviteByToken, InviteCard, AcceptInviteButton)
InvoicePage == PageOf(GetInvoice, InvoiceSection, InvoiceActions)
PlansPage == PageOf(GetPlans, PlanCard, ActivatePlanButton)
WebhookLogsPage == PageOf(ListBillingWebhookEvents, BillingDeliveryEvents, ReplayBillingWebhookButton)
NameSettings == PageOf(GetOrganization, OrganizationForm, SaveName)
DangerSettings == PageOf(GetOrganization, DangerZone, DeleteButton)
SettingsPage == PageOf(GetOrganization, CurrencySection, SaveCurrency)
Page ==
    [webhooks |-> WebhooksPage, apiKeys |-> ApiKeysPage, members |-> MembersPage,
     invite |-> InvitePage, invoice |-> InvoicePage, plans |-> PlansPage,
     logs |-> WebhookLogsPage, name |-> NameSettings, danger |-> DangerSettings,
     currency |-> SettingsPage]
Pages == DOMAIN Page

(* Their server actions: the states in which the checks let one pass and    *)
(* those in which its last statement still finds the row.                   *)

ToggleWebhook == [takes |-> {"ACTIVE", "INACTIVE"}, writes |-> {"ACTIVE", "INACTIVE"}]
RevokeApiKey == [takes |-> {"ACTIVE", "REVOKED"}, writes |-> {"ACTIVE", "REVOKED"}]
CancelInvite == [takes |-> {"OPEN", "EXPIRED", "ACCEPTED", "CANCELED"}, writes |-> {"OPEN", "EXPIRED"}]
AcceptInvite == [takes |-> {"OPEN", "ACCEPTED"}, writes |-> {"OPEN", "EXPIRED", "ACCEPTED"}]
MarkInvoicePaid == [takes |-> {"PENDING"}, writes |-> {"PENDING", "PAID", "FAILED"}]
MarkInvoiceFailed == [takes |-> {"PENDING"}, writes |-> {"PENDING", "PAID", "FAILED"}]
CreateSubscription == [takes |-> {"ACTIVE", "INACTIVE"}, writes |-> {"ACTIVE", "INACTIVE"}]
ReplayBillingWebhook == [takes |-> {"PENDING", "EXHAUSTED", "DELIVERED"}, writes |-> {"EXHAUSTED"}]
UpdateOrganization == [takes |-> {"n1", "n2"}, writes |-> {"n1", "n2"}]
DeleteOrganization == [takes |-> {"LIVE"}, writes |-> {"LIVE"}]
SetCurrency == [takes |-> {"EUR", "USD"}, writes |-> {"EUR", "USD"}]

\* Pages of one row.
Rows == {{p} : p \in Pages \ {"members", "invite"}} \cup {{"members", "invite"}}
ActionOf(p, label) ==
    CASE p = "webhooks" -> ToggleWebhook
      [] p = "apiKeys"  -> RevokeApiKey
      [] p = "members"  -> CancelInvite
      [] p = "invite"   -> AcceptInvite
      [] p = "invoice" /\ label = "PAID"   -> MarkInvoicePaid
      [] p = "invoice" /\ label = "FAILED" -> MarkInvoiceFailed
      [] p = "plans"    -> CreateSubscription
      [] p = "logs"     -> ReplayBillingWebhook
      [] p = "name"     -> UpdateOrganization
      [] p = "danger"   -> DeleteOrganization
      [] p = "currency" -> SetCurrency

States ==
    {"ACTIVE", "INACTIVE", "REVOKED", "OPEN", "CANCELED", "ACCEPTED", "EXPIRED",
     "PENDING", "PAID", "FAILED", "EXHAUSTED", "DELIVERED", "n1", "n2", "LIVE",
     "DELETED", "EUR", "USD", "LOCKED"}
Starts(p) ==
    CASE p \in {"webhooks", "apiKeys"} -> "ACTIVE"
      [] p \in {"members", "invite"}   -> "OPEN"
      [] p = "invoice"  -> "PENDING"
      [] p = "plans"    -> "INACTIVE"
      [] p = "logs"     -> "EXHAUSTED"
      [] p = "name"     -> "n1"
      [] p = "danger"   -> "LIVE"
      [] p = "currency" -> "EUR"

\* What the clock, a worker, an activation of another plan or a publication does.
Elsewhere(p) ==
    CASE p \in {"members", "invite"} -> {<<"OPEN", "EXPIRED">>}
      [] p = "plans"    -> {<<"ACTIVE", "INACTIVE">>}
      [] p = "logs"     -> {<<"PENDING", "EXHAUSTED">>, <<"PENDING", "DELIVERED">>}
      [] p = "currency" -> {<<"EUR", "LOCKED">>, <<"USD", "LOCKED">>}
      [] OTHER          -> {}

-----------------------------------------------------------------------------

VARIABLES
    page,       \* each tab's page; all of them show one row
    row,        \* its state in the database
    shown,      \* its state when the tab's page was rendered
    stale,      \* the tab waits for its page to be rendered again
    press,      \* the tab's request
    form,       \* its replay form: the reason typed and the key drawn for it
    drawn,      \* reasons typed and keys drawn so far
    replays     \* keys of the replays that were committed, with their reasons

vars == <<page, row, shown, stale, press, form, drawn, replays>>

Idle == [at |-> "idle"]
EmptyForm == [reason |-> 0, key |-> 0]
Busy(t) == press[t] # Idle
It(t) == Page[page[t]].button
Offered(t) ==
    IF shown[t] \in Page[page[t]].query \cap DOMAIN Page[page[t]].list
    THEN Page[page[t]].list[shown[t]] ELSE {}
Request(t) == ActionOf(page[t], press[t].label)

TypeOK ==
    /\ page \in [Tabs -> Pages] /\ row \in States
    /\ shown \in [Tabs -> States] /\ stale \in [Tabs -> BOOLEAN]
    /\ press \in [Tabs -> {Idle} \cup
         [at : {"check", "write", "answer"}, label : States, saw : States \cup {Nothing},
          form : [reason : 0..MaxReasons, key : 0..MaxKeys], ok : BOOLEAN,
          here : BOOLEAN]]
    /\ form \in [Tabs -> [reason : 0..MaxReasons, key : 0..MaxKeys]]
    /\ drawn \in [reasons : 0..MaxReasons, keys : 0..MaxKeys]
    /\ replays \subseteq [reason : 0..MaxReasons, key : 0..MaxKeys]

Init ==
    /\ \E r \in Rows : page \in [Tabs -> r] /\ row = Starts(CHOOSE p \in r : TRUE)
    /\ shown = [t \in Tabs |-> row]
    /\ stale = [t \in Tabs |-> FALSE]
    /\ press = [t \in Tabs |-> Idle]
    /\ form = [t \in Tabs |-> EmptyForm]
    /\ drawn = [reasons |-> 0, keys |-> 0]
    /\ replays = {}

-----------------------------------------------------------------------------
(* The browser.                                                             *)

\* The page is left and opened anew: what was typed is gone, and the answer to a
\* request that is under way reaches nobody.
Reload(t) ==
    /\ press' = IF Busy(t) THEN [press EXCEPT ![t].here = FALSE] ELSE press
    /\ shown' = [shown EXCEPT ![t] = row]
    /\ stale' = [stale EXCEPT ![t] = FALSE]
    /\ form' = [form EXCEPT ![t] = EmptyForm]
    /\ UNCHANGED <<page, row, drawn, replays>>

\* router.refresh: the page is rendered anew around the forms' own state.
Refresh(t) ==
    /\ stale[t]
    /\ shown' = IF It(t).follows THEN [shown EXCEPT ![t] = row] ELSE shown
    /\ stale' = [stale EXCEPT ![t] = FALSE]
    /\ UNCHANGED <<page, row, press, form, drawn, replays>>

\* Typing a reason forgets the key.
TypeReason(t) ==
    /\ It(t).keyed /\ drawn.reasons < MaxReasons
    /\ drawn' = [drawn EXCEPT !.reasons = @ + 1]
    /\ form' = [form EXCEPT ![t] = [reason |-> drawn'.reasons, key |-> 0]]
    /\ UNCHANGED <<page, row, shown, stale, press, replays>>

\* Mutant: every submit draws a key of its own.
BugNeedsKey(t) == It(t).keyed

NeedsKey(t) == It(t).keyed /\ form[t].key = 0

Press(t, label) ==
    /\ ~ Busy(t)
    /\ label \in Offered(t)
    /\ It(t).keyed => form[t].reason # 0
    /\ IF NeedsKey(t)
       THEN /\ drawn.keys < MaxKeys
            /\ drawn' = [drawn EXCEPT !.keys = @ + 1]
            /\ form' = [form EXCEPT ![t].key = drawn'.keys]
       ELSE UNCHANGED <<drawn, form>>
    /\ press' = [press EXCEPT ![t] =
         [at |-> "check", label |-> label, saw |-> Nothing, form |-> form'[t], ok |-> FALSE,
          here |-> TRUE]]
    /\ UNCHANGED <<page, row, shown, stale, replays>>

\* The buttons are free again as soon as the answer is there.
Answer(t) ==
    /\ press[t] # Idle /\ press[t].at = "answer" /\ press[t].here
    /\ stale' = [stale EXCEPT ![t] = @ \/ (press[t].ok /\ It(t).refreshes)]
    /\ shown' = IF press[t].ok /\ ~ It(t).follows
                THEN [shown EXCEPT ![t] = press[t].label] ELSE shown
    /\ press' = [press EXCEPT ![t] = Idle]
    /\ UNCHANGED <<page, row, form, drawn, replays>>

\* The connection broke: a message, and the page as it was.
LoseAnswer(t) ==
    /\ press[t] # Idle /\ press[t].at = "answer"
    /\ press' = [press EXCEPT ![t] = Idle]
    /\ UNCHANGED <<page, row, shown, stale, form, drawn, replays>>

-----------------------------------------------------------------------------
(* The server actions.                                                      *)

Check(t) ==
    /\ press[t] # Idle /\ press[t].at = "check"
    /\ press' = IF row \in Request(t).takes
                THEN [press EXCEPT ![t].at = "write", ![t].saw = row]
                ELSE [press EXCEPT ![t].at = "answer"]
    /\ UNCHANGED <<page, row, shown, stale, form, drawn, replays>>

\* A key that was used answers for the replay it began.
Repeats(t) == It(t).keyed /\ press[t].form \in replays

\* The statement that counts; what follows it, the audit row, may still fail.
Write(t) ==
    /\ press[t] # Idle /\ press[t].at = "write"
    /\ LET moves == row \in Request(t).writes /\ ~ Repeats(t)
       IN  /\ row' = IF moves THEN press[t].label ELSE row
           /\ replays' = IF moves /\ It(t).keyed THEN replays \cup {press[t].form} ELSE replays
           /\ \E audited \in BOOLEAN :
                press' = [press EXCEPT ![t].at = "answer",
                                       ![t].ok = audited /\ (moves \/ Repeats(t))]
    /\ UNCHANGED <<page, shown, stale, form, drawn>>

\* A missing role, a failed statement.
Fail(t) ==
    /\ press[t] # Idle /\ press[t].at \in {"check", "write"}
    /\ press' = [press EXCEPT ![t].at = "answer"]
    /\ UNCHANGED <<page, row, shown, stale, form, drawn, replays>>

Other ==
    /\ \E t \in Tabs : \E move \in Elsewhere(page[t]) :
         row = move[1] /\ row' = move[2]
    /\ UNCHANGED <<page, shown, stale, press, form, drawn, replays>>

Next ==
    \/ \E t \in Tabs :
         \/ Reload(t) \/ Refresh(t) \/ TypeReason(t) \/ Answer(t) \/ LoseAnswer(t)
         \/ Check(t) \/ Write(t) \/ Fail(t)
         \/ \E label \in States : Press(t, label)
    \/ Other

Spec == Init /\ [][Next]_vars

-----------------------------------------------------------------------------

\* A row in one of these states has been settled for good.
Settled == {"REVOKED", "ACCEPTED", "CANCELED", "PAID", "FAILED", "DELIVERED", "DELETED", "LOCKED"}

\* From however old a page, a press moves the row at most to what its button
\* said and never out of a settled state, unless it is an invoice's marking that
\* overlaps the one that settled it; and one reason submitted again after its
\* answer was lost begins no second replay.
PressIsSafe(t) ==
    \/ press[t] = Idle \/ press'[t] = press[t] \/ row' = row
    \/ /\ row' = press[t].label
       /\ row \in Settled => page[t] = "invoice" /\ press[t].saw = "PENDING"
       /\ It(t).keyed => \A r \in replays : r.reason # press[t].form.reason
PressesAreSafe == [][\A t \in Tabs : PressIsSafe(t)]_vars
-----------------------------------------------------------------------------
(* What makes presses safe.                                                 *)

\* A request does what its page has a button for, and writes only after its
\* check took the state it saw.
LabelsFit ==
    \A t \in Tabs : Busy(t) =>
        /\ \E s \in DOMAIN Page[page[t]].list : press[t].label \in Page[page[t]].list[s]
        /\ press[t].at = "write" => press[t].saw \in Request(t).takes

\* Reasons and keys that have gone to the server, as far as they still matter.
Sent == {press[t].form : t \in {u \in Tabs : Busy(u)}} \cup replays

\* No reason is typed twice.
ReasonsAreDrawn ==
    /\ \A f \in Sent : f.reason <= drawn.reasons
    /\ \A t \in Tabs : form[t].reason <= drawn.reasons
    /\ \A t, u \in Tabs : t # u /\ form[t].reason = form[u].reason => form[t].reason = 0

\* Only replay forms hold a reason, and there is no key without one.
FormsAreTyped ==
    /\ \A t \in Tabs : form[t].reason # 0 => It(t).keyed
    /\ \A t \in Tabs : form[t].reason = 0 => form[t].key = 0
    /\ \A f \in Sent : f.reason = 0 => f.key = 0

\* All that was sent with one reason bore one key, and a form that still has
\* the reason has the key as well.
KeysFollowReasons ==
    /\ \A f, g \in Sent : f.reason = g.reason => f.key = g.key
    /\ \A t \in Tabs, f \in Sent :
         form[t].reason # 0 /\ f.reason = form[t].reason => f.key = form[t].key /\ f.key # 0

IInv == TypeOK /\ LabelsFit /\ ReasonsAreDrawn /\ FormsAreTyped /\ KeysFollowReasons
=============================================================================
