---------------------------- MODULE Organizations ----------------------------
(***************************************************************************)
(* Organizations, their members and their invitations                      *)
(* (actions/organization, actions/members, actions/register.ts,            *)
(* lib/authz).  Server actions read, decide and write in statements that    *)
(* interleave; a transaction is one step, after the reads made before it.   *)
(* Users stand for their e-mail addresses.  No code changes the role of a   *)
(* member or removes one, short of deleting the Organization.               *)
(***************************************************************************)
EXTENDS Naturals, FiniteSets

CONSTANTS
    Users, Names,
    Orgs, Invites,   \* ids the database may hand out, each once
    Actors,          \* concurrent server actions
    None, Gone       \* no row yet, and no row any more

VARIABLES
    registered,  \* users with a row: an address may be invited before it has one
    org,         \* Organization rows: None, Gone or [name, renamed]
    member,      \* Membership.role by Organization and user, None without a row
    invite,      \* OrganizationInvite rows: None, Gone or a record
    request      \* what each open server action is about to write

vars == <<registered, org, member, invite, request>>

Roles == {"OWNER", "ADMIN", "VIEWER"}   \* DEVELOPER may do none of this, like VIEWER
OrgRows == [name : Names, renamed : BOOLEAN]
InviteRows == [org : Orgs, email : Users, role : Roles \ {"OWNER"},
               accepted : BOOLEAN, expired : BOOLEAN]

Idle == [kind |-> "idle"]
OpenRequests ==
    [kind : {"create"}, user : Users, name : Names]
      \cup [kind : {"rename"}, org : Orgs, name : Names]
      \cup [kind : {"invite"}, org : Orgs, email : Users, role : Roles \ {"OWNER"}]
      \cup [kind : {"accept"}, invite : Invites, wasAccepted : BOOLEAN]

TypeOK ==
    /\ registered \in SUBSET Users
    /\ org \in [Orgs -> OrgRows \cup {None, Gone}]
    /\ member \in [Orgs -> [Users -> Roles \cup {None}]]
    /\ invite \in [Invites -> InviteRows \cup {None, Gone}]
    /\ request \in [Actors -> OpenRequests \cup {Idle}]

Init ==
    /\ registered \in SUBSET Users
    /\ org = [o \in Orgs |-> None]
    /\ member = [o \in Orgs |-> [u \in Users |-> None]]
    /\ invite = [i \in Invites |-> None]
    /\ request = [a \in Actors |-> Idle]

Live(o) == org[o] \notin {None, Gone}
Open(i) == invite[i] \notin {None, Gone}

\* requireRole, for the roles that manage an Organization.
Managed(o) == Live(o) /\ \E u \in registered : member[o][u] \in {"OWNER", "ADMIN"}

Begin(a, r) == request[a] = Idle /\ request' = [request EXCEPT ![a] = r]
Ends(a) == request' = [request EXCEPT ![a] = Idle]

Register(u) ==
    /\ u \notin registered
    /\ registered' = registered \cup {u}
    /\ UNCHANGED <<org, member, invite, request>>

-----------------------------------------------------------------------------
(* Names.  No unique index backs the checks.                                *)

Taken(name) == \E o \in Orgs : Live(o) /\ org[o].name = name

\* Mutant: no lock between the check and the insert.
BugNameLocked(name) == FALSE

\* The advisory lock of equivalent names, held until the transaction ends.
NameLocked(name) ==
    \E a \in Actors : request[a].kind = "create" /\ request[a].name = name

BeginCreate(a, u, name) ==
    /\ u \in registered
    /\ ~ NameLocked(name)
    /\ ~ Taken(name)
    /\ Begin(a, [kind |-> "create", user |-> u, name |-> name])
    /\ UNCHANGED <<registered, org, member, invite>>

CreateOrganization(a) ==
    /\ request[a].kind = "create"
    /\ \E o \in Orgs : org[o] = None
    /\ LET o == CHOOSE x \in Orgs : org[x] = None
       IN  /\ org' = [org EXCEPT ![o] =
                [name |-> request[a].name, renamed |-> FALSE]]
           /\ member' = [member EXCEPT ![o][request[a].user] = "OWNER"]
    /\ Ends(a)
    /\ UNCHANGED <<registered, invite>>

\* updateOrganization takes no lock between its check and its update.
BeginRename(a, o, name) ==
    /\ Managed(o)
    /\ \A x \in Orgs \ {o} : Live(x) => org[x].name # name
    /\ Begin(a, [kind |-> "rename", org |-> o, name |-> name])
    /\ UNCHANGED <<registered, org, member, invite>>

UpdateOrganization(a) ==
    /\ request[a].kind = "rename"
    /\ org' = IF Live(request[a].org)
              THEN [org EXCEPT ![request[a].org].name = request[a].name,
                               ![request[a].org].renamed = TRUE]
              ELSE org
    /\ Ends(a)
    /\ UNCHANGED <<registered, member, invite>>

\* Memberships and invitations go with their Organization.
Cascade(o) ==
    /\ member' = [member EXCEPT ![o] = [u \in Users |-> None]]
    /\ invite' = [i \in Invites |->
         IF Open(i) /\ invite[i].org = o THEN Gone ELSE invite[i]]

\* A customer, a subscription or anything of the ledger restricts the delete,
\* which then changes nothing.
DeleteOrganization(o, u) ==
    /\ Live(o) /\ member[o][u] = "OWNER"
    /\ org' = [org EXCEPT ![o] = Gone]
    /\ Cascade(o)
    /\ UNCHANGED <<registered, request>>

-----------------------------------------------------------------------------
(* Invitations.                                                             *)

\* No member and no active invite with the address, when inviteUser looked.
BeginInvite(a, o, email, role) ==
    /\ Managed(o)
    /\ email \notin registered \/ member[o][email] = None
    /\ \A i \in Invites : Open(i) => ~ /\ invite[i].org = o /\ invite[i].email = email
                                       /\ ~ invite[i].accepted /\ ~ invite[i].expired
    /\ Begin(a, [kind |-> "invite", org |-> o, email |-> email, role |-> role])
    /\ UNCHANGED <<registered, org, member, invite>>

InviteUser(a) ==
    /\ request[a].kind = "invite"
    /\ Live(request[a].org)
    /\ \E i \in Invites : invite[i] = None
    /\ invite' = [invite EXCEPT ![CHOOSE i \in Invites : invite[i] = None] =
         [org |-> request[a].org, email |-> request[a].email, role |-> request[a].role,
          accepted |-> FALSE, expired |-> FALSE]]
    /\ Ends(a)
    /\ UNCHANGED <<registered, org, member>>

\* 48 hours later.
Expire(i) ==
    /\ Open(i) /\ ~ invite[i].expired
    /\ invite' = [invite EXCEPT ![i].expired = TRUE]
    /\ UNCHANGED <<registered, org, member, request>>

\* Mutant: an accepted invitation can be cancelled too.
BugCancelInvite(i) ==
    /\ Open(i)
    /\ Managed(invite[i].org)
    /\ invite' = [invite EXCEPT ![i] = Gone]
    /\ UNCHANGED <<registered, org, member, request>>

CancelInvite(i) ==
    /\ Open(i) /\ ~ invite[i].accepted
    /\ Managed(invite[i].org)
    /\ invite' = [invite EXCEPT ![i] = Gone]
    /\ UNCHANGED <<registered, org, member, request>>

\* An accepted link may be followed again.
BeginAccept(a, i) ==
    /\ Open(i) /\ ~ invite[i].expired
    /\ invite[i].email \in registered
    /\ Begin(a, [kind |-> "accept", invite |-> i, wasAccepted |-> invite[i].accepted])
    /\ UNCHANGED <<registered, org, member, invite>>

\* The membership is created and the invite updated, or neither: a cancelled
\* invite is not found by the update, a deleted Organization by the insert.
Join(i) ==
    LET o == invite[i].org
        u == invite[i].email
    IN  member' = IF member[o][u] = None
                  THEN [member EXCEPT ![o][u] = invite[i].role] ELSE member

AcceptInvite(a) ==
    /\ request[a].kind = "accept"
    /\ LET i == request[a].invite
       IN  /\ Open(i)
           /\ Join(i)
           /\ invite' = IF request[a].wasAccepted THEN invite
                        ELSE [invite EXCEPT ![i].accepted = TRUE]
    /\ Ends(a)
    /\ UNCHANGED <<registered, org>>

\* Rolled back, refused by a constraint, or the process ended.
RequestFails(a) ==
    /\ request[a] # Idle
    /\ Ends(a)
    /\ UNCHANGED <<registered, org, member, invite>>

Next ==
    \/ \E u \in Users : Register(u) \/ \E o \in Orgs : DeleteOrganization(o, u)
    \/ \E i \in Invites : Expire(i) \/ CancelInvite(i)
    \/ \E a \in Actors :
         \/ CreateOrganization(a) \/ UpdateOrganization(a) \/ InviteUser(a)
         \/ AcceptInvite(a) \/ RequestFails(a)
         \/ \E u \in Users, n \in Names : BeginCreate(a, u, n)
         \/ \E o \in Orgs, n \in Names : BeginRename(a, o, n)
         \/ \E o \in Orgs, u \in Users, r \in Roles \ {"OWNER"} : BeginInvite(a, o, u, r)
         \/ \E i \in Invites : BeginAccept(a, i)

Spec == Init /\ [][Next]_vars

-----------------------------------------------------------------------------

\* Nobody is a member of an Organization but the user who created it, as its
\* only OWNER, and users with an accepted invitation of it in that very role:
\* one that was cancelled while it was being accepted, or that expired unused,
\* admits nobody (actions/organization/acceptInvite.ts:56).
MembersWereInvited ==
    \A o \in Orgs :
        /\ Cardinality({u \in Users : member[o][u] = "OWNER"}) <= 1
        /\ \A u \in Users :
             member[o][u] \notin {None, "OWNER"} =>
                \E i \in Invites : /\ Open(i) /\ invite[i].accepted
                                   /\ invite[i].org = o /\ invite[i].email = u
                                   /\ invite[i].role = member[o][u]

\* Without a unique index, the advisory lock alone keeps the names of created
\* Organizations apart: two bear one name only if one of them was renamed.
NamesDifferUnlessRenamed ==
    \A o, p \in Orgs :
        (o # p /\ Live(o) /\ Live(p) /\ org[o].name = org[p].name)
            => org[o].renamed \/ org[p].renamed

-----------------------------------------------------------------------------
(* What makes the two inductive.                                            *)

OneOwner ==
    \A o \in Orgs, u, v \in Users : member[o][u] = "OWNER" /\ member[o][v] = "OWNER" => u = v

Admitted(o, u) ==
    \E i \in Invites : /\ Open(i) /\ invite[i].accepted
                       /\ invite[i].org = o /\ invite[i].email = u
                       /\ invite[i].role = member[o][u]

MembersAdmitted ==
    \A o \in Orgs, u \in Users : member[o][u] \notin {None, "OWNER"} => Admitted(o, u)

\* Members and invitations are those of Organizations that exist.
RowsAreLive ==
    /\ \A o \in Orgs : ~ Live(o) => \A u \in Users : member[o][u] = None
    /\ \A i \in Invites : Open(i) => Live(invite[i].org)

\* An acceptance that saw the invitation accepted saw what lasts as it does.
AcceptancesStand ==
    \A a \in Actors : request[a].kind = "accept" =>
        /\ invite[request[a].invite] # None
        /\ request[a].wasAccepted /\ Open(request[a].invite) => invite[request[a].invite].accepted

\* A creation under way has its name to itself but for renamed Organizations.
CreationsAreAlone ==
    \A a \in Actors : request[a].kind = "create" =>
        /\ \A o \in Orgs : Live(o) /\ ~ org[o].renamed => org[o].name # request[a].name
        /\ \A b \in Actors : request[b].kind = "create" /\ request[b].name = request[a].name => b = a

IInv ==
    /\ TypeOK /\ OneOwner /\ MembersAdmitted /\ RowsAreLive /\ AcceptancesStand
    /\ CreationsAreAlone /\ NamesDifferUnlessRenamed
=============================================================================
