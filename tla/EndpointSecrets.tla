--------------------------- MODULE EndpointSecrets ---------------------------
(***************************************************************************)
(* Signing secrets of one webhook endpoint: createEndpointForOwner,         *)
(* rotateEndpointSecretForOwner, a billing send under the endpoint's row    *)
(* lock (worker/processors/deliverBillingWebhook.ts), and the receiver of   *)
(* webhook-receiver/, which verifies with its current secret and, during    *)
(* the overlap, with the previous one.  A send's transaction is cut off     *)
(* after 7 s: its lock is gone then, while the request may still be under   *)
(* way.  Signatures, the five-minute window and the receiver's memory of    *)
(* event ids are left out.                                                  *)
(***************************************************************************)
EXTENDS Naturals, Sequences

CONSTANTS
    Secrets, NoSecret,   \* random values: each is generated once
    Tabs                 \* concurrent rotations by the owner

VARIABLES
    row,        \* WebhookEndpoint: secret and previousSecret
    overlap,    \* previousSecretExpiresAt lies in the future
    rotation,   \* each tab's transaction after its read: the secrets old and new
    flight,     \* the request under way: its secret, and whether the lock is held
    replies,    \* secrets returned to the owner and not yet deployed
    receiver,   \* WEBHOOK_SECRET and WEBHOOK_PREVIOUS_SECRET
    issued      \* history: the secrets committed, in order

vars == <<row, overlap, rotation, flight, replies, receiver, issued>>

Maybe == Secrets \cup {NoSecret}
Pairs == [current : Maybe, previous : Maybe]
NoPair == [current |-> NoSecret, previous |-> NoSecret]
NoFlight == [secret |-> NoSecret, locked |-> FALSE]

TypeOK ==
    /\ row \in Pairs
    /\ overlap \in BOOLEAN
    /\ rotation \in [Tabs -> Pairs]
    /\ flight \in [secret : Maybe, locked : BOOLEAN]
    /\ replies \in SUBSET Secrets
    /\ receiver \in Pairs
    /\ issued \in Seq(Secrets)

Init ==
    /\ row = NoPair
    /\ overlap = FALSE
    /\ rotation = [t \in Tabs |-> NoPair]
    /\ flight = NoFlight
    /\ replies = {}
    /\ receiver = NoPair
    /\ issued = <<>>

Rotating == {t \in Tabs : rotation[t] # NoPair}

Unused(s) ==
    /\ \A i \in 1..Len(issued) : issued[i] # s
    /\ \A t \in Tabs : rotation[t].current # s

\* The reply with the secret may never reach the owner.
Replies(s) == replies' \in {replies, replies \cup {s}}

CreateEndpoint(s) ==
    /\ row = NoPair
    /\ row' = [current |-> s, previous |-> NoSecret]
    /\ issued' = <<s>>
    /\ Replies(s)
    /\ UNCHANGED <<overlap, rotation, flight, receiver>>

-----------------------------------------------------------------------------
(* rotateEndpointSecretForOwner: one transaction.                           *)

\* FOR UPDATE on the owner's Membership, then on the endpoint, which a send locks
\* too: a rotation holds both until its end.
MembershipFree == Rotating = {}
EndpointFree == Rotating = {} /\ ~ flight.locked

\* Mutant: the endpoint is read before either lock is taken.
BugReadsUnlocked == TRUE

MayRead == MembershipFree /\ EndpointFree

BeginRotation(t, s) ==
    /\ row # NoPair
    /\ rotation[t] = NoPair
    /\ Unused(s)
    /\ MayRead
    /\ rotation' = [rotation EXCEPT ![t] = [current |-> s, previous |-> row.current]]
    /\ UNCHANGED <<row, overlap, flight, replies, receiver, issued>>

CommitRotation(t) ==
    /\ t \in Rotating
    /\ row' = rotation[t]
    /\ overlap' = TRUE
    /\ issued' = Append(issued, rotation[t].current)
    /\ Replies(rotation[t].current)
    /\ rotation' = [rotation EXCEPT ![t] = NoPair]
    /\ UNCHANGED <<flight, receiver>>

RotationFails(t) ==
    /\ t \in Rotating
    /\ rotation' = [rotation EXCEPT ![t] = NoPair]
    /\ UNCHANGED <<row, overlap, flight, replies, receiver, issued>>

OverlapEnds ==
    /\ overlap
    /\ overlap' = FALSE
    /\ UNCHANGED <<row, rotation, flight, replies, receiver, issued>>

-----------------------------------------------------------------------------
(* A send, and the receiver.                                                *)

\* The secret is read again under the lock, not taken from the claim.
BeginSend ==
    /\ row # NoPair
    /\ flight = NoFlight
    /\ Rotating = {}
    /\ flight' = [secret |-> row.current, locked |-> TRUE]
    /\ UNCHANGED <<row, overlap, rotation, replies, receiver, issued>>

TransactionTimesOut ==
    /\ flight.locked
    /\ flight' = [flight EXCEPT !.locked = FALSE]
    /\ UNCHANGED <<row, overlap, rotation, replies, receiver, issued>>

\* A response of either kind, or none: the request is over.
EndSend ==
    /\ flight # NoFlight
    /\ flight' = NoFlight
    /\ UNCHANGED <<row, overlap, rotation, replies, receiver, issued>>

\* verifyRotatingBillingRequest; the expiry is exclusive.
Verifies(s) ==
    \/ s = receiver.current
    \/ receiver.previous # NoSecret /\ overlap /\ s = receiver.previous

\* The operator copies a returned secret into the receiver's store.
Deploy(s) ==
    /\ s \in replies
    /\ receiver' = [current |-> s, previous |-> receiver.current]
    /\ replies' = replies \ {s}
    /\ UNCHANGED <<row, overlap, rotation, flight, issued>>

Next ==
    \/ \E s \in Secrets : CreateEndpoint(s) \/ Deploy(s)
    \/ \E t \in Tabs :
         \/ CommitRotation(t) \/ RotationFails(t)
         \/ \E s \in Secrets : BeginRotation(t, s)
    \/ OverlapEnds \/ BeginSend \/ TransactionTimesOut \/ EndSend

Spec == Init /\ [][Next]_vars

-----------------------------------------------------------------------------

Latest(k) == issued[Len(issued) - k]

\* Rotations form a chain: however tabs, sends and time-outs interleave, the
\* row holds the last secret handed out and the one just before it.  So a
\* receiver that has deployed that pair refuses a genuine request only when the
\* send outlived its transaction, and then only after two rotations or once
\* the overlap has ended.
RotationsChain ==
    /\ issued # <<>> => row.current = Latest(0)
    /\ Len(issued) > 1 => row.previous = Latest(1)
    /\ (flight # NoFlight /\ receiver = row /\ ~ Verifies(flight.secret))
         => /\ ~ flight.locked
            /\ \/ ~ overlap
               \/ flight.secret \notin {Latest(0), Latest(1)}

-----------------------------------------------------------------------------
(* What makes RotationsChain inductive.                                     *)

Chain ==
    /\ row = NoPair <=> issued = <<>>
    /\ issued # <<>> => row.current = Latest(0)
    /\ Len(issued) > 1 => row.previous = Latest(1)
    /\ overlap => Len(issued) > 1

\* At most one rotation is open, and the row it has read stays.
RotationsExclude ==
    \A t \in Rotating :
        /\ rotation[t].current \in Secrets
        /\ rotation[t].previous = row.current
        /\ row # NoPair
        /\ \A u \in Rotating : u = t

\* The row a locked send has read stays.
SendsExclude ==
    /\ flight # NoFlight => row # NoPair
    /\ flight.locked => Rotating = {} /\ flight # NoFlight /\ flight.secret = row.current

IInv == TypeOK /\ Chain /\ RotationsExclude /\ SendsExclude
=============================================================================
