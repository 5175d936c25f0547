-------------------------- MODULE FrontOfficeProofs --------------------------
(***************************************************************************)
(* Proofs about MCFrontOffice's components, for every value of the          *)
(* constants.  As focus never changes, a behaviour of FrontSpec follows one *)
(* component; each has an inductive invariant IInv of its own, at the end   *)
(* of its module, which holds while it is the one that is followed.  The    *)
(* headings say which of its variables v1, v2, ... stand for.               *)
(***************************************************************************)
EXTENDS MCFrontOffice, AcceptanceProofs, Integers, Sequences, SequenceTheorems,
        FiniteSetTheorems, WellFoundedInduction, TLAPS

-----------------------------------------------------------------------------
(* Acceptance.                                                              *)

LEMMA AcceptanceFollowed == FrontSpec => Spec
<1>1. FrontInit => Init
  BY DEF FrontInit
<1>2. [FrontNext]_frontVars => [Next]_vars
  BY DEF FrontNext, frontVars
<1> QED BY <1>1, <1>2, PTL DEF FrontSpec, Spec

-----------------------------------------------------------------------------
(* LegacyAggregation: v1 usage, v2 late, v3 adding, v4 job, v5 window,      *)
(* v6 read, v7 total, v8 dropped.                                           *)

LEMMA AggregationStep ==
    ASSUME Aggregation!IInv, [Aggregation!Next]_(Aggregation!vars)
    PROVE  Aggregation!IInv'
<1> USE BoundsOK DEF Aggregation!IInv, Aggregation!TypeOK, Aggregation!LagIsExplained,
        Aggregation!Settles, Aggregation!Owed, Aggregation!Counts, Aggregation!Unread, Aggregation!Windows
<1>1. CASE UNCHANGED Aggregation!vars
  BY <1>1 DEF Aggregation!vars
<1>2. ASSUME NEW s \in Metered, Aggregation!Track(s) PROVE Aggregation!IInv'
  <2>1. Aggregation!TypeOK'
    BY <1>2 DEF Aggregation!Track
  <2>2. \A t \in Metered : Aggregation!Settles(t)'
    BY <1>2 DEF Aggregation!Track
  <2>3. Aggregation!LagIsExplained'
    BY <1>2 DEF Aggregation!Track
  <2> QED BY <2>1, <2>2, <2>3
<1>3. ASSUME NEW s \in Metered, Aggregation!AddWakeup(s) PROVE Aggregation!IInv'
  BY <1>3 DEF Aggregation!AddWakeup, Aggregation!PastItsReads
<1>4. ASSUME NEW s \in Metered, Aggregation!AddFails(s) PROVE Aggregation!IInv'
  BY <1>4 DEF Aggregation!AddFails
<1>5. ASSUME NEW s \in Metered, Aggregation!EndPeriod(s) PROVE Aggregation!IInv'
  BY <1>5 DEF Aggregation!EndPeriod
<1>6. ASSUME NEW s \in Metered, Aggregation!LoadSubscription(s) PROVE Aggregation!IInv'
  BY <1>6 DEF Aggregation!LoadSubscription
<1>7. ASSUME NEW s \in Metered, Aggregation!ReadEvents(s) PROVE Aggregation!IInv'
  BY <1>7 DEF Aggregation!ReadEvents
<1>8. ASSUME NEW s \in Metered, Aggregation!Upsert(s) PROVE Aggregation!IInv'
  BY <1>8 DEF Aggregation!Upsert
<1>9. ASSUME NEW s \in Metered, Aggregation!JobFails(s) PROVE Aggregation!IInv'
  BY <1>9 DEF Aggregation!JobFails
<1>10. ASSUME NEW s \in Metered, Aggregation!Stalls(s) PROVE Aggregation!IInv'
  BY <1>10 DEF Aggregation!Stalls
<1> QED
  BY <1>1, <1>2, <1>3, <1>4, <1>5, <1>6, <1>7, <1>8, <1>9, <1>10 DEF Aggregation!Next

LEMMA AggregationInvariant == FrontSpec => [](focus = "aggregation" => Aggregation!IInv)
<1> DEFINE Inv == focus = "aggregation" => Aggregation!IInv
<1>1. FrontInit => Inv
  BY BoundsOK DEF FrontInit, Aggregation!Init, Aggregation!IInv, Aggregation!TypeOK, Aggregation!LagIsExplained,
        Aggregation!Settles, Aggregation!Owed, Aggregation!Counts, Aggregation!Unread, Aggregation!Windows
<1>2. Inv /\ [FrontNext]_frontVars => Inv'
  <2> SUFFICES ASSUME Inv, [FrontNext]_frontVars, focus' = "aggregation" PROVE Aggregation!IInv'
    OBVIOUS
  <2>1. focus = "aggregation" /\ [Aggregation!Next]_(Aggregation!vars)
    BY DEF FrontNext, frontVars, Aggregation!vars, five, two
  <2> QED BY <2>1, AggregationStep
<1> QED BY <1>1, <1>2, PTL DEF FrontSpec

\* app/api/track/route.ts:187: the totals of legacy usage fall behind what is
\* stored only while a wakeup is to come, or after one was lost or came late.
THEOREM TotalsLagForAReason == FrontSpec => []LagIsExplained
<1>1. (focus = "aggregation" => Aggregation!IInv) => LagIsExplained
  BY DEF LagIsExplained, Aggregation!IInv
<1> QED BY <1>1, AggregationInvariant, PTL

-----------------------------------------------------------------------------
(* LegacyBilling: v1 status, v2 periodEnd, v3 invoice, v4 request, v5 run,  *)
(* v6 jobPeak, v7 activationPeak.                                           *)

\* An invoice is never mistaken for the lack of one.
LEMMA InvoicesAreNotNull == \A r \in Invoicing!InvoiceRows : r # None /\ r # Gone
BY NoInvoiceOK

LEMMA SameCount == \A S : Invoicing!Cardinality(S) = Cardinality(S)
BY DEF Cardinality, Invoicing!Cardinality

\* One more, one less, fewer.
LEMMA Counts ==
    ASSUME NEW S, IsFiniteSet(S)
    PROVE  /\ Cardinality(S) \in Nat
           /\ \A e : e \notin S => Cardinality(S \cup {e}) = Cardinality(S) + 1
           /\ \A e \in S : Cardinality(S \ {e}) + 1 = Cardinality(S)
           /\ \A T \in SUBSET S : IsFiniteSet(T) /\ Cardinality(T) \in Nat /\ Cardinality(T) <= Cardinality(S)
<1>1. Cardinality(S) \in Nat
  BY FS_CardinalityType
<1>2. \A e : e \notin S => Cardinality(S \cup {e}) = Cardinality(S) + 1
  BY FS_AddElement
<1>3. \A e \in S : Cardinality(S \ {e}) + 1 = Cardinality(S)
  <2> SUFFICES ASSUME NEW e \in S PROVE Cardinality(S \ {e}) + 1 = Cardinality(S)
    OBVIOUS
  <2>1. Cardinality(S \ {e}) = Cardinality(S) - 1
    BY FS_RemoveElement
  <2> QED BY <1>1, <2>1
<1>4. \A T \in SUBSET S : IsFiniteSet(T) /\ Cardinality(T) \in Nat /\ Cardinality(T) <= Cardinality(S)
  BY FS_Subset, FS_CardinalityType
<1> QED BY <1>1, <1>2, <1>3, <1>4

LEMMA MaxOfTwo ==
    ASSUME NEW a \in Nat, NEW b \in Nat
    PROVE  Invoicing!Max({a, b}) \in {a, b} /\ Invoicing!Max({a, b}) >= a /\ Invoicing!Max({a, b}) >= b
<1>1. \E m \in {a, b} : \A n \in {a, b} : m >= n
  OBVIOUS
<1> QED BY <1>1 DEF Invoicing!Max

LEMMA BillingTypes ==
    ASSUME Invoicing!TypeOK
    PROVE  /\ \A i \in Invoices : v3[i] # None => v3[i] \in Invoicing!InvoiceRows
           /\ \A o \in Owners :
                /\ v4[o].kind \in {"cancel", "activate"} => v4[o].cancels \in SUBSET Subscriptions
                /\ v4[o].kind \in {"pay", "fail"} => v4[o].invoice \in Invoices /\ v4[o].wasActive \in BOOLEAN
           /\ \A j \in Jobs : v5[j] # Invoicing!Idle =>
                v5[j] \in [kind : Invoicing!RunSteps, sub : Subscriptions, period : Invoicing!Periods]
           /\ \A s \in Subscriptions : v6[s] \in Nat /\ v6[s] <= Invoicing!Cardinality(Jobs)
           /\ v7 \in Nat
<1>1. Cardinality(Jobs) \in Nat /\ Cardinality(Owners) \in Nat
  BY FiniteOK, FS_CardinalityType
<1>2. Invoicing!Cardinality(Jobs) \in Nat /\ Invoicing!Cardinality(Owners) \in Nat
  BY <1>1, SameCount
<1> QED
  BY <1>2 DEF Invoicing!TypeOK, Invoicing!OpenRequests, Invoicing!Idle, Invoicing!Activation, Invoicing!Marking, Invoicing!Runs

-----------------------------------------------------------------------------
\* A request is over.
LEMMA OwnerEnds ==
    ASSUME Invoicing!TypeOK, NEW o \in Owners, Invoicing!Ends(o)
    PROVE  /\ v4' \in [Owners -> Invoicing!OpenRequests]
           /\ v4'[o].kind = "idle" /\ \A u \in Owners \ {o} : v4'[u] = v4[u]
BY DEF Invoicing!TypeOK, Invoicing!Ends, Invoicing!OpenRequests, Invoicing!Idle

\* An invoice is marked.
LEMMA InvoiceMarked ==
    ASSUME Invoicing!TypeOK, NEW i \in Invoices, v3[i] # None, NEW st \in {"PAID", "FAILED"},
           v3' = [v3 EXCEPT ![i].status = st]
    PROVE  /\ v3' \in [Invoices -> Invoicing!InvoiceRows \cup {None}]
           /\ \A h \in Invoices : /\ v3'[h] = None <=> v3[h] = None
                                  /\ v3'[h].sub = v3[h].sub /\ v3'[h].period = v3[h].period
           /\ v3'[i].status = st /\ \A h \in Invoices \ {i} : v3'[h] = v3[h]
<1> DEFINE new == [v3[i] EXCEPT !.status = st]
<1>1. /\ v3[i] \in Invoicing!InvoiceRows /\ v3 \in [Invoices -> Invoicing!InvoiceRows \cup {None}]
      /\ v3' = [v3 EXCEPT ![i] = new]
  BY DEF Invoicing!TypeOK
<1>2. /\ new \in Invoicing!InvoiceRows /\ new.sub = v3[i].sub /\ new.period = v3[i].period /\ new.status = st
  BY <1>1 DEF Invoicing!InvoiceRows
<1> HIDE DEF new
<1>3. new # None
  BY <1>2, InvoicesAreNotNull
<1> QED BY <1>1, <1>2, <1>3

\* Runs and the rows they made stay.
LEMMA RunsStay ==
    ASSUME Invoicing!RunsAreCounted, UNCHANGED <<v5, v6>>,
           \A i \in Invoices : /\ v3'[i] = None <=> v3[i] = None
                               /\ v3'[i].sub = v3[i].sub /\ v3'[i].period = v3[i].period
    PROVE  Invoicing!RunsAreCounted'
<1>1. \A s \in Subscriptions, p \in Invoicing!Periods :
        /\ Invoicing!Invoiced(s, p)' = Invoicing!Invoiced(s, p)
        /\ Invoicing!Creating(s, p)' = Invoicing!Creating(s, p)
  BY DEF Invoicing!Invoiced, Invoicing!Creating
<1>2. \A s \in Subscriptions : Invoicing!RunsOf(s)' = Invoicing!RunsOf(s)
  BY DEF Invoicing!RunsOf
<1> QED BY <1>1, <1>2, SameCount DEF Invoicing!RunsAreCounted

\* The sets that are counted are finite.
LEMMA FiniteSets ==
    /\ IsFiniteSet(Invoicing!Activating) /\ IsFiniteSet(Invoicing!Active)
    /\ \A D : IsFiniteSet(Invoicing!Left(D)) /\ (D \in SUBSET Invoicing!Activating => IsFiniteSet(D))
    /\ \A s, p : /\ IsFiniteSet(Invoicing!RunsOf(s)) /\ IsFiniteSet(Invoicing!Creating(s, p))
                 /\ IsFiniteSet(Invoicing!Invoiced(s, p))
<1>1. /\ Invoicing!Activating \subseteq Owners /\ Invoicing!Active \subseteq Subscriptions
      /\ \A D : Invoicing!Left(D) \subseteq Subscriptions /\ (D \in SUBSET Invoicing!Activating => D \subseteq Owners)
  BY DEF Invoicing!Activating, Invoicing!Active, Invoicing!Left
<1>2. \A s, p : /\ Invoicing!RunsOf(s) \subseteq Jobs /\ Invoicing!Creating(s, p) \subseteq Jobs
                /\ Invoicing!Invoiced(s, p) \subseteq Invoices
  BY DEF Invoicing!RunsOf, Invoicing!Creating, Invoicing!Invoiced
<1> QED BY <1>1, <1>2, FiniteOK, FS_Subset

\* No activation begins, and none lets go of a subscription that is still ACTIVE.
LEMMA FewerActivations ==
    ASSUME Invoicing!TypeOK, Invoicing!ActivationsAreCounted, UNCHANGED v7,
           Invoicing!Active' \subseteq Invoicing!Active,
           \A u \in Owners : v4'[u].kind \in {"cancel", "activate"} =>
               /\ v4[u].kind \in {"cancel", "activate"}
               /\ v4[u].cancels \cap Invoicing!Active' \subseteq v4'[u].cancels
    PROVE  Invoicing!ActivationsAreCounted'
<1> SUFFICES ASSUME NEW D \in SUBSET Invoicing!Activating'
             PROVE  Invoicing!Cardinality(Invoicing!Left(D)') + Invoicing!Cardinality(D) <= v7
  BY DEF Invoicing!ActivationsAreCounted
<1>1. D \in SUBSET Invoicing!Activating
  BY DEF Invoicing!Activating
<1>2. \A u \in D : v4[u].cancels \cap Invoicing!Active' \subseteq v4'[u].cancels
  BY DEF Invoicing!Activating
<1>3. Invoicing!Left(D)' \subseteq Invoicing!Left(D)
  BY <1>2 DEF Invoicing!Left
<1>4. /\ Cardinality(Invoicing!Left(D)') <= Cardinality(Invoicing!Left(D))
      /\ Cardinality(Invoicing!Left(D)) \in Nat /\ Cardinality(Invoicing!Left(D)') \in Nat /\ Cardinality(D) \in Nat
  BY <1>1, <1>3, FiniteSets, Counts
<1>5. Cardinality(Invoicing!Left(D)) + Cardinality(D) <= v7 /\ v7 \in Nat
  BY <1>1, SameCount, BillingTypes DEF Invoicing!ActivationsAreCounted
<1>6. Cardinality(Invoicing!Left(D)') + Cardinality(D) <= v7
  BY <1>4, <1>5
<1> QED BY <1>6, SameCount

LEMMA FindStep ==
    ASSUME Invoicing!IInv, NEW o \in Owners, Invoicing!FindActive(o)
    PROVE  Invoicing!IInv'
<1> DEFINE new == [kind |-> "cancel", cancels |-> Invoicing!Active]
<1>1. /\ UNCHANGED <<v1, v2, v3, v5, v6>> /\ v4[o].kind = "idle" /\ v4' = [v4 EXCEPT ![o] = new]
      /\ v7' = Invoicing!Max({v7, Invoicing!Cardinality(Invoicing!Activating) + 1})
  BY DEF Invoicing!FindActive, Invoicing!Activation, Invoicing!Idle
<1>2. new \in Invoicing!OpenRequests /\ new.kind = "cancel" /\ new.cancels = Invoicing!Active
  <2>1. Invoicing!Active \in SUBSET Subscriptions /\ new = Invoicing!Activation("cancel", Invoicing!Active)
    BY DEF Invoicing!Active, Invoicing!Activation
  <2>2. new \in Invoicing!OpenRequests
    BY <2>1 DEF Invoicing!OpenRequests
  <2> QED BY <2>2
<1> HIDE DEF new
<1>3. /\ v4' \in [Owners -> Invoicing!OpenRequests] /\ v4'[o] = new /\ \A u \in Owners \ {o} : v4'[u] = v4[u]
  BY <1>1, <1>2 DEF Invoicing!IInv, Invoicing!TypeOK
<1>4. Invoicing!Active' = Invoicing!Active
  BY <1>1 DEF Invoicing!Active
<1>5. /\ Invoicing!Activating' = Invoicing!Activating \cup {o} /\ o \notin Invoicing!Activating
      /\ Invoicing!Activating \subseteq Owners
  BY <1>1, <1>2, <1>3 DEF Invoicing!Activating
<1>6. /\ Cardinality(Invoicing!Activating') = Cardinality(Invoicing!Activating) + 1
      /\ Cardinality(Invoicing!Activating) \in Nat /\ Cardinality(Invoicing!Activating') <= Cardinality(Owners)
      /\ Cardinality(Owners) \in Nat /\ IsFiniteSet(Invoicing!Activating')
  BY <1>5, FiniteSets, FiniteOK, Counts, FS_AddElement
<1>7. v7' \in {v7, Cardinality(Invoicing!Activating')} /\ v7' >= v7 /\ v7' >= Cardinality(Invoicing!Activating') /\ v7 \in Nat
  BY <1>1, <1>6, MaxOfTwo, SameCount, BillingTypes DEF Invoicing!IInv
<1>8. Invoicing!TypeOK'
  <2>1. v7 \in 0..Cardinality(Owners)
    BY SameCount DEF Invoicing!IInv, Invoicing!TypeOK
  <2>2. v7' \in 0..Cardinality(Owners)
    BY <1>6, <1>7, <2>1
  <2> QED BY <1>1, <1>3, <2>2, SameCount DEF Invoicing!IInv, Invoicing!TypeOK
<1>9. Invoicing!ActivationsAreCounted'
  <2> SUFFICES ASSUME NEW D \in SUBSET Invoicing!Activating'
               PROVE  Invoicing!Cardinality(Invoicing!Left(D)') + Invoicing!Cardinality(D) <= v7'
    BY DEF Invoicing!ActivationsAreCounted
  <2>1. CASE o \in D
    <3>1. Invoicing!Left(D)' = {}
      BY <1>2, <1>3, <1>4, <2>1 DEF Invoicing!Left
    <3>2. Cardinality(D) \in Nat /\ Cardinality(D) <= Cardinality(Invoicing!Activating')
      BY <1>6, Counts
    <3>3. Cardinality(Invoicing!Left(D)') = 0 /\ Cardinality(Invoicing!Activating') \in Nat
      BY <1>6, <3>1, FS_EmptySet
    <3>4. Cardinality(Invoicing!Left(D)') + Cardinality(D) <= v7'
      BY <1>6, <1>7, <3>2, <3>3
    <3> QED BY <3>4, SameCount
  <2>2. CASE o \notin D
    <3>1. D \in SUBSET Invoicing!Activating /\ \A u \in D : v4'[u] = v4[u]
      BY <1>3, <1>5, <2>2
    <3>2. Invoicing!Left(D)' = Invoicing!Left(D)
      BY <1>4, <3>1 DEF Invoicing!Left
    <3>3. Cardinality(Invoicing!Left(D)) + Cardinality(D) <= v7
      BY <3>1, SameCount DEF Invoicing!IInv, Invoicing!ActivationsAreCounted
    <3>4. Cardinality(Invoicing!Left(D)) \in Nat /\ Cardinality(D) \in Nat
      BY <3>1, FiniteSets, Counts
    <3>5. Cardinality(Invoicing!Left(D)') + Cardinality(D) <= v7'
      BY <1>6, <1>7, <3>2, <3>3, <3>4
    <3> QED BY <3>5, SameCount
  <2> QED BY <2>1, <2>2
<1>10. Invoicing!RunsAreCounted'
  BY <1>1, RunsStay DEF Invoicing!IInv
<1>11. Invoicing!FailedInvoiceSuspends'
  BY <1>1 DEF Invoicing!IInv, Invoicing!FailedInvoiceSuspends
<1>12. Invoicing!RowsExist'
  <2>1. \A s \in Invoicing!Active : v1[s] # "absent"
    BY DEF Invoicing!Active
  <2> QED BY <1>1, <1>2, <1>3, <1>5, <2>1 DEF Invoicing!IInv, Invoicing!RowsExist
<1>13. Invoicing!MarkingsStand'
  BY <1>1, <1>2, <1>3 DEF Invoicing!IInv, Invoicing!MarkingsStand
<1> QED BY <1>8, <1>9, <1>10, <1>11, <1>12, <1>13 DEF Invoicing!IInv

LEMMA CancelStep ==
    ASSUME Invoicing!IInv, NEW o \in Owners, Invoicing!CancelActive(o)
    PROVE  Invoicing!IInv'
<1> DEFINE found == v4[o].cancels
           new == [kind |-> "activate", cancels |-> found \cap Invoicing!Active]
<1>1. /\ UNCHANGED <<v1, v2, v3, v5, v6, v7>> /\ v4[o].kind = "cancel" /\ v4' = [v4 EXCEPT ![o] = new]
      /\ found \in SUBSET Subscriptions
  BY BillingTypes DEF Invoicing!CancelActive, Invoicing!Activation, Invoicing!IInv
<1>2. new \in Invoicing!OpenRequests /\ new.kind = "activate" /\ new.cancels = found \cap Invoicing!Active
  <2>1. new = Invoicing!Activation("activate", found \cap Invoicing!Active)
    BY DEF Invoicing!Activation
  <2>2. new \in Invoicing!OpenRequests
    BY <1>1, <2>1 DEF Invoicing!OpenRequests
  <2> QED BY <2>2
<1> HIDE DEF new
<1>3. /\ v4' \in [Owners -> Invoicing!OpenRequests] /\ v4'[o] = new /\ \A u \in Owners \ {o} : v4'[u] = v4[u]
  BY <1>1, <1>2 DEF Invoicing!IInv, Invoicing!TypeOK
<1>4. Invoicing!Active' = Invoicing!Active
  BY <1>1 DEF Invoicing!Active
<1>5. Invoicing!TypeOK'
  BY <1>1, <1>3, SameCount DEF Invoicing!IInv, Invoicing!TypeOK
<1>6. Invoicing!ActivationsAreCounted'
  <2>1. \A u \in Owners : v4'[u].kind \in {"cancel", "activate"} =>
          /\ v4[u].kind \in {"cancel", "activate"}
          /\ v4[u].cancels \cap Invoicing!Active' \subseteq v4'[u].cancels
    BY <1>1, <1>2, <1>3, <1>4
  <2> QED BY <1>1, <1>4, <2>1, FewerActivations DEF Invoicing!IInv
<1>7. Invoicing!RunsAreCounted'
  BY <1>1, RunsStay DEF Invoicing!IInv
<1>8. Invoicing!FailedInvoiceSuspends'
  BY <1>1 DEF Invoicing!IInv, Invoicing!FailedInvoiceSuspends
<1>9. Invoicing!RowsExist'
  <2>1. \A u \in Invoicing!Activating' : \A s \in v4'[u].cancels : v1[s] # "absent"
    BY <1>1, <1>2, <1>3 DEF Invoicing!IInv, Invoicing!RowsExist, Invoicing!Activating
  <2> QED BY <1>1, <2>1 DEF Invoicing!IInv, Invoicing!RowsExist
<1>10. Invoicing!MarkingsStand'
  BY <1>1, <1>2, <1>3 DEF Invoicing!IInv, Invoicing!MarkingsStand
<1> QED BY <1>5, <1>6, <1>7, <1>8, <1>9, <1>10 DEF Invoicing!IInv

LEMMA ActivateStep ==
    ASSUME Invoicing!IInv, NEW o \in Owners, Invoicing!Activate(o)
    PROVE  Invoicing!IInv'
<1> DEFINE old == v4[o].cancels
           new == Invoicing!Fresh
<1>1. /\ v4[o].kind = "activate" /\ UNCHANGED <<v3, v5, v6, v7>> /\ Invoicing!Ends(o)
      /\ new \in Subscriptions /\ v1[new] = "absent"
      /\ v1' = [s \in Subscriptions |-> IF s \in old THEN "CANCELED" ELSE IF s = new THEN "ACTIVE" ELSE v1[s]]
      /\ v2' = [s \in Subscriptions |-> IF s \in old THEN "cut" ELSE v2[s]]
  BY DEF Invoicing!Activate, Invoicing!Fresh
<1>2. o \in Invoicing!Activating /\ old \in SUBSET Subscriptions
  BY <1>1, BillingTypes DEF Invoicing!IInv, Invoicing!Activating
<1>3. \A u \in Invoicing!Activating : u \in Owners /\ v4[u].cancels \subseteq Subscriptions /\ new \notin v4[u].cancels
  BY <1>1, BillingTypes DEF Invoicing!IInv, Invoicing!RowsExist, Invoicing!Activating
<1>4. new \notin old
  BY <1>2, <1>3
<1> HIDE DEF new
<1>5. /\ v4' \in [Owners -> Invoicing!OpenRequests]
      /\ v4'[o].kind = "idle" /\ \A u \in Owners \ {o} : v4'[u] = v4[u]
  BY <1>1, OwnerEnds DEF Invoicing!IInv
<1>6. \A s \in Subscriptions : v1[s] # "absent" =>
        v1'[s] # "absent" /\ (v1'[s] = "ACTIVE" => v1[s] = "ACTIVE")
  BY <1>1
<1>7. Invoicing!TypeOK'
  <2>1. v1' \in [Subscriptions -> Invoicing!Status] /\ v2' \in [Subscriptions -> Invoicing!Periods]
    BY <1>1 DEF Invoicing!IInv, Invoicing!TypeOK, Invoicing!Status, Invoicing!Periods
  <2> QED BY <1>1, <1>5, <2>1 DEF Invoicing!IInv, Invoicing!TypeOK, Invoicing!Cardinality
<1>8. Invoicing!Active' = (Invoicing!Active \ old) \cup {new} /\ new \notin Invoicing!Active
  BY <1>1, <1>4 DEF Invoicing!Active
<1>9. Invoicing!Activating' = Invoicing!Activating \ {o}
  BY <1>5 DEF Invoicing!Activating
<1>10. Invoicing!ActivationsAreCounted'
  <2> SUFFICES ASSUME NEW D \in SUBSET Invoicing!Activating'
               PROVE  Invoicing!Cardinality(Invoicing!Left(D)') + Invoicing!Cardinality(D) <= v7
    BY <1>1 DEF Invoicing!ActivationsAreCounted
  <2> DEFINE E == D \cup {o}
  <2>1. D \in SUBSET Invoicing!Activating /\ o \notin D /\ E \in SUBSET Invoicing!Activating
    BY <1>2, <1>9
  <2>2. Invoicing!Left(D)' = Invoicing!Left(E) \cup {new} /\ new \notin Invoicing!Left(E)
    <3>1. \A u \in D : v4'[u] = v4[u] /\ new \notin v4[u].cancels
      BY <1>3, <1>5, <2>1
    <3>2. \A s : s \in Invoicing!Left(D)' <=> s \in Invoicing!Active' /\ \A u \in D : s \notin v4[u].cancels
      BY <3>1 DEF Invoicing!Left
    <3>3. \A s : s \in Invoicing!Left(E) <=>
            s \in Invoicing!Active /\ s \notin old /\ \A u \in D : s \notin v4[u].cancels
      BY DEF Invoicing!Left
    <3> HIDE DEF E, old
    <3>4. \A s : s \in Invoicing!Left(D)' <=> s \in Invoicing!Left(E) \/ s = new
      BY <1>8, <3>1, <3>2, <3>3
    <3>5. new \notin Invoicing!Left(E)
      BY <1>8, <3>3
    <3> QED BY <3>4, <3>5
  <2> HIDE DEF E
  <2>3. Cardinality(Invoicing!Left(D)') = Cardinality(Invoicing!Left(E)) + 1 /\ Cardinality(Invoicing!Left(E)) \in Nat
    <3>1. PICK L : L = Invoicing!Left(E)
      OBVIOUS
    <3>2. IsFiniteSet(L) /\ new \notin L /\ Invoicing!Left(D)' = L \cup {new}
      BY <2>2, <3>1, FiniteSets
    <3> QED BY <3>1, <3>2, Counts
  <2>4. Cardinality(E) = Cardinality(D) + 1 /\ Cardinality(D) \in Nat
    BY <2>1, FiniteSets, Counts DEF E
  <2>5. Cardinality(Invoicing!Left(E)) + Cardinality(E) <= v7
    BY <2>1, SameCount DEF Invoicing!IInv, Invoicing!ActivationsAreCounted
  <2>6. v7 \in Nat
    BY BillingTypes DEF Invoicing!IInv
  <2>7. Cardinality(Invoicing!Left(D)') + Cardinality(D) <= v7
    BY <2>3, <2>4, <2>5, <2>6
  <2> QED BY <2>7, SameCount
<1>11. Invoicing!RunsAreCounted'
  BY <1>1, RunsStay DEF Invoicing!IInv
<1>12. Invoicing!FailedInvoiceSuspends'
  BY <1>1, <1>6, BillingTypes DEF Invoicing!IInv, Invoicing!FailedInvoiceSuspends, Invoicing!RowsExist, Invoicing!InvoiceRows
<1>13. Invoicing!RowsExist'
  <2>1. \A u \in Invoicing!Activating' : \A s \in v4'[u].cancels : v1'[s] # "absent"
    <3>1. \A u \in Invoicing!Activating' : u \in Invoicing!Activating /\ v4'[u] = v4[u] /\ v4[u].cancels \subseteq Subscriptions
      BY <1>3, <1>5, <1>9
    <3> QED BY <1>6, <3>1 DEF Invoicing!IInv, Invoicing!RowsExist
  <2> QED
    BY <1>1, <1>6, <2>1, BillingTypes DEF Invoicing!IInv, Invoicing!RowsExist, Invoicing!InvoiceRows
<1>14. Invoicing!MarkingsStand'
  BY <1>1, <1>5, <1>6, BillingTypes DEF Invoicing!IInv, Invoicing!MarkingsStand, Invoicing!RowsExist, Invoicing!InvoiceRows
<1> QED BY <1>7, <1>10, <1>11, <1>12, <1>13, <1>14 DEF Invoicing!IInv

LEMMA ReadStep ==
    ASSUME Invoicing!IInv, NEW o \in Owners, NEW k \in {"pay", "fail"}, NEW i \in Invoices,
           Invoicing!ReadPending(o, k, i)
    PROVE  Invoicing!IInv'
<1> DEFINE new == [kind |-> k, invoice |-> i, wasActive |-> (v1[v3[i].sub] = "ACTIVE")]
<1>1. /\ v4[o].kind = "idle" /\ v3[i] # None /\ v3[i].status = "PENDING" /\ v4' = [v4 EXCEPT ![o] = new]
      /\ UNCHANGED <<v1, v2, v3, v5, v6, v7>>
  BY DEF Invoicing!ReadPending, Invoicing!Idle, Invoicing!Marking
<1>2. /\ new \in Invoicing!OpenRequests /\ new.kind = k /\ new.invoice = i
      /\ ~ new.wasActive => v1[v3[i].sub] # "ACTIVE"
  <2>1. (v1[v3[i].sub] = "ACTIVE") \in BOOLEAN
    OBVIOUS
  <2>2. PICK b \in BOOLEAN : b = (v1[v3[i].sub] = "ACTIVE")
    BY <2>1
  <2>3. new = Invoicing!Marking(k, i, b)
    BY <2>2 DEF Invoicing!Marking
  <2>4. Invoicing!Marking(k, i, b) \in Invoicing!OpenRequests
    BY DEF Invoicing!OpenRequests
  <2> QED BY <2>2, <2>3, <2>4 DEF Invoicing!Marking
<1> HIDE DEF new
<1>3. /\ v4' \in [Owners -> Invoicing!OpenRequests] /\ v4'[o] = new /\ \A u \in Owners \ {o} : v4'[u] = v4[u]
  BY <1>1, <1>2 DEF Invoicing!IInv, Invoicing!TypeOK
<1>4. Invoicing!TypeOK'
  BY <1>1, <1>3, SameCount DEF Invoicing!IInv, Invoicing!TypeOK
<1>5. Invoicing!ActivationsAreCounted'
  <2>1. Invoicing!Active' = Invoicing!Active
    BY <1>1 DEF Invoicing!Active
  <2>2. \A u \in Owners : v4'[u].kind \in {"cancel", "activate"} =>
          v4[u].kind \in {"cancel", "activate"} /\ v4'[u] = v4[u]
    BY <1>2, <1>3
  <2> QED BY <1>1, <2>1, <2>2, FewerActivations DEF Invoicing!IInv
<1>6. Invoicing!RunsAreCounted'
  BY <1>1, RunsStay DEF Invoicing!IInv
<1>7. Invoicing!FailedInvoiceSuspends' /\ Invoicing!RowsExist'
  BY <1>1, <1>2, <1>3 DEF Invoicing!IInv, Invoicing!FailedInvoiceSuspends, Invoicing!RowsExist, Invoicing!Activating
<1>8. Invoicing!MarkingsStand'
  BY <1>1, <1>2, <1>3 DEF Invoicing!IInv, Invoicing!MarkingsStand
<1> QED BY <1>4, <1>5, <1>6, <1>7, <1>8 DEF Invoicing!IInv

\* A marking, as PAID or as FAILED, or a request that fails: what the owner's
\* request leaves behind is at most a subscription less that is ACTIVE.
LEMMA OwnerEndsStep ==
    ASSUME Invoicing!IInv, NEW o \in Owners, Invoicing!Ends(o), UNCHANGED <<v2, v5, v6, v7>>,
           v3' \in [Invoices -> Invoicing!InvoiceRows \cup {None}],
           v1' \in [Subscriptions -> Invoicing!Status],
           \A s \in Subscriptions : v1'[s] = v1[s]
               \/ (v1'[s] = "PAUSED" /\ v1[s] # "absent" /\ ~ Invoicing!Locked(s)),
           \A h \in Invoices : /\ v3'[h] = None <=> v3[h] = None
                               /\ v3'[h].sub = v3[h].sub /\ v3'[h].period = v3[h].period
                               /\ v3[h] # None /\ v3'[h].status = "FAILED" /\ v3[h].status # "FAILED" =>
                                    v1'[v3[h].sub] # "ACTIVE"
    PROVE  Invoicing!IInv'
<1>1. /\ v4' \in [Owners -> Invoicing!OpenRequests]
      /\ v4'[o].kind = "idle" /\ \A u \in Owners \ {o} : v4'[u] = v4[u]
  BY OwnerEnds DEF Invoicing!IInv
<1>2. \A s \in Subscriptions : v1[s] # "absent" =>
        v1'[s] # "absent" /\ (v1'[s] = "ACTIVE" => v1[s] = "ACTIVE")
  OBVIOUS
<1>3. \A h \in Invoices : v3[h] # None => v3[h].sub \in Subscriptions
  BY BillingTypes DEF Invoicing!IInv, Invoicing!InvoiceRows
<1>4. Invoicing!TypeOK'
  BY <1>1, SameCount DEF Invoicing!IInv, Invoicing!TypeOK
<1>5. Invoicing!ActivationsAreCounted'
  <2>1. Invoicing!Active' \subseteq Invoicing!Active
    BY DEF Invoicing!Active
  <2>2. \A u \in Owners : v4'[u].kind \in {"cancel", "activate"} =>
          v4[u].kind \in {"cancel", "activate"} /\ v4'[u] = v4[u]
    BY <1>1
  <2> QED BY <2>1, <2>2, FewerActivations DEF Invoicing!IInv
<1>6. Invoicing!RunsAreCounted'
  BY RunsStay DEF Invoicing!IInv
<1>7. Invoicing!FailedInvoiceSuspends'
  BY <1>2, <1>3 DEF Invoicing!IInv, Invoicing!FailedInvoiceSuspends, Invoicing!RowsExist
<1>8. Invoicing!RowsExist'
  <2>1. \A i \in Invoices : v3'[i] # None => v1'[v3'[i].sub] # "absent"
    BY <1>2, <1>3 DEF Invoicing!IInv, Invoicing!RowsExist
  <2>2. \A j \in Jobs : v5'[j] # Invoicing!Idle => v1'[v5'[j].sub] # "absent"
    BY <1>2, BillingTypes DEF Invoicing!IInv, Invoicing!RowsExist
  <2>3. \A u \in Invoicing!Activating' : \A s \in v4'[u].cancels : v1'[s] # "absent"
    <3>1. \A u \in Invoicing!Activating' : u \in Invoicing!Activating /\ v4'[u] = v4[u] /\ v4[u].cancels \subseteq Subscriptions
      BY <1>1, BillingTypes DEF Invoicing!IInv, Invoicing!Activating
    <3> QED BY <1>2, <3>1 DEF Invoicing!IInv, Invoicing!RowsExist
  <2> QED BY <2>1, <2>2, <2>3 DEF Invoicing!RowsExist
<1>9. Invoicing!MarkingsStand'
  <2> SUFFICES ASSUME NEW u \in Owners, v4'[u].kind \in {"pay", "fail"}
               PROVE  /\ v3'[v4'[u].invoice] # None
                      /\ ~ v4'[u].wasActive => v1'[v3'[v4'[u].invoice].sub] # "ACTIVE"
    BY DEF Invoicing!MarkingsStand
  <2>1. v4'[u] = v4[u]
    BY <1>1
  <2>2. /\ v4[u].invoice \in Invoices /\ v3[v4[u].invoice] # None
        /\ ~ v4[u].wasActive => v1[v3[v4[u].invoice].sub] # "ACTIVE"
    BY <2>1, BillingTypes DEF Invoicing!IInv, Invoicing!MarkingsStand
  <2>3. v3[v4[u].invoice].sub \in Subscriptions /\ v1[v3[v4[u].invoice].sub] # "absent"
    BY <1>3, <2>2 DEF Invoicing!IInv, Invoicing!RowsExist
  <2> QED BY <1>2, <2>1, <2>2, <2>3
<1> QED BY <1>4, <1>5, <1>6, <1>7, <1>8, <1>9 DEF Invoicing!IInv

LEMMA MarkStep ==
    ASSUME Invoicing!IInv, NEW o \in Owners,
           Invoicing!MarkPaid(o) \/ Invoicing!MarkFailed(o) \/ Invoicing!RequestFails(o)
    PROVE  Invoicing!IInv'
<1> DEFINE i == v4[o].invoice
           s == v3[i].sub
<1>1. v4[o].kind \in {"pay", "fail"} =>
        /\ i \in Invoices /\ v3[i] # None /\ s \in Subscriptions /\ v1[s] # "absent"
        /\ v4[o].wasActive \in BOOLEAN
        /\ ~ v4[o].wasActive => v1[s] # "ACTIVE"
  BY BillingTypes DEF Invoicing!IInv, Invoicing!MarkingsStand, Invoicing!RowsExist, Invoicing!InvoiceRows
<1>2. v1 \in [Subscriptions -> Invoicing!Status] /\ v3 \in [Invoices -> Invoicing!InvoiceRows \cup {None}]
  BY DEF Invoicing!IInv, Invoicing!TypeOK
<1>3. CASE Invoicing!MarkPaid(o)
  <2>1. /\ v4[o].kind = "pay" /\ v3' = [v3 EXCEPT ![i].status = "PAID"] /\ Invoicing!Ends(o)
        /\ UNCHANGED <<v1, v2, v5, v6, v7>>
    BY <1>3 DEF Invoicing!MarkPaid
  <2>2. /\ v3' \in [Invoices -> Invoicing!InvoiceRows \cup {None}]
        /\ \A h \in Invoices : /\ v3'[h] = None <=> v3[h] = None
                               /\ v3'[h].sub = v3[h].sub /\ v3'[h].period = v3[h].period
        /\ v3'[i].status = "PAID" /\ \A h \in Invoices \ {i} : v3'[h] = v3[h]
    BY <1>1, <2>1, InvoiceMarked DEF Invoicing!IInv
  <2> HIDE DEF i, s
  <2> QED BY <1>2, <2>1, <2>2, OwnerEndsStep
<1>4. CASE Invoicing!MarkFailed(o)
  <2>1. /\ v4[o].kind = "fail" /\ v3' = [v3 EXCEPT ![i].status = "FAILED"] /\ Invoicing!Ends(o)
        /\ v4[o].wasActive => ~ Invoicing!Locked(s)
        /\ v1' = IF v4[o].wasActive THEN [v1 EXCEPT ![s] = "PAUSED"] ELSE v1
        /\ UNCHANGED <<v2, v5, v6, v7>>
    BY <1>4 DEF Invoicing!MarkFailed, Invoicing!Suspended
  <2>2. /\ v3' \in [Invoices -> Invoicing!InvoiceRows \cup {None}]
        /\ \A h \in Invoices : /\ v3'[h] = None <=> v3[h] = None
                               /\ v3'[h].sub = v3[h].sub /\ v3'[h].period = v3[h].period
        /\ v3'[i].status = "FAILED" /\ \A h \in Invoices \ {i} : v3'[h] = v3[h]
    BY <1>1, <2>1, InvoiceMarked DEF Invoicing!IInv
  <2>3. s = v3[i].sub
    OBVIOUS
  <2> HIDE DEF i, s
  <2>4. /\ v1' \in [Subscriptions -> Invoicing!Status] /\ v1'[s] # "ACTIVE"
        /\ \A t \in Subscriptions : v1'[t] = v1[t]
              \/ (v1'[t] = "PAUSED" /\ v1[t] # "absent" /\ ~ Invoicing!Locked(t))
    BY <1>1, <1>2, <2>1 DEF Invoicing!Status
  <2>5. \A h \in Invoices : v3[h] # None /\ v3'[h].status = "FAILED" /\ v3[h].status # "FAILED" =>
          v1'[v3[h].sub] # "ACTIVE"
    BY <2>2, <2>3, <2>4
  <2> QED BY <2>1, <2>2, <2>4, <2>5, OwnerEndsStep
<1>5. CASE Invoicing!RequestFails(o)
  BY <1>2, <1>5, OwnerEndsStep DEF Invoicing!RequestFails
<1> QED BY <1>3, <1>4, <1>5

-----------------------------------------------------------------------------
\* A step of a run: rows of subscriptions and requests stay.
LEMMA JobKeeps ==
    ASSUME Invoicing!IInv, UNCHANGED <<v1, v2, v4, v7>>,
           v3' \in [Invoices -> Invoicing!InvoiceRows \cup {None}],
           v5' \in [Jobs -> Invoicing!Runs],
           v6' \in [Subscriptions -> 0..Invoicing!Cardinality(Jobs)],
           \A j \in Jobs : v5'[j] # Invoicing!Idle => v1[v5'[j].sub] # "absent",
           \A i \in Invoices : \/ v3'[i] = v3[i]
                               \/ v3[i] = None /\ v3'[i].status = "PENDING" /\ v1[v3'[i].sub] # "absent",
           Invoicing!RunsAreCounted'
    PROVE  Invoicing!IInv'
<1>1. Invoicing!TypeOK'
  BY SameCount DEF Invoicing!IInv, Invoicing!TypeOK
<1>2. Invoicing!ActivationsAreCounted'
  <2>1. Invoicing!Active' = Invoicing!Active
    BY DEF Invoicing!Active
  <2> QED BY <2>1, FewerActivations DEF Invoicing!IInv
<1>3. Invoicing!FailedInvoiceSuspends' /\ Invoicing!RowsExist'
  BY DEF Invoicing!IInv, Invoicing!FailedInvoiceSuspends, Invoicing!RowsExist, Invoicing!Activating
<1>4. Invoicing!MarkingsStand'
  BY BillingTypes DEF Invoicing!IInv, Invoicing!MarkingsStand
<1> QED BY <1>1, <1>2, <1>3, <1>4 DEF Invoicing!IInv

LEMMA LoadStep ==
    ASSUME Invoicing!IInv, NEW j \in Jobs, NEW s \in Subscriptions, Invoicing!LoadSubscription(j, s)
    PROVE  Invoicing!IInv'
<1> DEFINE new == [kind |-> "check", sub |-> s, period |-> v2[s]]
<1>1. /\ v5[j] = Invoicing!Idle /\ v1[s] # "absent" /\ UNCHANGED <<v1, v2, v3, v4, v7>>
      /\ v5' = [v5 EXCEPT ![j] = new]
      /\ v6' = [v6 EXCEPT ![s] = Invoicing!Max({v6[s], Invoicing!Cardinality(Invoicing!RunsOf(s)) + 1})]
  BY DEF Invoicing!LoadSubscription, Invoicing!IInv, Invoicing!TypeOK
<1>2. new \in Invoicing!Runs /\ new.kind = "check" /\ new.sub = s /\ new # Invoicing!Idle
  BY DEF Invoicing!IInv, Invoicing!TypeOK, Invoicing!Runs, Invoicing!RunSteps, Invoicing!Idle
<1> HIDE DEF new
<1>3. v5' \in [Jobs -> Invoicing!Runs] /\ v5'[j] = new /\ \A h \in Jobs \ {j} : v5'[h] = v5[h]
  BY <1>1, <1>2 DEF Invoicing!IInv, Invoicing!TypeOK
<1>4. /\ Invoicing!RunsOf(s)' = Invoicing!RunsOf(s) \cup {j} /\ j \notin Invoicing!RunsOf(s)
      /\ \A t \in Subscriptions \ {s} : Invoicing!RunsOf(t)' = Invoicing!RunsOf(t)
      /\ Invoicing!RunsOf(s)' \in SUBSET Jobs
  BY <1>1, <1>2, <1>3 DEF Invoicing!RunsOf
<1>5. \A t \in Subscriptions, p \in Invoicing!Periods :
        /\ Invoicing!Creating(t, p)' = Invoicing!Creating(t, p)
        /\ Invoicing!Invoiced(t, p)' = Invoicing!Invoiced(t, p)
  BY <1>1, <1>2, <1>3 DEF Invoicing!Creating, Invoicing!Invoiced, Invoicing!Idle
<1>6. /\ Cardinality(Invoicing!RunsOf(s)') = Cardinality(Invoicing!RunsOf(s)) + 1
      /\ Cardinality(Invoicing!RunsOf(s)) \in Nat
      /\ Cardinality(Invoicing!RunsOf(s)') <= Cardinality(Jobs) /\ Cardinality(Jobs) \in Nat
  BY <1>4, FiniteSets, FiniteOK, Counts
<1>7. v6[s] \in 0..Cardinality(Jobs) /\ v6 \in [Subscriptions -> 0..Cardinality(Jobs)]
  BY SameCount DEF Invoicing!IInv, Invoicing!TypeOK
<1>8. PICK m \in 0..Cardinality(Jobs) :
        /\ v6' = [v6 EXCEPT ![s] = m] /\ m >= v6[s] /\ m >= Cardinality(Invoicing!RunsOf(s)')
  <2> DEFINE m == Invoicing!Max({v6[s], Cardinality(Invoicing!RunsOf(s)')})
  <2>1. v6' = [v6 EXCEPT ![s] = m]
    BY <1>1, <1>6, SameCount
  <2>2. m \in {v6[s], Cardinality(Invoicing!RunsOf(s)')} /\ m >= v6[s] /\ m >= Cardinality(Invoicing!RunsOf(s)')
    <3>1. v6[s] \in Nat /\ Cardinality(Invoicing!RunsOf(s)') \in Nat
      BY <1>6, <1>7
    <3> QED BY <3>1, MaxOfTwo
  <2> HIDE DEF m
  <2>3. m \in 0..Cardinality(Jobs)
    BY <1>6, <1>7, <2>2
  <2> QED BY <2>1, <2>2, <2>3
<1>9. /\ v6' \in [Subscriptions -> 0..Cardinality(Jobs)]
      /\ v6'[s] >= Cardinality(Invoicing!RunsOf(s)') /\ \A t \in Subscriptions : v6'[t] >= v6[t]
      /\ \A t \in Subscriptions \ {s} : v6'[t] = v6[t]
  BY <1>7, <1>8
<1>10. Invoicing!RunsAreCounted'
  <2> SUFFICES ASSUME NEW t \in Subscriptions
               PROVE  /\ Cardinality(Invoicing!RunsOf(t)') <= v6'[t]
                      /\ \A p \in Invoicing!Periods :
                           Cardinality(Invoicing!Invoiced(t, p)') + Cardinality(Invoicing!Creating(t, p)') <= v6'[t]
    BY SameCount DEF Invoicing!RunsAreCounted
  <2>1. /\ Cardinality(Invoicing!RunsOf(t)) <= v6[t] /\ v6[t] \in Nat /\ v6'[t] \in Nat
        /\ \A p \in Invoicing!Periods :
             Cardinality(Invoicing!Invoiced(t, p)) + Cardinality(Invoicing!Creating(t, p)) <= v6[t]
    BY <1>7, <1>9, <1>6, SameCount DEF Invoicing!IInv, Invoicing!RunsAreCounted
  <2>2. Cardinality(Invoicing!RunsOf(t)') <= v6'[t]
    BY <1>4, <1>9, <2>1
  <2>3. ASSUME NEW p \in Invoicing!Periods
        PROVE  Cardinality(Invoicing!Invoiced(t, p)') + Cardinality(Invoicing!Creating(t, p)') <= v6'[t]
    <3>1. Cardinality(Invoicing!Invoiced(t, p)) \in Nat /\ Cardinality(Invoicing!Creating(t, p)) \in Nat
      BY FiniteSets, Counts
    <3> QED BY <1>5, <1>9, <2>1, <3>1
  <2> QED BY <2>2, <2>3
<1>11. \A h \in Jobs : v5'[h] # Invoicing!Idle => v1[v5'[h].sub] # "absent"
  BY <1>1, <1>2, <1>3 DEF Invoicing!IInv, Invoicing!RowsExist
<1>12. v3' \in [Invoices -> Invoicing!InvoiceRows \cup {None}] /\ v6' \in [Subscriptions -> 0..Invoicing!Cardinality(Jobs)]
  BY <1>1, <1>9, SameCount DEF Invoicing!IInv, Invoicing!TypeOK
<1> QED BY <1>1, <1>3, <1>10, <1>11, <1>12, JobKeeps

\* Runs that go on, end, or are about to create: no more of them than runs, and
\* of those for a period that has an invoice none that was not before.
LEMMA RunsGoOn ==
    ASSUME Invoicing!IInv, NEW j \in Jobs, UNCHANGED <<v1, v2, v3, v4, v6, v7>>,
           NEW new \in Invoicing!Runs, v5' = [v5 EXCEPT ![j] = new], v5[j] # Invoicing!Idle,
           \/ new = Invoicing!Idle
           \/ /\ new.kind = "create" /\ new.sub = v5[j].sub /\ new.period = v5[j].period
              /\ Invoicing!Invoiced(new.sub, new.period) = {}
    PROVE  Invoicing!IInv'
<1>1. v5' \in [Jobs -> Invoicing!Runs] /\ v5'[j] = new /\ \A h \in Jobs \ {j} : v5'[h] = v5[h]
  BY DEF Invoicing!IInv, Invoicing!TypeOK
<1>2. \A t \in Subscriptions : Invoicing!RunsOf(t)' \subseteq Invoicing!RunsOf(t)
  BY <1>1 DEF Invoicing!RunsOf
<1>3. \A t \in Subscriptions, p \in Invoicing!Periods :
        \/ Invoicing!Creating(t, p)' \subseteq Invoicing!Creating(t, p)
        \/ Invoicing!Invoiced(t, p) = {}
  BY <1>1 DEF Invoicing!Creating, Invoicing!Idle
<1>4. \A t \in Subscriptions, p \in Invoicing!Periods :
        /\ Invoicing!Creating(t, p)' \subseteq Invoicing!RunsOf(t)'
        /\ Invoicing!Invoiced(t, p)' = Invoicing!Invoiced(t, p)
  BY DEF Invoicing!Creating, Invoicing!RunsOf, Invoicing!Idle, Invoicing!Invoiced
<1>5. Invoicing!RunsAreCounted'
  <2> SUFFICES ASSUME NEW t \in Subscriptions
               PROVE  /\ Cardinality(Invoicing!RunsOf(t)') <= v6[t]
                      /\ \A p \in Invoicing!Periods :
                           Cardinality(Invoicing!Invoiced(t, p)) + Cardinality(Invoicing!Creating(t, p)') <= v6[t]
    BY <1>4, SameCount DEF Invoicing!RunsAreCounted
  <2>1. /\ Cardinality(Invoicing!RunsOf(t)) <= v6[t] /\ v6[t] \in Nat
        /\ \A p \in Invoicing!Periods :
             Cardinality(Invoicing!Invoiced(t, p)) + Cardinality(Invoicing!Creating(t, p)) <= v6[t]
    BY BillingTypes, SameCount DEF Invoicing!IInv, Invoicing!RunsAreCounted
  <2>2. /\ IsFiniteSet(Invoicing!RunsOf(t)') /\ Cardinality(Invoicing!RunsOf(t)') \in Nat
        /\ Cardinality(Invoicing!RunsOf(t)') <= Cardinality(Invoicing!RunsOf(t)) /\ Cardinality(Invoicing!RunsOf(t)) \in Nat
    BY <1>2, FiniteSets, Counts
  <2>3. ASSUME NEW p \in Invoicing!Periods
        PROVE  Cardinality(Invoicing!Invoiced(t, p)) + Cardinality(Invoicing!Creating(t, p)') <= v6[t]
    <3>1. Cardinality(Invoicing!Invoiced(t, p)) \in Nat /\ Cardinality(Invoicing!Creating(t, p)) \in Nat
      BY FiniteSets, Counts
    <3>2. CASE Invoicing!Creating(t, p)' \subseteq Invoicing!Creating(t, p)
      <4>1. Cardinality(Invoicing!Creating(t, p)') <= Cardinality(Invoicing!Creating(t, p)) /\ Cardinality(Invoicing!Creating(t, p)') \in Nat
        BY <3>2, FiniteSets, Counts
      <4> QED BY <2>1, <3>1, <4>1
    <3>3. CASE Invoicing!Invoiced(t, p) = {}
      <4>1. Cardinality(Invoicing!Creating(t, p)') <= Cardinality(Invoicing!RunsOf(t)') /\ Cardinality(Invoicing!Creating(t, p)') \in Nat
        BY <1>4, <2>2, Counts
      <4>2. Cardinality(Invoicing!Invoiced(t, p)) = 0
        BY <3>3, FS_EmptySet
      <4> QED BY <2>1, <2>2, <4>1, <4>2
    <3> QED BY <1>3, <3>2, <3>3
  <2>4. Cardinality(Invoicing!RunsOf(t)') <= v6[t]
    BY <2>1, <2>2
  <2> QED BY <2>3, <2>4
<1>6. \A h \in Jobs : v5'[h] # Invoicing!Idle => v1[v5'[h].sub] # "absent"
  BY <1>1 DEF Invoicing!IInv, Invoicing!RowsExist
<1>7. v3' \in [Invoices -> Invoicing!InvoiceRows \cup {None}] /\ v6' \in [Subscriptions -> 0..Invoicing!Cardinality(Jobs)]
  BY SameCount DEF Invoicing!IInv, Invoicing!TypeOK
<1> QED BY <1>1, <1>5, <1>6, <1>7, JobKeeps

LEMMA CheckStep ==
    ASSUME Invoicing!IInv, NEW j \in Jobs, Invoicing!CheckExisting(j) \/ Invoicing!RunEnds(j)
    PROVE  Invoicing!IInv'
<1>1. UNCHANGED <<v1, v2, v3, v4, v6, v7>> /\ v5[j] # Invoicing!Idle
  BY DEF Invoicing!CheckExisting, Invoicing!RunEnds, Invoicing!Idle
<1>2. Invoicing!Idle \in Invoicing!Runs
  BY DEF Invoicing!Runs
<1> DEFINE new == [v5[j] EXCEPT !.kind = "create"]
<1>3. new \in Invoicing!Runs /\ new.kind = "create" /\ new.sub = v5[j].sub /\ new.period = v5[j].period
  BY <1>1, BillingTypes DEF Invoicing!IInv, Invoicing!Runs, Invoicing!RunSteps
<1>4. \/ v5' = [v5 EXCEPT ![j] = Invoicing!Idle]
      \/ v5' = [v5 EXCEPT ![j] = new] /\ Invoicing!Invoiced(v5[j].sub, v5[j].period) = {}
  BY DEF Invoicing!CheckExisting, Invoicing!RunEnds
<1> HIDE DEF new
<1> QED BY <1>1, <1>2, <1>3, <1>4, RunsGoOn

LEMMA CreateStep ==
    ASSUME Invoicing!IInv, NEW j \in Jobs, Invoicing!CreateInvoice(j)
    PROVE  Invoicing!IInv'
<1> DEFINE i == CHOOSE i \in Invoices : v3[i] = None
           row == [sub |-> v5[j].sub, period |-> v5[j].period, status |-> "PENDING"]
           new == [v5[j] EXCEPT !.kind = "announce"]
<1>1. /\ v5[j].kind = "create" /\ v5[j] # Invoicing!Idle /\ i \in Invoices /\ v3[i] = None
      /\ v3' = [v3 EXCEPT ![i] = row] /\ v5' = [v5 EXCEPT ![j] = new]
      /\ UNCHANGED <<v1, v2, v4, v6, v7>>
  BY DEF Invoicing!CreateInvoice, Invoicing!Idle, Invoicing!IInv, Invoicing!TypeOK
<1>0. PICK s \in Subscriptions, q \in Invoicing!Periods : s = v5[j].sub /\ q = v5[j].period
  BY <1>1, BillingTypes DEF Invoicing!IInv
<1>2. /\ v5[j] \in [kind : Invoicing!RunSteps, sub : Subscriptions, period : Invoicing!Periods]
      /\ v1[s] # "absent"
  BY <1>0, <1>1, BillingTypes DEF Invoicing!IInv, Invoicing!RowsExist
<1>3. row \in Invoicing!InvoiceRows /\ row.sub = s /\ row.period = q /\ row.status = "PENDING" /\ row # None
  <2>1. row \in Invoicing!InvoiceRows /\ row.sub = s /\ row.period = q /\ row.status = "PENDING"
    BY <1>0 DEF Invoicing!InvoiceRows
  <2> HIDE DEF row
  <2>2. row # None
    BY <2>1, InvoicesAreNotNull
  <2> QED BY <2>1, <2>2
<1>4. new \in Invoicing!Runs /\ new.kind = "announce" /\ new.sub = s /\ new # Invoicing!Idle
  BY <1>0, <1>2 DEF Invoicing!Runs, Invoicing!RunSteps, Invoicing!Idle
<1> HIDE DEF i, row, new
<1>5. /\ v3' \in [Invoices -> Invoicing!InvoiceRows \cup {None}] /\ v3'[i] = row
      /\ \A h \in Invoices \ {i} : v3'[h] = v3[h]
  BY <1>1, <1>3 DEF Invoicing!IInv, Invoicing!TypeOK
<1>6. v5' \in [Jobs -> Invoicing!Runs] /\ v5'[j] = new /\ \A h \in Jobs \ {j} : v5'[h] = v5[h]
  BY <1>1, <1>4 DEF Invoicing!IInv, Invoicing!TypeOK
<1>7. \A t \in Subscriptions : Invoicing!RunsOf(t)' = Invoicing!RunsOf(t)
  BY <1>0, <1>1, <1>4, <1>6 DEF Invoicing!RunsOf
<1>8. /\ Invoicing!Creating(s, q)' = Invoicing!Creating(s, q) \ {j} /\ j \in Invoicing!Creating(s, q)
      /\ \A t \in Subscriptions, p \in Invoicing!Periods :
           Invoicing!Creating(t, p)' \subseteq Invoicing!Creating(t, p)
  BY <1>0, <1>1, <1>4, <1>6 DEF Invoicing!Creating
<1>9. /\ Invoicing!Invoiced(s, q)' = Invoicing!Invoiced(s, q) \cup {i} /\ i \notin Invoicing!Invoiced(s, q)
      /\ \A t \in Subscriptions, p \in Invoicing!Periods :
           <<t, p>> # <<s, q>> => Invoicing!Invoiced(t, p)' = Invoicing!Invoiced(t, p)
  <2>1. PICK k \in Invoices : k = i
    BY <1>1
  <2> QED BY <1>1, <1>3, <1>5, <2>1 DEF Invoicing!Invoiced
<1>10. Invoicing!RunsAreCounted'
  <2> SUFFICES ASSUME NEW t \in Subscriptions
               PROVE  /\ Cardinality(Invoicing!RunsOf(t)') <= v6[t]
                      /\ \A p \in Invoicing!Periods :
                           Cardinality(Invoicing!Invoiced(t, p)') + Cardinality(Invoicing!Creating(t, p)') <= v6[t]
    BY <1>1, SameCount DEF Invoicing!RunsAreCounted
  <2>1. /\ Cardinality(Invoicing!RunsOf(t)) <= v6[t] /\ v6[t] \in Nat
        /\ \A p \in Invoicing!Periods :
             Cardinality(Invoicing!Invoiced(t, p)) + Cardinality(Invoicing!Creating(t, p)) <= v6[t]
    BY BillingTypes, SameCount DEF Invoicing!IInv, Invoicing!RunsAreCounted
  <2>2. ASSUME NEW p \in Invoicing!Periods
        PROVE  Cardinality(Invoicing!Invoiced(t, p)') + Cardinality(Invoicing!Creating(t, p)') <= v6[t]
    <3>1. /\ Cardinality(Invoicing!Invoiced(t, p)) \in Nat /\ Cardinality(Invoicing!Creating(t, p)) \in Nat
          /\ IsFiniteSet(Invoicing!Invoiced(t, p)) /\ IsFiniteSet(Invoicing!Creating(t, p))
      BY FiniteSets, Counts
    <3>2. Cardinality(Invoicing!Creating(t, p)') <= Cardinality(Invoicing!Creating(t, p)) /\ Cardinality(Invoicing!Creating(t, p)') \in Nat
      BY <1>8, <3>1, Counts
    <3>3. CASE <<t, p>> # <<s, q>>
      BY <1>9, <2>1, <3>1, <3>2, <3>3
    <3>4. CASE t = s /\ p = q
      <4>1. Cardinality(Invoicing!Creating(t, p)') + 1 = Cardinality(Invoicing!Creating(t, p))
        BY <1>8, <3>1, <3>4, Counts
      <4>2. Cardinality(Invoicing!Invoiced(t, p)') = Cardinality(Invoicing!Invoiced(t, p)) + 1
        BY <1>9, <3>1, <3>4, Counts
      <4> QED BY <2>1, <3>1, <3>2, <4>1, <4>2
    <3> QED BY <3>3, <3>4
  <2> QED BY <1>7, <2>1, <2>2
<1>11. \A h \in Jobs : v5'[h] # Invoicing!Idle => v1[v5'[h].sub] # "absent"
  BY <1>2, <1>4, <1>6 DEF Invoicing!IInv, Invoicing!RowsExist
<1>12. v6' \in [Subscriptions -> 0..Invoicing!Cardinality(Jobs)]
  BY <1>1, SameCount DEF Invoicing!IInv, Invoicing!TypeOK
<1>13. \A h \in Invoices : \/ v3'[h] = v3[h]
                           \/ v3[h] = None /\ v3'[h].status = "PENDING" /\ v1[v3'[h].sub] # "absent"
  BY <1>1, <1>2, <1>3, <1>5
<1> QED BY <1>1, <1>5, <1>6, <1>10, <1>11, <1>12, <1>13, JobKeeps

LEMMA InvoicingStep ==
    ASSUME Invoicing!IInv, [Invoicing!Next]_(Invoicing!vars)
    PROVE  Invoicing!IInv'
<1>1. CASE UNCHANGED Invoicing!vars
  <2>1. UNCHANGED <<v1, v2, v3, v4, v5, v6, v7>>
    BY <1>1 DEF Invoicing!vars
  <2>2. Invoicing!RunsAreCounted'
    BY <2>1, RunsStay DEF Invoicing!IInv
  <2> QED BY <2>1, <2>2, JobKeeps, SameCount DEF Invoicing!IInv, Invoicing!TypeOK, Invoicing!RowsExist
<1> QED
  BY <1>1, FindStep, CancelStep, ActivateStep, ReadStep, MarkStep, LoadStep, CheckStep, CreateStep DEF Invoicing!Next

LEMMA InvoicingInvariant == FrontSpec => [](focus = "invoicing" => Invoicing!IInv)
<1> DEFINE Inv == focus = "invoicing" => Invoicing!IInv
<1>1. FrontInit => Inv
  <2> SUFFICES ASSUME Invoicing!Init PROVE Invoicing!IInv
    BY DEF FrontInit
  <2>1. Cardinality(Jobs) \in Nat /\ Cardinality(Owners) \in Nat
    BY FiniteOK, FS_CardinalityType
  <2>2. Invoicing!TypeOK
    BY <2>1, SameCount DEF Invoicing!Init, Invoicing!TypeOK, Invoicing!Status, Invoicing!Periods, Invoicing!OpenRequests, Invoicing!Runs
  <2>3. /\ Invoicing!Activating = {} /\ Invoicing!Active = {}
        /\ \A s \in Subscriptions : /\ Invoicing!RunsOf(s) = {}
                                    /\ \A p \in Invoicing!Periods : Invoicing!Invoiced(s, p) = {} /\ Invoicing!Creating(s, p) = {}
    BY DEF Invoicing!Init, Invoicing!Activating, Invoicing!Active, Invoicing!RunsOf, Invoicing!Invoiced,
           Invoicing!Creating, Invoicing!Idle
  <2>4. Invoicing!Cardinality({}) = 0
    BY SameCount, FS_EmptySet
  <2>5. Invoicing!RunsAreCounted /\ Invoicing!ActivationsAreCounted
    <3>1. Invoicing!RunsAreCounted
      <4>1. \A s \in Subscriptions : v6[s] = 0
        BY DEF Invoicing!Init
      <4>2. ASSUME NEW s \in Subscriptions
            PROVE  /\ Invoicing!Cardinality(Invoicing!RunsOf(s)) <= v6[s]
                   /\ \A p \in Invoicing!Periods :
                        Invoicing!Cardinality(Invoicing!Invoiced(s, p)) + Invoicing!Cardinality(Invoicing!Creating(s, p)) <= v6[s]
        <5>1. Invoicing!Cardinality(Invoicing!RunsOf(s)) = 0
          BY <2>3, <2>4
        <5>2. ASSUME NEW p \in Invoicing!Periods
              PROVE  Invoicing!Cardinality(Invoicing!Invoiced(s, p)) = 0 /\ Invoicing!Cardinality(Invoicing!Creating(s, p)) = 0
          BY <2>3, <2>4
        <5> QED BY <4>1, <5>1, <5>2
      <4> QED BY <4>2 DEF Invoicing!RunsAreCounted
    <3>2. Invoicing!ActivationsAreCounted
      <4>1. v7 = 0
        BY DEF Invoicing!Init
      <4>2. \A D \in SUBSET Invoicing!Activating : D = {} /\ Invoicing!Left(D) = {}
        BY <2>3 DEF Invoicing!Left
      <4> QED BY <2>4, <4>1, <4>2 DEF Invoicing!ActivationsAreCounted
    <3> QED BY <3>1, <3>2
  <2>6. Invoicing!FailedInvoiceSuspends /\ Invoicing!RowsExist /\ Invoicing!MarkingsStand
    BY <2>3 DEF Invoicing!Init, Invoicing!FailedInvoiceSuspends, Invoicing!RowsExist, Invoicing!MarkingsStand, Invoicing!Idle
  <2> QED BY <2>2, <2>5, <2>6 DEF Invoicing!IInv
<1>2. Inv /\ [FrontNext]_frontVars => Inv'
  <2> SUFFICES ASSUME Inv, [FrontNext]_frontVars, focus' = "invoicing" PROVE Invoicing!IInv'
    OBVIOUS
  <2>1. focus = "invoicing" /\ [Invoicing!Next]_(Invoicing!vars)
    BY DEF FrontNext, frontVars, Invoicing!vars, five, two
  <2> QED BY <2>1, InvoicingStep
<1> QED BY <1>1, <1>2, PTL DEF FrontSpec

\* actions/invoices/markInvoiceFailed.ts, worker/processors/processInvoice.ts: a
\* FAILED invoice leaves no subscription ACTIVE, and a period has no more
\* invoices, an owner no more subscriptions, than runs or activations overlapped.
THEOREM InvoicesStand == FrontSpec => []LegacyInvoicesStand
<1>1. (focus = "invoicing" => Invoicing!IInv) => LegacyInvoicesStand
  <2> SUFFICES ASSUME Invoicing!IInv PROVE Invoicing!DuplicatesNeedOverlap
    BY DEF LegacyInvoicesStand, Invoicing!IInv
  <2>1. ASSUME NEW s \in Subscriptions, NEW p \in Invoicing!Periods
        PROVE  Cardinality(Invoicing!Invoiced(s, p)) <= v6[s]
    <3>1. /\ Cardinality(Invoicing!Invoiced(s, p)) + Cardinality(Invoicing!Creating(s, p)) <= v6[s] /\ v6[s] \in Nat
          /\ Cardinality(Invoicing!Invoiced(s, p)) \in Nat /\ Cardinality(Invoicing!Creating(s, p)) \in Nat
      BY FiniteSets, Counts, SameCount, BillingTypes DEF Invoicing!IInv, Invoicing!RunsAreCounted
    <3> QED BY <3>1
  <2>2. Cardinality(Invoicing!Active) <= v7
    <3>1. Invoicing!Cardinality(Invoicing!Left({})) + Invoicing!Cardinality({}) <= v7
      BY DEF Invoicing!IInv, Invoicing!ActivationsAreCounted
    <3>2. Invoicing!Left({}) = Invoicing!Active
      BY DEF Invoicing!Left
    <3>3. Cardinality({}) = 0 /\ Cardinality(Invoicing!Active) \in Nat
      BY FS_EmptySet, FiniteSets, Counts
    <3> QED BY <3>1, <3>2, <3>3, SameCount
  <2> QED BY <2>1, <2>2, SameCount DEF Invoicing!DuplicatesNeedOverlap
<1> QED BY <1>1, InvoicingInvariant, PTL

-----------------------------------------------------------------------------
(* LegacyWebhook: v1 event, v2 adding, v3 active, v4 row, v5 job, v6 seen,  *)
(* v7 broken.                                                               *)

LEMMA MaxOfInterval ==
    ASSUME NEW k \in Nat \ {0}
    PROVE  1..k # {} /\ Hooks!Max(1..k) = k
<1>1. k \in 1..k /\ \A m \in 1..k : k >= m
  OBVIOUS
<1>2. Hooks!Max(1..k) \in 1..k /\ \A m \in 1..k : Hooks!Max(1..k) >= m
  BY <1>1 DEF Hooks!Max
<1> QED BY <1>1, <1>2

LEMMA Recordings ==
    ASSUME NEW e, Hooks!InOrder(e)
    PROVE  /\ Hooks!Latest(e) \in 0..MaxAttempts
           /\ Hooks!Recorded(e) = 1..Hooks!Latest(e)
           /\ \A m \in 1..(Hooks!Latest(e) - 1) : v4[e][m] = "FAILED"
<1>1. PICK k \in 0..MaxAttempts : Hooks!Recorded(e) = 1..k /\ \A m \in 1..(k - 1) : v4[e][m] = "FAILED"
  BY DEF Hooks!InOrder
<1>2. Hooks!Latest(e) = k
  <2>1. CASE k = 0
    BY <1>1, <2>1 DEF Hooks!Latest
  <2>2. CASE k > 0
    BY <1>1, <2>2, MaxOfInterval DEF Hooks!Latest
  <2> QED BY <2>1, <2>2, AttemptsOK
<1> QED BY <1>1, <1>2, AttemptsOK

LEMMA SameRecord ==
    ASSUME NEW e, v4'[e] = v4[e]
    PROVE  /\ Hooks!Recorded(e)' = Hooks!Recorded(e)
           /\ Hooks!Latest(e)' = Hooks!Latest(e)
           /\ Hooks!Settled(e)' = Hooks!Settled(e)
           /\ Hooks!Exhausted(e)' = Hooks!Exhausted(e)
           /\ Hooks!InOrder(e) => Hooks!InOrder(e)'
BY DEF Hooks!Recorded, Hooks!Latest, Hooks!Settled, Hooks!Exhausted, Hooks!InOrder

\* What a step that records nothing has to show.
LEMMA QuietHook ==
    ASSUME Hooks!IInv, Hooks!TypeOK', Hooks!Unstarted', UNCHANGED v4, v7 \subseteq v7',
           \A e \in Endpoints, n \in Hooks!Attempts :
               \/ v5'[e][n] = v5[e][n] /\ v6'[e][n] = v6[e][n]
               \/ /\ Hooks!JobOK(e, n)'
                  /\ v5[e][n] = "retry" => e \in v7' \/ v5'[e][n] = "retry" \/ v5'[e][n + 1] # "absent"
                  /\ v5'[e][n] = "absent" => n <= Hooks!Latest(e) \/ Hooks!Settled(e) \/ e \in v7'
    PROVE  Hooks!IInv'
<1>1. \A e \in Endpoints :
        /\ Hooks!Recorded(e)' = Hooks!Recorded(e)
        /\ Hooks!Latest(e)' = Hooks!Latest(e)
        /\ Hooks!Settled(e)' = Hooks!Settled(e)
        /\ Hooks!Exhausted(e)' = Hooks!Exhausted(e)
        /\ Hooks!InOrder(e)'
        /\ Hooks!Latest(e) \in 0..MaxAttempts
        /\ Hooks!Recorded(e) = 1..Hooks!Latest(e)
  BY SameRecord, Recordings DEF Hooks!IInv
<1>2. \A e \in Endpoints, n \in Hooks!Attempts : Hooks!JobOK(e, n)'
  BY <1>1 DEF Hooks!IInv, Hooks!JobOK
<1>3. Hooks!ChainUnbroken'
  <2> SUFFICES ASSUME NEW e \in Endpoints,
                      Hooks!Recorded(e) # {}, ~ Hooks!Settled(e), ~ Hooks!Exhausted(e), e \notin v7'
               PROVE  \/ v5'[e][Hooks!Latest(e)] = "retry"
                      \/ v5'[e][Hooks!Latest(e) + 1] # "absent"
    BY <1>1 DEF Hooks!ChainUnbroken
  <2>1. Hooks!Latest(e) \in 1..(MaxAttempts - 1)
    BY <1>1, AttemptsOK DEF Hooks!Exhausted
  <2>2. Hooks!Latest(e) \in Hooks!Attempts /\ Hooks!Latest(e) + 1 \in Hooks!Attempts
    BY <2>1, AttemptsOK DEF Hooks!Attempts
  <2>3. \/ v5[e][Hooks!Latest(e)] = "retry"
        \/ v5[e][Hooks!Latest(e) + 1] # "absent"
    BY DEF Hooks!IInv, Hooks!ChainUnbroken
  <2>4. CASE v5[e][Hooks!Latest(e)] = "retry"
    BY <2>2, <2>4
  <2>5. CASE v5[e][Hooks!Latest(e) + 1] # "absent"
    BY <2>1, <2>2, <2>5
  <2> QED BY <2>3, <2>4, <2>5
<1> QED BY <1>1, <1>2, <1>3 DEF Hooks!IInv

\* One that records the next attempt.
LEMMA RecordingHook ==
    ASSUME Hooks!IInv, Hooks!TypeOK', NEW e \in Endpoints, NEW n \in Hooks!Attempts,
           v5[e][n] \in {"accepted", "refused"},
           NEW outcome \in {"SUCCESS", "FAILED"},
           v4' = [v4 EXCEPT ![e][n] = outcome],
           v5' = [v5 EXCEPT ![e][n] = IF outcome = "FAILED" /\ n < MaxAttempts THEN "retry" ELSE "refresh"],
           v6' = [v6 EXCEPT ![e][n] = Hooks!Absent],
           UNCHANGED <<v1, v2, v3, v7>>
    PROVE  Hooks!IInv'
<1> USE AttemptsOK DEF Hooks!Attempts
<1>1. /\ n = Hooks!Latest(e) + 1 /\ Hooks!Latest(e) = n - 1 /\ ~ Hooks!Settled(e)
      /\ Hooks!Recorded(e) = 1..(n - 1)
      /\ \A m \in 1..(n - 2) : v4[e][m] = "FAILED"
  BY Recordings DEF Hooks!IInv, Hooks!JobOK
<1>2. \A m \in 1..(n - 1) : v4[e][m] = "FAILED"
  <2>1. CASE n = 1
    BY <2>1
  <2>2. CASE n > 1
    <3>1. n - 1 \in Hooks!Recorded(e)
      BY <1>1, <2>2
    <3>2. v4[e][n - 1] \in {"none", "FAILED", "SUCCESS"}
      BY <2>2 DEF Hooks!IInv, Hooks!TypeOK
    <3>3. v4[e][n - 1] = "FAILED"
      BY <1>1, <2>2, <3>1, <3>2 DEF Hooks!Recorded, Hooks!Settled
    <3> QED BY <1>1, <3>3
  <2> QED BY <2>1, <2>2
<1>3. v4'[e] = [v4[e] EXCEPT ![n] = outcome] /\ \A f \in Endpoints \ {e} : v4'[f] = v4[f]
  BY DEF Hooks!IInv, Hooks!TypeOK
<1>4. /\ v4'[e][n] = outcome
      /\ \A m \in Hooks!Attempts \ {n} : v4'[e][m] = v4[e][m]
  BY <1>3 DEF Hooks!IInv, Hooks!TypeOK
<1>5. Hooks!Recorded(e)' = 1..n
  <2>1. \A m \in Hooks!Attempts : v4'[e][m] # "none" <=> m \in 1..n
    BY <1>1, <1>4 DEF Hooks!Recorded
  <2> QED BY <2>1 DEF Hooks!Recorded
<1>6. Hooks!Latest(e)' = n
  BY <1>5, MaxOfInterval DEF Hooks!Latest
<1>7. Hooks!InOrder(e)'
  BY <1>2, <1>4, <1>5 DEF Hooks!InOrder
<1>8. Hooks!Settled(e)' <=> outcome = "SUCCESS"
  BY <1>4, <1>6 DEF Hooks!Settled
<1>9. \A f \in Endpoints \ {e} :
        /\ Hooks!Recorded(f)' = Hooks!Recorded(f)
        /\ Hooks!Latest(f)' = Hooks!Latest(f)
        /\ Hooks!Settled(f)' = Hooks!Settled(f)
        /\ Hooks!Exhausted(f)' = Hooks!Exhausted(f)
        /\ Hooks!InOrder(f)'
  BY <1>3, SameRecord DEF Hooks!IInv
<1>10. /\ v5'[e][n] = IF outcome = "FAILED" /\ n < MaxAttempts THEN "retry" ELSE "refresh"
       /\ \A m \in Hooks!Attempts \ {n} : v5'[e][m] = v5[e][m] /\ v6'[e][m] = v6[e][m]
       /\ \A f \in Endpoints \ {e} : v5'[f] = v5[f] /\ v6'[f] = v6[f]
  BY DEF Hooks!IInv, Hooks!TypeOK
<1>11. \A m \in Hooks!Attempts : Hooks!JobOK(e, m)'
  <2> SUFFICES ASSUME NEW m \in Hooks!Attempts PROVE Hooks!JobOK(e, m)'
    OBVIOUS
  <2>1. CASE m = n
    BY <1>6, <1>8, <1>10, <2>1 DEF Hooks!JobOK
  <2>2. CASE m # n
    <3>1. v5[e][m] \notin {"send", "accepted", "refused"}
      BY <1>1, <2>2 DEF Hooks!IInv, Hooks!JobOK
    <3> QED BY <1>1, <1>6, <1>8, <1>10, <2>2, <3>1 DEF Hooks!IInv, Hooks!JobOK
  <2> QED BY <2>1, <2>2
<1>12. \A f \in Endpoints \ {e}, m \in Hooks!Attempts : Hooks!JobOK(f, m)'
  BY <1>9, <1>10 DEF Hooks!IInv, Hooks!JobOK
<1>13. Hooks!ChainUnbroken'
  BY <1>6, <1>8, <1>9, <1>10 DEF Hooks!IInv, Hooks!ChainUnbroken, Hooks!Exhausted
<1>14. Hooks!Unstarted'
  BY DEF Hooks!IInv, Hooks!Unstarted
<1> QED BY <1>7, <1>9, <1>11, <1>12, <1>13, <1>14 DEF Hooks!IInv

LEMMA HooksStep ==
    ASSUME Hooks!IInv, [Hooks!Next]_(Hooks!vars)
    PROVE  Hooks!IInv'
<1> USE AttemptsOK
<1>0. \A e \in Endpoints, n \in Hooks!Attempts : Hooks!Latest(e) \in 0..MaxAttempts /\ n \in 1..MaxAttempts
  BY Recordings DEF Hooks!IInv, Hooks!Attempts
<1> DEFINE NotLost(e, n) ==
      \/ v5'[e][n] = v5[e][n] /\ v6'[e][n] = v6[e][n]
      \/ /\ Hooks!JobOK(e, n)'
         /\ v5[e][n] = "retry" => e \in v7' \/ v5'[e][n] = "retry" \/ v5'[e][n + 1] # "absent"
         /\ v5'[e][n] = "absent" => n <= Hooks!Latest(e) \/ Hooks!Settled(e) \/ e \in v7'
<1>1. CASE UNCHANGED Hooks!vars
  <2>1. UNCHANGED v4 /\ v7 \subseteq v7' /\ \A e \in Endpoints, n \in Hooks!Attempts : NotLost(e, n)
    BY <1>1 DEF Hooks!vars
  <2>2. Hooks!TypeOK' /\ Hooks!Unstarted'
    BY <1>1 DEF Hooks!vars, Hooks!TypeOK, Hooks!IInv, Hooks!Unstarted
  <2> QED BY <2>1, <2>2, QuietHook
<1>2. CASE Hooks!CreateEvent
  <2> USE <1>2 DEF Hooks!CreateEvent
  <2>1. UNCHANGED v4 /\ v7 \subseteq v7' /\ \A e \in Endpoints, n \in Hooks!Attempts : NotLost(e, n)
    OBVIOUS
  <2>2. Hooks!TypeOK' /\ Hooks!Unstarted'
    BY DEF Hooks!TypeOK, Hooks!IInv, Hooks!Unstarted, Hooks!EventRows, Hooks!Absent
  <2> QED BY <2>1, <2>2, QuietHook
<1>3. CASE Hooks!AddFirstJobs
  <2> DEFINE added == [f \in Endpoints |->
                         IF f \in v1.targets THEN [v5[f] EXCEPT ![1] = "waiting"] ELSE v5[f]]
  <2>0. v2 = TRUE /\ v2' = FALSE
    BY <1>3 DEF Hooks!AddFirstJobs, Hooks!IInv, Hooks!TypeOK
  <2>1. /\ UNCHANGED <<v1, v3, v4, v6>>
        /\ v7' \in {v7, v7 \cup v1.targets} /\ v7 \subseteq v7'
        /\ v5' = v5 \/ v5' = added
    BY <1>3 DEF Hooks!AddFirstJobs
  <2>2. ASSUME NEW e \in Endpoints, NEW n \in Hooks!Attempts PROVE NotLost(e, n)
    <3>1. v5[e][n] = "absent"
      BY <2>0 DEF Hooks!IInv, Hooks!Unstarted
    <3>2. \/ v5'[e][n] = v5[e][n]
          \/ n = 1 /\ v5'[e][n] = "waiting"
      <4>1. v5[e] \in [Hooks!Attempts -> Hooks!JobSteps]
        BY DEF Hooks!IInv, Hooks!TypeOK
      <4>2. CASE v5' = added
        <5>1. v5'[e] = v5[e] \/ v5'[e] = [v5[e] EXCEPT ![1] = "waiting"]
          BY <4>2
        <5> QED BY <4>1, <5>1
      <4> HIDE DEF added
      <4> QED BY <2>1, <4>2
    <3>3. Hooks!Latest(e)' \in 0..MaxAttempts
      BY <1>0, <2>1 DEF Hooks!Latest, Hooks!Recorded
    <3> QED BY <1>0, <2>1, <3>1, <3>2, <3>3 DEF Hooks!JobOK
  <2>3. Hooks!TypeOK'
    <3>1. v1 \in Hooks!EventRows
      BY <2>0, <2>1 DEF Hooks!IInv, Hooks!TypeOK, Hooks!Unstarted
    <3>2. v5' \in [Endpoints -> [Hooks!Attempts -> Hooks!JobSteps]]
      <4>1. v5 \in [Endpoints -> [Hooks!Attempts -> Hooks!JobSteps]]
        BY DEF Hooks!IInv, Hooks!TypeOK
      <4>2. added \in [Endpoints -> [Hooks!Attempts -> Hooks!JobSteps]]
        BY <4>1 DEF Hooks!JobSteps
      <4> HIDE DEF added
      <4> QED BY <2>1, <4>1, <4>2
    <3>3. v7' \in SUBSET Endpoints
      BY <2>1, <3>1 DEF Hooks!IInv, Hooks!TypeOK, Hooks!EventRows
    <3> QED BY <2>0, <2>1, <3>2, <3>3 DEF Hooks!IInv, Hooks!TypeOK
  <2>4. Hooks!Unstarted'
    BY <2>0, <2>1 DEF Hooks!IInv, Hooks!Unstarted
  <2> QED BY <2>1, <2>2, <2>3, <2>4, QuietHook
<1>4. ASSUME NEW e \in Endpoints, Hooks!ToggleEndpoint(e) PROVE Hooks!IInv'
  <2> USE <1>4 DEF Hooks!ToggleEndpoint
  <2>1. UNCHANGED v4 /\ v7 \subseteq v7' /\ \A f \in Endpoints, n \in Hooks!Attempts : NotLost(f, n)
    OBVIOUS
  <2>2. Hooks!TypeOK' /\ Hooks!Unstarted'
    BY DEF Hooks!TypeOK, Hooks!IInv, Hooks!Unstarted
  <2> QED BY <2>1, <2>2, QuietHook
\* The steps of one job.
<1>5. ASSUME NEW e \in Endpoints, NEW n \in Hooks!Attempts,
             Hooks!RecordSuccess(e, n) \/ Hooks!RecordFailure(e, n)
      PROVE  Hooks!IInv'
  <2>1. PICK outcome \in {"SUCCESS", "FAILED"} :
          /\ v5[e][n] \in {"accepted", "refused"}
          /\ v4' = [v4 EXCEPT ![e][n] = outcome]
          /\ v5' = [v5 EXCEPT ![e][n] = IF outcome = "FAILED" /\ n < MaxAttempts THEN "retry" ELSE "refresh"]
          /\ v6' = [v6 EXCEPT ![e][n] = Hooks!Absent]
          /\ UNCHANGED <<v1, v2, v3, v7>>
    BY <1>5 DEF Hooks!RecordSuccess, Hooks!RecordFailure, Hooks!Goto
  <2>2. Hooks!TypeOK'
    BY <2>1 DEF Hooks!IInv, Hooks!TypeOK, Hooks!JobSteps
  <2> QED BY <2>1, <2>2, RecordingHook
<1>6. ASSUME NEW e \in Endpoints, NEW n \in Hooks!Attempts,
             \/ Hooks!Check(e, n) \/ Hooks!Send(e, n) \/ Hooks!JobFails(e, n) \/ Hooks!Stalls(e, n)
             \/ Hooks!Refresh(e, n) \/ Hooks!WriteEvent(e, n)
      PROVE  Hooks!IInv'
  <2> DEFINE
        Moves(step, next) ==
          /\ v5[e][n] # "absent"
          /\ v5' = [v5 EXCEPT ![e][n] = step] /\ v6' = [v6 EXCEPT ![e][n] = next]
          /\ v7' \in {v7, v7 \cup {e}} /\ UNCHANGED <<v2, v3, v4>>
          /\ v1' = v1 \/ v1' \in Hooks!EventRows
        Rests(step, next) ==
          /\ step \in {"send", "accepted", "refused"} => n = Hooks!Latest(e) + 1 /\ ~ Hooks!Settled(e)
          /\ step \in {"refresh", "write", "absent"}
               => n <= Hooks!Latest(e) \/ Hooks!Settled(e) \/ e \in v7'
          /\ step = "write" => next \in Hooks!EventRows
  <2>0. Hooks!JobOK(e, n) /\ n <= Hooks!Latest(e) + 1 /\ v5[e][n] # "absent"
    BY <1>6 DEF Hooks!IInv, Hooks!JobOK, Hooks!Check, Hooks!Send, Hooks!JobFails, Hooks!Stalls,
            Hooks!Refresh, Hooks!WriteEvent
  <2>1. \E step \in Hooks!JobSteps \ {"retry"}, next \in Hooks!EventRows \cup {Hooks!Absent} :
          Moves(step, next) /\ Rests(step, next) /\ (v5[e][n] = "retry" => e \in v7')
    <3> USE DEF Hooks!JobSteps, Hooks!Goto, Hooks!Breaks
    <3>1. CASE Hooks!Check(e, n)
      <4>1. Moves(IF Hooks!Targeted(e) /\ Hooks!Due(e, n) THEN "send" ELSE "refresh", Hooks!Absent)
        BY <3>1 DEF Hooks!Check
      <4>2. Rests(IF Hooks!Targeted(e) /\ Hooks!Due(e, n) THEN "send" ELSE "refresh", Hooks!Absent)
        BY <1>0, <2>0, <3>1 DEF Hooks!Check, Hooks!Due
      <4> QED BY <3>1, <4>1, <4>2 DEF Hooks!Check
    <3>2. CASE Hooks!Send(e, n)
      <4>1. PICK outcome \in {"accepted", "refused"} : Moves(outcome, Hooks!Absent)
        BY <3>2 DEF Hooks!Send
      <4>2. Rests(outcome, Hooks!Absent)
        BY <2>0, <3>2 DEF Hooks!Send, Hooks!JobOK
      <4> QED BY <3>2, <4>1, <4>2 DEF Hooks!Send
    <3>3. CASE Hooks!JobFails(e, n)
      <4>1. Moves("absent", Hooks!Absent) /\ (v5[e][n] = "retry" => e \in v7')
        BY <3>3 DEF Hooks!JobFails, Hooks!Unattempted
      <4>2. v5[e][n] \in Hooks!JobSteps
        BY DEF Hooks!IInv, Hooks!TypeOK
      <4>3. Rests("absent", Hooks!Absent)
        BY <2>0, <3>3, <4>2 DEF Hooks!JobFails, Hooks!JobOK, Hooks!Unattempted
      <4> QED BY <4>1, <4>3
    <3>4. CASE Hooks!Stalls(e, n)
      <4>1. Moves("waiting", Hooks!Absent) /\ (v5[e][n] = "retry" => e \in v7') /\ Rests("waiting", Hooks!Absent)
        BY <3>4 DEF Hooks!Stalls
      <4> QED BY <4>1
    <3>5. CASE Hooks!Refresh(e, n)
      <4>1. Rests("absent", Hooks!Absent)
        BY <2>0, <3>5 DEF Hooks!Refresh, Hooks!JobOK
      <4> DEFINE next == [status |-> Hooks!StatusOf(v1.targets \cap v3), targets |-> v1.targets \cap v3]
      <4>2. next \in Hooks!EventRows
        BY DEF Hooks!IInv, Hooks!TypeOK, Hooks!EventRows, Hooks!StatusOf
      <4>3. Rests("write", next)
        BY <4>1, <4>2
      <4>4. Moves("absent", Hooks!Absent) \/ Moves("write", next)
        BY <3>5 DEF Hooks!Refresh
      <4>5. v5[e][n] # "retry"
        BY <3>5 DEF Hooks!Refresh
      <4> HIDE DEF Moves, Rests, next
      <4> QED BY <4>1, <4>2, <4>3, <4>4, <4>5
    <3>6. CASE Hooks!WriteEvent(e, n)
      <4>1. Rests("absent", Hooks!Absent) /\ v6[e][n] \in Hooks!EventRows
        BY <2>0, <3>6 DEF Hooks!WriteEvent, Hooks!JobOK
      <4>2. Moves("absent", Hooks!Absent)
        BY <3>6, <4>1 DEF Hooks!WriteEvent
      <4> QED BY <3>6, <4>1, <4>2 DEF Hooks!WriteEvent
    <3> QED BY <1>6, <3>1, <3>2, <3>3, <3>4, <3>5, <3>6
  <2>2. PICK step \in Hooks!JobSteps \ {"retry"}, next \in Hooks!EventRows \cup {Hooks!Absent} :
          Moves(step, next) /\ Rests(step, next) /\ (v5[e][n] = "retry" => e \in v7')
    BY <2>1
  <2>3. /\ v5'[e][n] = step /\ v6'[e][n] = next
        /\ \A f \in Endpoints, m \in Hooks!Attempts : <<f, m>> # <<e, n>> =>
             v5'[f][m] = v5[f][m] /\ v6'[f][m] = v6[f][m]
    BY <2>2 DEF Hooks!IInv, Hooks!TypeOK
  <2>4. Hooks!TypeOK'
    BY <2>2 DEF Hooks!IInv, Hooks!TypeOK
  <2>5. Hooks!Unstarted'
    BY <2>0, <2>2 DEF Hooks!IInv, Hooks!Unstarted, Hooks!EventRows, Hooks!Absent
  <2>6. Hooks!JobOK(e, n)'
    <3>1. Hooks!Latest(e)' = Hooks!Latest(e) /\ Hooks!Settled(e)' = Hooks!Settled(e)
      BY <2>2, SameRecord
    <3> QED BY <2>0, <2>2, <2>3, <3>1 DEF Hooks!JobOK
  <2>7. \A f \in Endpoints, m \in Hooks!Attempts : NotLost(f, m)
    BY <2>2, <2>3, <2>6
  <2> HIDE DEF NotLost
  <2>8. UNCHANGED v4 /\ v7 \subseteq v7'
    BY <2>2
  <2> USE DEF NotLost
  <2> QED BY <2>4, <2>5, <2>7, <2>8, QuietHook
<1>7. ASSUME NEW e \in Endpoints, NEW n \in Hooks!Attempts, Hooks!EnqueueRetry(e, n) PROVE Hooks!IInv'
  <2>0. n < MaxAttempts /\ n <= Hooks!Latest(e) /\ n + 1 \in Hooks!Attempts
    BY <1>0, <1>7 DEF Hooks!IInv, Hooks!JobOK, Hooks!EnqueueRetry, Hooks!Attempts
  <2>1. /\ v5[e][n] = "retry" /\ v5'[e][n] = "refresh"
        /\ v5'[e][n + 1] = IF v5[e][n + 1] = "absent" THEN "waiting" ELSE v5[e][n + 1]
        /\ \A m \in Hooks!Attempts \ {n, n + 1} : v5'[e][m] = v5[e][m]
        /\ \A f \in Endpoints \ {e} : v5'[f] = v5[f]
        /\ UNCHANGED <<v1, v2, v3, v4, v6, v7>>
    BY <1>0, <1>7, <2>0 DEF Hooks!EnqueueRetry, Hooks!IInv, Hooks!TypeOK
  <2>2. Hooks!TypeOK'
    BY <1>7, <2>0 DEF Hooks!IInv, Hooks!TypeOK, Hooks!EnqueueRetry, Hooks!JobSteps
  <2>3. Hooks!Unstarted'
    BY <2>1 DEF Hooks!IInv, Hooks!Unstarted
  <2>4. Hooks!Latest(e)' = Hooks!Latest(e)
    BY <2>1, SameRecord
  <2>5. Hooks!JobOK(e, n)' /\ (v5[e][n + 1] = "absent" => Hooks!JobOK(e, n + 1)')
    BY <1>0, <2>0, <2>1, <2>4 DEF Hooks!JobOK
  <2>6. \A f \in Endpoints, m \in Hooks!Attempts : NotLost(f, m)
    BY <1>0, <2>0, <2>1, <2>5
  <2> QED BY <2>1, <2>2, <2>3, <2>6, QuietHook
<1> QED
  BY <1>1, <1>2, <1>3, <1>4, <1>5, <1>6, <1>7 DEF Hooks!Next

LEMMA HooksInvariant == FrontSpec => [](focus = "hooks" => Hooks!IInv)
<1> DEFINE Inv == focus = "hooks" => Hooks!IInv
<1>1. FrontInit => Inv
  <2> SUFFICES ASSUME Hooks!Init PROVE Hooks!IInv
    BY DEF FrontInit
  <2> USE AttemptsOK DEF Hooks!Init
  <2>1. \A e \in Endpoints : Hooks!Recorded(e) = {} /\ Hooks!Latest(e) = 0
    BY DEF Hooks!Recorded, Hooks!Latest
  <2>2. Hooks!TypeOK /\ Hooks!Unstarted
    BY DEF Hooks!TypeOK, Hooks!Unstarted, Hooks!JobSteps
  <2>3. Hooks!ChainUnbroken
    BY <2>1 DEF Hooks!ChainUnbroken
  <2>4. \A e \in Endpoints : Hooks!InOrder(e)
    <3>1. 0 \in 0..MaxAttempts /\ 1..0 = {} /\ 1..(0 - 1) = {}
      OBVIOUS
    <3> QED BY <2>1, <3>1 DEF Hooks!InOrder
  <2>5. \A e \in Endpoints, n \in Hooks!Attempts : Hooks!JobOK(e, n)
    BY DEF Hooks!JobOK
  <2> QED BY <2>2, <2>3, <2>4, <2>5 DEF Hooks!IInv
<1>2. Inv /\ [FrontNext]_frontVars => Inv'
  <2> SUFFICES ASSUME Inv, [FrontNext]_frontVars, focus' = "hooks" PROVE Hooks!IInv'
    OBVIOUS
  <2>1. focus = "hooks" /\ [Hooks!Next]_(Hooks!vars)
    BY DEF FrontNext, frontVars, Hooks!vars, five, two
  <2> QED BY <2>1, HooksStep
<1> QED BY <1>1, <1>2, PTL DEF FrontSpec

\* worker/processors/deliverWebhook.ts:190: attempts are numbered without a gap,
\* none follows a success, and a chain that stops has a reason to.
THEOREM ChainsStandUnbroken == FrontSpec => []ChainUnbroken
<1>1. (focus = "hooks" => Hooks!IInv) => ChainUnbroken
  <2> SUFFICES ASSUME Hooks!IInv PROVE Hooks!AttemptsInOrder
    BY DEF ChainUnbroken, Hooks!IInv
  <2> SUFFICES ASSUME NEW e \in Endpoints, NEW n \in Hooks!Recorded(e), NEW m \in 1..(n - 1)
               PROVE  v4[e][m] = "FAILED"
    BY DEF Hooks!AttemptsInOrder
  <2> QED BY Recordings, AttemptsOK DEF Hooks!IInv
<1> QED BY <1>1, HooksInvariant, PTL

-----------------------------------------------------------------------------
(* EndpointSecrets: v1 row, v2 overlap, v3 rotation, v4 flight, v5 replies, *)
(* v6 receiver, v7 issued.                                                  *)

LEMMA RotationStep ==
    ASSUME Rotation!IInv, [Rotation!Next]_(Rotation!vars)
    PROVE  Rotation!IInv'
<1> USE NoSecretOK DEF Rotation!IInv, Rotation!TypeOK, Rotation!Chain, Rotation!RotationsExclude,
        Rotation!SendsExclude, Rotation!Rotating, Rotation!Latest, Rotation!Maybe, Rotation!Pairs,
        Rotation!NoPair, Rotation!NoFlight
<1>1. CASE UNCHANGED Rotation!vars
  BY <1>1 DEF Rotation!vars
<1>2. ASSUME NEW s \in Secrets, Rotation!CreateEndpoint(s) PROVE Rotation!IInv'
  BY <1>2 DEF Rotation!CreateEndpoint, Rotation!Replies
<1>3. ASSUME NEW s \in Secrets, Rotation!Deploy(s) PROVE Rotation!IInv'
  BY <1>3 DEF Rotation!Deploy
<1>4. ASSUME NEW t \in Tabs, NEW s \in Secrets, Rotation!BeginRotation(t, s) PROVE Rotation!IInv'
  BY <1>4 DEF Rotation!BeginRotation, Rotation!MayRead, Rotation!MembershipFree, Rotation!EndpointFree
<1>5. ASSUME NEW t \in Tabs, Rotation!CommitRotation(t) PROVE Rotation!IInv'
  BY <1>5 DEF Rotation!CommitRotation, Rotation!Replies
<1>6. ASSUME NEW t \in Tabs, Rotation!RotationFails(t) PROVE Rotation!IInv'
  BY <1>6 DEF Rotation!RotationFails
<1>7. CASE Rotation!OverlapEnds
  BY <1>7 DEF Rotation!OverlapEnds
<1>8. CASE Rotation!BeginSend
  BY <1>8 DEF Rotation!BeginSend
<1>9. CASE Rotation!TransactionTimesOut
  BY <1>9 DEF Rotation!TransactionTimesOut
<1>10. CASE Rotation!EndSend
  BY <1>10 DEF Rotation!EndSend
<1> QED
  BY <1>1, <1>2, <1>3, <1>4, <1>5, <1>6, <1>7, <1>8, <1>9, <1>10 DEF Rotation!Next

LEMMA RotationInvariant == FrontSpec => [](focus = "rotation" => Rotation!IInv)
<1> DEFINE Inv == focus = "rotation" => Rotation!IInv
<1>1. FrontInit => Inv
  <2> SUFFICES ASSUME Rotation!Init PROVE Rotation!IInv
    BY DEF FrontInit
  <2> USE NoSecretOK DEF Rotation!Init, Rotation!Rotating, Rotation!Maybe, Rotation!Pairs, Rotation!NoPair, Rotation!NoFlight
  <2>1. Rotation!TypeOK
    <3>1. v7 \in Seq(Secrets)
      OBVIOUS
    <3>2. v1 \in Rotation!Pairs /\ v3 \in [Tabs -> Rotation!Pairs] /\ v6 \in Rotation!Pairs
      OBVIOUS
    <3>3. v4 \in [secret : Rotation!Maybe, locked : BOOLEAN]
      OBVIOUS
    <3> QED BY <3>1, <3>2, <3>3 DEF Rotation!TypeOK
  <2>2. Rotation!Chain /\ Rotation!RotationsExclude /\ Rotation!SendsExclude
    BY DEF Rotation!Chain, Rotation!RotationsExclude, Rotation!SendsExclude
  <2> QED BY <2>1, <2>2 DEF Rotation!IInv
<1>2. Inv /\ [FrontNext]_frontVars => Inv'
  <2> SUFFICES ASSUME Inv, [FrontNext]_frontVars, focus' = "rotation" PROVE Rotation!IInv'
    OBVIOUS
  <2>1. focus = "rotation" /\ [Rotation!Next]_(Rotation!vars)
    BY DEF FrontNext, frontVars, Rotation!vars, five, two
  <2> QED BY <2>1, RotationStep
<1> QED BY <1>1, <1>2, PTL DEF FrontSpec

\* actions/webhooks/rotate-secret.ts: under concurrent rotations the row holds the
\* last two secrets handed out, in their order, and a send whose signature an
\* updated receiver refuses was no locked one, and had a secret that was replaced.
THEOREM RotationsFormChains == FrontSpec => []RotationsChain
<1>1. (focus = "rotation" => Rotation!IInv) => RotationsChain
  <2> SUFFICES ASSUME Rotation!IInv PROVE Rotation!RotationsChain
    BY DEF RotationsChain
  <2> QED
  BY NoSecretOK DEF Rotation!IInv, Rotation!TypeOK, Rotation!Chain,
        Rotation!SendsExclude, Rotation!Latest, Rotation!Maybe, Rotation!Pairs, Rotation!RotationsChain, Rotation!Verifies,
        Rotation!NoPair, Rotation!NoFlight
<1> QED BY <1>1, RotationInvariant, PTL

-----------------------------------------------------------------------------
(* Organizations: v1 registered, v2 org, v3 member, v4 invite, v5 request.  *)

LEMMA MemberTypes ==
    ASSUME Members!TypeOK
    PROVE
      /\ \A o \in Orgs : Members!Live(o) => v2[o] \in Members!OrgRows
      /\ \A i \in Invites : Members!Open(i) => v4[i] \in Members!InviteRows
      /\ \A a \in Actors :
           /\ v5[a].kind = "create" => v5[a].user \in Users /\ v5[a].name \in Names
           /\ v5[a].kind = "rename" => v5[a].org \in Orgs /\ v5[a].name \in Names
           /\ v5[a].kind = "accept" => v5[a].invite \in Invites /\ v5[a].wasAccepted \in BOOLEAN
BY DEF Members!TypeOK, Members!Live, Members!Open, Members!OpenRequests, Members!Idle

LEMMA RequestEnds ==
    ASSUME Members!TypeOK, NEW a \in Actors, Members!Ends(a)
    PROVE  /\ v5' \in [Actors -> Members!OpenRequests \cup {Members!Idle}]
           /\ v5'[a].kind = "idle" /\ \A b \in Actors \ {a} : v5'[b] = v5[b]
BY DEF Members!TypeOK, Members!Ends, Members!Idle

\* An invitation whose parties, role and acceptance stay is as good as before.
LEMMA ExpireMembers ==
    ASSUME Members!IInv, NEW i \in Invites, Members!Expire(i)
    PROVE  Members!IInv'
<1>1. /\ v4[i] \in Members!InviteRows /\ v4' = [v4 EXCEPT ![i] = [v4[i] EXCEPT !.expired = TRUE]]
      /\ UNCHANGED <<v1, v2, v3, v5>>
  BY MemberTypes DEF Members!Expire, Members!IInv
<1>2. [v4[i] EXCEPT !.expired = TRUE] \in Members!InviteRows
  BY <1>1 DEF Members!InviteRows
<1>3. /\ v4' \in [Invites -> Members!InviteRows \cup {None, Gone}]
      /\ v4'[i] = [v4[i] EXCEPT !.expired = TRUE]
      /\ \A j \in Invites \ {i} : v4'[j] = v4[j]
  BY <1>1, <1>2 DEF Members!IInv, Members!TypeOK
<1>4. /\ v4'[i].org = v4[i].org /\ v4'[i].email = v4[i].email /\ v4'[i].role = v4[i].role
      /\ v4'[i].accepted = v4[i].accepted
  BY <1>1, <1>3 DEF Members!InviteRows
<1>5. \A j \in Invites : /\ Members!Open(j)' <=> Members!Open(j)
                         /\ v4'[j] = None <=> v4[j] = None
  BY <1>1, <1>2, <1>3, NullsOK DEF Members!Open
<1>6. \A j \in Invites : Members!Open(j) =>
        /\ v4'[j].org = v4[j].org /\ v4'[j].email = v4[j].email /\ v4'[j].role = v4[j].role
        /\ v4'[j].accepted = v4[j].accepted
  BY <1>3, <1>4
<1>7. Members!TypeOK'
  BY <1>1, <1>3 DEF Members!IInv, Members!TypeOK
<1>8. Members!MembersAdmitted' /\ Members!OneOwner'
  BY <1>1, <1>5, <1>6 DEF Members!IInv, Members!MembersAdmitted, Members!Admitted, Members!OneOwner
<1>9. Members!RowsAreLive' /\ Members!AcceptancesStand'
  BY <1>1, <1>5, <1>6, MemberTypes DEF Members!IInv, Members!RowsAreLive, Members!AcceptancesStand, Members!Live
<1>10. Members!CreationsAreAlone' /\ Members!NamesDifferUnlessRenamed'
  BY <1>1 DEF Members!IInv, Members!CreationsAreAlone, Members!NamesDifferUnlessRenamed, Members!Live
<1> QED BY <1>7, <1>8, <1>9, <1>10 DEF Members!IInv

LEMMA CreateMembers ==
    ASSUME Members!IInv, NEW a \in Actors, Members!CreateOrganization(a)
    PROVE  Members!IInv'
<1> USE NullsOK
<1>1. v5[a].kind = "create" /\ v5[a].user \in Users /\ v5[a].name \in Names
  BY MemberTypes DEF Members!IInv, Members!CreateOrganization
<1> DEFINE new == [name |-> v5[a].name, renamed |-> FALSE]
<1>2. PICK o \in Orgs :
        /\ v2[o] = None /\ v2' = [v2 EXCEPT ![o] = new]
        /\ v3' = [v3 EXCEPT ![o][v5[a].user] = "OWNER"]
  BY DEF Members!CreateOrganization
<1>3. UNCHANGED <<v1, v4>> /\ Members!Ends(a)
  BY DEF Members!CreateOrganization
<1>4. new \in Members!OrgRows /\ new.name = v5[a].name /\ new.renamed = FALSE
  BY <1>1 DEF Members!OrgRows
<1> HIDE DEF new
<1>5. v2'[o] = new /\ (\A p \in Orgs \ {o} : v2'[p] = v2[p]) /\ v2' \in [Orgs -> Members!OrgRows \cup {None, Gone}]
  BY <1>2, <1>4 DEF Members!IInv, Members!TypeOK
<1>6. /\ v3' \in [Orgs -> [Users -> Members!Roles \cup {None}]]
      /\ v3'[o][v5[a].user] = "OWNER" /\ \A u \in Users \ {v5[a].user} : v3'[o][u] = None
      /\ \A p \in Orgs \ {o} : v3'[p] = v3[p]
  <2>1. \A u \in Users : v3[o][u] = None
    BY <1>2 DEF Members!IInv, Members!RowsAreLive, Members!Live
  <2> QED BY <1>1, <1>2, <2>1 DEF Members!IInv, Members!TypeOK, Members!Roles
<1>7. \A p \in Orgs : Members!Live(p)' <=> (p = o \/ Members!Live(p))
  BY <1>2, <1>4, <1>5 DEF Members!Live
<1>8. Members!TypeOK'
  BY <1>3, <1>5, <1>6, RequestEnds DEF Members!IInv, Members!TypeOK
<1>9. Members!OneOwner'
  <2>1. \A p \in Orgs, u \in Users : v3'[p][u] = "OWNER" => (p = o /\ u = v5[a].user) \/ (p # o /\ v3[p][u] = "OWNER")
    BY <1>6 DEF Members!Roles
  <2> QED BY <1>6, <2>1 DEF Members!IInv, Members!OneOwner
<1>14. Members!MembersAdmitted'
  <2> SUFFICES ASSUME NEW p \in Orgs, NEW u \in Users, v3'[p][u] \notin {None, "OWNER"}
               PROVE  Members!Admitted(p, u)'
    BY DEF Members!MembersAdmitted
  <2>1. p # o /\ v3'[p][u] = v3[p][u]
    BY <1>6
  <2>2. Members!Admitted(p, u)
    BY <2>1 DEF Members!IInv, Members!MembersAdmitted
  <2> QED BY <1>3, <2>1, <2>2 DEF Members!Admitted, Members!Open
<1>10. Members!RowsAreLive'
  <2>1. \A i \in Invites : Members!Open(i) => v4[i].org \in Orgs
    BY MemberTypes DEF Members!IInv, Members!InviteRows
  <2> QED BY <1>3, <1>6, <1>7, <2>1 DEF Members!IInv, Members!RowsAreLive, Members!Open
<1>11. Members!AcceptancesStand'
  BY <1>3, RequestEnds DEF Members!IInv, Members!AcceptancesStand, Members!Open
<1>12. Members!CreationsAreAlone'
  BY <1>1, <1>3, <1>4, <1>5, <1>7, RequestEnds DEF Members!IInv, Members!CreationsAreAlone
<1>13. Members!NamesDifferUnlessRenamed'
  BY <1>1, <1>4, <1>5, <1>7 DEF Members!IInv, Members!NamesDifferUnlessRenamed, Members!CreationsAreAlone
<1> QED BY <1>8, <1>9, <1>10, <1>11, <1>12, <1>13, <1>14 DEF Members!IInv

LEMMA RenameMembers ==
    ASSUME Members!IInv, NEW a \in Actors, Members!UpdateOrganization(a)
    PROVE  Members!IInv'
<1> USE NullsOK
<1>1. UNCHANGED <<v1, v3, v4>> /\ Members!Ends(a)
  BY DEF Members!UpdateOrganization
<1>2. /\ v2' \in [Orgs -> Members!OrgRows \cup {None, Gone}]
      /\ \A p \in Orgs : v2'[p] = v2[p] \/ (Members!Live(p) /\ v2'[p] \in Members!OrgRows /\ v2'[p].renamed)
  <2> DEFINE o == v5[a].org
             row == [name |-> v5[a].name, renamed |-> TRUE]
  <2>1. o \in Orgs /\ row \in Members!OrgRows
    BY MemberTypes DEF Members!IInv, Members!UpdateOrganization, Members!OrgRows
  <2>2. CASE ~ Members!Live(o)
    BY <2>2 DEF Members!UpdateOrganization, Members!IInv, Members!TypeOK
  <2>3. CASE Members!Live(o)
    <3>1. v2[o] \in Members!OrgRows /\ v2 \in [Orgs -> Members!OrgRows \cup {None, Gone}]
      BY <2>1, <2>3, MemberTypes DEF Members!IInv, Members!TypeOK
    <3>2. v2' = [v2 EXCEPT ![o].name = v5[a].name, ![o].renamed = TRUE]
      BY <2>3 DEF Members!UpdateOrganization
    <3>3. v2'[o] = row /\ \A p \in Orgs \ {o} : v2'[p] = v2[p]
      BY <2>1, <3>1, <3>2 DEF Members!OrgRows
    <3>4. v2' \in [Orgs -> Members!OrgRows \cup {None, Gone}]
      <4>1. v2' = [p \in Orgs |-> v2'[p]]
        BY <3>1, <3>2
      <4> HIDE DEF row
      <4> QED BY <2>1, <3>1, <3>3, <4>1
    <3> QED BY <2>1, <2>3, <3>3, <3>4
  <2> QED BY <2>2, <2>3
<1>3. \A p \in Orgs : Members!Live(p)' <=> Members!Live(p)
  BY <1>2 DEF Members!Live
<1>4. Members!TypeOK'
  BY <1>1, <1>2, RequestEnds DEF Members!IInv, Members!TypeOK
<1>5. Members!OneOwner' /\ Members!MembersAdmitted'
  BY <1>1 DEF Members!IInv, Members!OneOwner, Members!MembersAdmitted, Members!Admitted, Members!Open
<1>6. Members!RowsAreLive'
  <2>1. \A i \in Invites : Members!Open(i) => v4[i].org \in Orgs
    BY MemberTypes DEF Members!IInv, Members!InviteRows
  <2> QED BY <1>1, <1>3, <2>1 DEF Members!IInv, Members!RowsAreLive, Members!Open
<1>7. Members!AcceptancesStand'
  BY <1>1, RequestEnds DEF Members!IInv, Members!AcceptancesStand, Members!Open
<1>8. Members!CreationsAreAlone'
  BY <1>1, <1>2, <1>3, RequestEnds DEF Members!IInv, Members!CreationsAreAlone
<1>9. Members!NamesDifferUnlessRenamed'
  BY <1>2, <1>3 DEF Members!IInv, Members!NamesDifferUnlessRenamed
<1> QED BY <1>4, <1>5, <1>6, <1>7, <1>8, <1>9 DEF Members!IInv

LEMMA AcceptMembers ==
    ASSUME Members!IInv, NEW a \in Actors, Members!AcceptInvite(a)
    PROVE  Members!IInv'
<1> USE NullsOK
<1> DEFINE i == v5[a].invite
           o == v4[i].org
           u == v4[i].email
<1>1. /\ i \in Invites /\ Members!Open(i) /\ v4[i] \in Members!InviteRows
      /\ UNCHANGED <<v1, v2>> /\ Members!Ends(a)
      /\ v5[a].kind = "accept" /\ v5[a].wasAccepted \in BOOLEAN
  BY MemberTypes DEF Members!IInv, Members!AcceptInvite
<1>2. o \in Orgs /\ u \in Users /\ v4[i].role \in Members!Roles \ {"OWNER"} /\ Members!Live(o)
  BY <1>1 DEF Members!InviteRows, Members!IInv, Members!RowsAreLive
<1>3. v4[i].accepted \/ v4' = [v4 EXCEPT ![i] = [v4[i] EXCEPT !.accepted = TRUE]]
  BY <1>1 DEF Members!IInv, Members!AcceptancesStand, Members!AcceptInvite
<1>4. v4' = v4 \/ v4' = [v4 EXCEPT ![i] = [v4[i] EXCEPT !.accepted = TRUE]]
  BY DEF Members!AcceptInvite
<1>5. /\ v4'[i] \in Members!InviteRows /\ v4'[i].accepted
      /\ v4'[i].org = o /\ v4'[i].email = u /\ v4'[i].role = v4[i].role
      /\ v4' \in [Invites -> Members!InviteRows \cup {None, Gone}]
      /\ \A j \in Invites \ {i} : v4'[j] = v4[j]
  <2> DEFINE new == [v4[i] EXCEPT !.accepted = TRUE]
  <2>1. /\ new \in Members!InviteRows /\ new.accepted = TRUE
        /\ new.org = o /\ new.email = u /\ new.role = v4[i].role
    BY <1>1 DEF Members!InviteRows
  <2> HIDE DEF new
  <2>2. v4 \in [Invites -> Members!InviteRows \cup {None, Gone}]
    BY DEF Members!IInv, Members!TypeOK
  <2>3. CASE v4' = [v4 EXCEPT ![i] = new]
    BY <1>1, <2>1, <2>2, <2>3
  <2>4. CASE v4' = v4 /\ v4[i].accepted
    BY <1>1, <2>2, <2>4
  <2> QED BY <1>3, <1>4, <2>3, <2>4 DEF new
<1>6. /\ v3' \in [Orgs -> [Users -> Members!Roles \cup {None}]]
      /\ v3[o][u] = None => v3'[o][u] = v4[i].role
      /\ v3[o][u] # None => v3'[o][u] = v3[o][u]
      /\ \A p \in Orgs, v \in Users : <<p, v>> # <<o, u>> => v3'[p][v] = v3[p][v]
  <2>1. v3 \in [Orgs -> [Users -> Members!Roles \cup {None}]]
    BY DEF Members!IInv, Members!TypeOK
  <2>2. v3' = IF v3[o][u] = None THEN [v3 EXCEPT ![o][u] = v4[i].role] ELSE v3
    BY DEF Members!AcceptInvite, Members!Join
  <2> HIDE DEF i, o, u
  <2> QED BY <1>2, <2>1, <2>2
<1> HIDE DEF i, o, u
<1>7. Members!TypeOK'
  BY <1>1, <1>5, <1>6, RequestEnds DEF Members!IInv, Members!TypeOK
<1>8. \A j \in Invites : Members!Open(j) =>
        /\ Members!Open(j)'
        /\ v4'[j].org = v4[j].org /\ v4'[j].email = v4[j].email /\ v4'[j].role = v4[j].role
        /\ v4[j].accepted => v4'[j].accepted
  BY <1>1, <1>5 DEF Members!Open, i, o, u
<1>9. \A j \in Invites : /\ Members!Open(j)' => Members!Open(j)
                         /\ v4'[j] = None => v4[j] = None
  BY <1>1, <1>5 DEF Members!Open
<1>10. Members!OneOwner'
  BY <1>2, <1>6 DEF Members!IInv, Members!OneOwner, Members!Roles
<1>11. Members!MembersAdmitted'
  <2> SUFFICES ASSUME NEW p \in Orgs, NEW v \in Users, v3'[p][v] \notin {None, "OWNER"}
               PROVE  Members!Admitted(p, v)'
    BY DEF Members!MembersAdmitted
  <2>1. CASE v3[p][v] = v3'[p][v]
    <3>1. PICK j \in Invites : /\ Members!Open(j) /\ v4[j].accepted
                               /\ v4[j].org = p /\ v4[j].email = v
                               /\ v4[j].role = v3[p][v]
      BY <2>1 DEF Members!IInv, Members!MembersAdmitted, Members!Admitted
    <3> QED BY <1>8, <2>1, <3>1 DEF Members!Admitted
  <2>2. CASE v3[p][v] # v3'[p][v]
    <3>1. p = o /\ v = u /\ v3'[o][u] = v4[i].role
      BY <1>6, <2>2
    <3> QED BY <1>1, <1>5, <1>8, <3>1 DEF Members!Admitted
  <2> QED BY <2>1, <2>2
<1>12. Members!RowsAreLive'
  BY <1>1, <1>2, <1>6, <1>8, <1>9 DEF Members!IInv, Members!RowsAreLive, Members!Live
<1>13. Members!AcceptancesStand'
  BY <1>1, <1>8, <1>9, MemberTypes, RequestEnds DEF Members!IInv, Members!AcceptancesStand
<1>14. Members!CreationsAreAlone' /\ Members!NamesDifferUnlessRenamed'
  BY <1>1, RequestEnds DEF Members!IInv, Members!CreationsAreAlone, Members!NamesDifferUnlessRenamed, Members!Live
<1> QED BY <1>7, <1>10, <1>11, <1>12, <1>13, <1>14 DEF Members!IInv

\* An organization takes its members and invitations with it.
LEMMA DeleteMembers ==
    ASSUME Members!IInv, NEW o \in Orgs, NEW u \in Users, Members!DeleteOrganization(o, u)
    PROVE  Members!IInv'
<1>1. /\ v2' = [v2 EXCEPT ![o] = Gone] /\ v3' = [v3 EXCEPT ![o] = [v \in Users |-> None]]
      /\ v4' = [i \in Invites |-> IF Members!Open(i) /\ v4[i].org = o THEN Gone ELSE v4[i]]
      /\ UNCHANGED <<v1, v5>>
  BY DEF Members!DeleteOrganization, Members!Cascade
<1>2. /\ v2' \in [Orgs -> Members!OrgRows \cup {None, Gone}]
      /\ v2'[o] = Gone /\ \A p \in Orgs \ {o} : v2'[p] = v2[p]
  BY <1>1 DEF Members!IInv, Members!TypeOK
<1>3. /\ v3' \in [Orgs -> [Users -> Members!Roles \cup {None}]]
      /\ \A v \in Users : v3'[o][v] = None
      /\ \A p \in Orgs \ {o} : v3'[p] = v3[p]
  BY <1>1 DEF Members!IInv, Members!TypeOK
<1>4. \A i \in Invites : /\ v4'[i] \in {v4[i], Gone}
                         /\ Members!Open(i)' => Members!Open(i) /\ v4'[i] = v4[i] /\ v4[i].org # o
                         /\ Members!Open(i) /\ v4[i].org # o => v4'[i] = v4[i]
  BY <1>1 DEF Members!Open
<1>5. Members!TypeOK'
  <2>1. v4' \in [Invites -> Members!InviteRows \cup {None, Gone}]
    BY <1>1 DEF Members!IInv, Members!TypeOK
  <2> QED BY <1>1, <1>2, <1>3, <2>1 DEF Members!IInv, Members!TypeOK
<1>6. Members!OneOwner'
  BY <1>3, NullsOK DEF Members!IInv, Members!OneOwner, Members!Roles
<1>7. Members!MembersAdmitted'
  <2> SUFFICES ASSUME NEW p \in Orgs, NEW v \in Users, v3'[p][v] \notin {None, "OWNER"}
               PROVE  Members!Admitted(p, v)'
    BY DEF Members!MembersAdmitted
  <2>1. p # o /\ v3'[p][v] = v3[p][v]
    BY <1>3
  <2>2. PICK j \in Invites : /\ Members!Open(j) /\ v4[j].accepted
                             /\ v4[j].org = p /\ v4[j].email = v /\ v4[j].role = v3[p][v]
    BY <2>1 DEF Members!IInv, Members!MembersAdmitted, Members!Admitted
  <2>3. v4'[j] = v4[j]
    <3>1. Members!Open(j) /\ v4[j].org # o
      BY <2>1, <2>2
    <3> QED BY <1>4, <3>1
  <2> QED BY <2>1, <2>2, <2>3 DEF Members!Admitted, Members!Open
<1>8. Members!RowsAreLive'
  <2>1. ASSUME NEW p \in Orgs, ~ Members!Live(p)' PROVE \A v \in Users : v3'[p][v] = None
    BY <1>2, <1>3, <2>1 DEF Members!IInv, Members!RowsAreLive, Members!Live
  <2>2. ASSUME NEW i \in Invites, Members!Open(i)' PROVE Members!Live(v4[i].org)'
    <3>1. Members!Open(i) /\ v4'[i] = v4[i] /\ v4[i].org # o
      BY <1>4, <2>2
    <3>2. Members!Live(v4[i].org) /\ v4[i].org \in Orgs
      BY <3>1, MemberTypes DEF Members!IInv, Members!RowsAreLive, Members!InviteRows
    <3> QED BY <1>2, <3>1, <3>2 DEF Members!Live
  <2> QED BY <2>1, <2>2 DEF Members!RowsAreLive
<1>9. Members!AcceptancesStand'
  <2>1. \A a \in Actors : v5[a].kind = "accept" => v5[a].invite \in Invites
    BY MemberTypes DEF Members!IInv
  <2> QED BY <1>1, <1>4, <2>1, NullsOK DEF Members!IInv, Members!AcceptancesStand
<1>10. Members!CreationsAreAlone' /\ Members!NamesDifferUnlessRenamed'
  BY <1>1, <1>2 DEF Members!IInv, Members!CreationsAreAlone, Members!NamesDifferUnlessRenamed, Members!Live
<1> QED BY <1>5, <1>6, <1>7, <1>8, <1>9, <1>10 DEF Members!IInv

\* An invitation that nobody accepted goes alone.
LEMMA CancelMembers ==
    ASSUME Members!IInv, NEW i \in Invites, Members!CancelInvite(i)
    PROVE  Members!IInv'
<1>1. /\ v4' = [v4 EXCEPT ![i] = Gone] /\ UNCHANGED <<v1, v2, v3, v5>>
      /\ Members!Open(i) => ~ v4[i].accepted
  BY DEF Members!CancelInvite
<1>2. /\ v4' \in [Invites -> Members!InviteRows \cup {None, Gone}]
      /\ v4'[i] = Gone /\ \A j \in Invites \ {i} : v4'[j] = v4[j]
  BY <1>1 DEF Members!IInv, Members!TypeOK
<1>3. Members!TypeOK' /\ Members!OneOwner'
  BY <1>1, <1>2 DEF Members!IInv, Members!TypeOK, Members!OneOwner
<1>4. Members!MembersAdmitted'
  BY <1>1, <1>2 DEF Members!IInv, Members!MembersAdmitted, Members!Admitted, Members!Open
<1>5. Members!RowsAreLive'
  BY <1>1, <1>2 DEF Members!IInv, Members!RowsAreLive, Members!Live, Members!Open
<1>6. Members!AcceptancesStand'
  <2>1. \A a \in Actors : v5[a].kind = "accept" => v5[a].invite \in Invites
    BY MemberTypes DEF Members!IInv
  <2>2. /\ \A j \in Invites : Members!Open(j)' => Members!Open(j) /\ v4'[j] = v4[j]
        /\ \A j \in Invites : v4[j] # None => v4'[j] # None
    BY <1>2, NullsOK DEF Members!Open
  <2> QED BY <1>1, <2>1, <2>2 DEF Members!IInv, Members!AcceptancesStand
<1>7. Members!CreationsAreAlone' /\ Members!NamesDifferUnlessRenamed'
  BY <1>1 DEF Members!IInv, Members!CreationsAreAlone, Members!NamesDifferUnlessRenamed, Members!Live
<1> QED BY <1>3, <1>4, <1>5, <1>6, <1>7 DEF Members!IInv

LEMMA MembersStep ==
    ASSUME Members!IInv, [Members!Next]_(Members!vars)
    PROVE  Members!IInv'
<1> USE NullsOK DEF Members!IInv, Members!TypeOK, Members!OneOwner, Members!Admitted, Members!MembersAdmitted,
        Members!RowsAreLive, Members!AcceptancesStand, Members!CreationsAreAlone, Members!NamesDifferUnlessRenamed,
        Members!Live, Members!Open, Members!Roles, Members!OrgRows, Members!InviteRows, Members!Idle, Members!OpenRequests,
        Members!Begin, Members!Ends
<1>1. CASE UNCHANGED Members!vars
  BY <1>1 DEF Members!vars
<1>2. ASSUME NEW u \in Users, Members!Register(u) PROVE Members!IInv'
  BY <1>2 DEF Members!Register
<1>3. ASSUME NEW o \in Orgs, NEW u \in Users, Members!DeleteOrganization(o, u) PROVE Members!IInv'
  BY <1>3, DeleteMembers
<1>4. ASSUME NEW i \in Invites, Members!Expire(i) PROVE Members!IInv'
  BY <1>4, ExpireMembers
<1>5. ASSUME NEW i \in Invites, Members!CancelInvite(i) PROVE Members!IInv'
  BY <1>5, CancelMembers
<1>6. ASSUME NEW a \in Actors, Members!CreateOrganization(a) PROVE Members!IInv'
  BY <1>6, CreateMembers
<1>7. ASSUME NEW a \in Actors, Members!UpdateOrganization(a) PROVE Members!IInv'
  BY <1>7, RenameMembers
<1>8. ASSUME NEW a \in Actors, Members!InviteUser(a) PROVE Members!IInv'
  BY <1>8 DEF Members!InviteUser
<1>9. ASSUME NEW a \in Actors, Members!AcceptInvite(a) PROVE Members!IInv'
  BY <1>9, AcceptMembers
<1>10. ASSUME NEW a \in Actors, Members!RequestFails(a) PROVE Members!IInv'
  BY <1>10 DEF Members!RequestFails
<1>11. ASSUME NEW a \in Actors, NEW u \in Users, NEW n \in Names, Members!BeginCreate(a, u, n) PROVE Members!IInv'
  BY <1>11 DEF Members!BeginCreate, Members!NameLocked, Members!Taken
<1>12. ASSUME NEW a \in Actors, NEW o \in Orgs, NEW n \in Names, Members!BeginRename(a, o, n) PROVE Members!IInv'
  BY <1>12 DEF Members!BeginRename
<1>13. ASSUME NEW a \in Actors, NEW o \in Orgs, NEW u \in Users, NEW r \in Members!Roles \ {"OWNER"},
              Members!BeginInvite(a, o, u, r) PROVE Members!IInv'
  BY <1>13 DEF Members!BeginInvite
<1>14. ASSUME NEW a \in Actors, NEW i \in Invites, Members!BeginAccept(a, i) PROVE Members!IInv'
  BY <1>14 DEF Members!BeginAccept
<1> QED
  BY <1>1, <1>2, <1>3, <1>4, <1>5, <1>6, <1>7, <1>8, <1>9, <1>10, <1>11, <1>12, <1>13, <1>14 DEF Members!Next

LEMMA AtMostOne == \A o \in Orgs : Members!OneOwner => Members!Cardinality({u \in Users : v3[o][u] = "OWNER"}) <= 1
<1> SUFFICES ASSUME NEW o \in Orgs, Members!OneOwner
    PROVE Members!Cardinality({u \in Users : v3[o][u] = "OWNER"}) <= 1
  OBVIOUS
<1>1. \/ {u \in Users : v3[o][u] = "OWNER"} = {}
      \/ \E v \in Users : {u \in Users : v3[o][u] = "OWNER"} = {v}
  BY DEF Members!OneOwner
<1>2. Cardinality({u \in Users : v3[o][u] = "OWNER"}) <= 1
  <2>1. CASE {u \in Users : v3[o][u] = "OWNER"} = {}
    BY <2>1, FS_EmptySet
  <2>2. ASSUME NEW v \in Users, {u \in Users : v3[o][u] = "OWNER"} = {v}
        PROVE  Cardinality({u \in Users : v3[o][u] = "OWNER"}) <= 1
    <3>1. Cardinality({v}) = 1
      BY FS_Singleton
    <3> QED BY <2>2, <3>1
  <2> QED BY <1>1, <2>1, <2>2
<1> QED BY <1>2 DEF Cardinality, Members!Cardinality

LEMMA MembersInvariant == FrontSpec => [](focus = "members" => Members!IInv)
<1> DEFINE Inv == focus = "members" => Members!IInv
<1>1. FrontInit => Inv
  <2> SUFFICES ASSUME Members!Init PROVE Members!IInv
    BY DEF FrontInit
  <2>1. Members!TypeOK
    BY DEF Members!Init, Members!TypeOK
  <2> QED
    BY <2>1, NullsOK DEF Members!Init, Members!IInv, Members!OneOwner, Members!MembersAdmitted,
          Members!RowsAreLive, Members!AcceptancesStand, Members!CreationsAreAlone, Members!Roles,
          Members!NamesDifferUnlessRenamed, Members!Live, Members!Open, Members!Idle
<1>2. Inv /\ [FrontNext]_frontVars => Inv'
  <2> SUFFICES ASSUME Inv, [FrontNext]_frontVars, focus' = "members" PROVE Members!IInv'
    OBVIOUS
  <2>1. focus = "members" /\ [Members!Next]_(Members!vars)
    BY DEF FrontNext, frontVars, Members!vars, five, two
  <2> QED BY <2>1, MembersStep
<1> QED BY <1>1, <1>2, PTL DEF FrontSpec

\* actions/organization/acceptInvite.ts:56: whoever is a member and did not create
\* the organization holds an accepted invitation, for the role that they have.
THEOREM MembersHoldInvitations == FrontSpec => []MembersWereInvited
<1>1. (focus = "members" => Members!IInv) => MembersWereInvited
  BY AtMostOne DEF MembersWereInvited, Members!MembersWereInvited, Members!IInv, Members!MembersAdmitted, Members!Admitted
<1> QED BY <1>1, MembersInvariant, PTL

-----------------------------------------------------------------------------
(* Console: v1 form, v2 dialog, v3 request, v4 rows, v5 revealed, v6 lost,  *)
(* v7 overlapped.                                                           *)

LEMMA FormFacts ==
    \A f \in Dashboard!Forms :
        /\ "duplicate" \in Dashboard!Form[f].shows => f = "invite"
        /\ Dashboard!Form[f].looksFor \subseteq {TRUE, FALSE}
        /\ FALSE \in Dashboard!Form[f].looksFor => TRUE \in Dashboard!Form[f].looksFor
        /\ Dashboard!Form[f].auditFails => "created" \notin Dashboard!Form[f].shows
<1>1. Dashboard!Forms = {"invite", "apiKey", "endpoint", "metric", "plan", "planMetric"}
  BY DEF Dashboard!Forms, Dashboard!Form
<1> SUFFICES ASSUME NEW f \in Dashboard!Forms
    PROVE  /\ "duplicate" \in Dashboard!Form[f].shows => f = "invite"
           /\ Dashboard!Form[f].looksFor \subseteq {TRUE, FALSE}
           /\ FALSE \in Dashboard!Form[f].looksFor => TRUE \in Dashboard!Form[f].looksFor
           /\ Dashboard!Form[f].auditFails => "created" \notin Dashboard!Form[f].shows
  OBVIOUS
<1> USE DEF Dashboard!Form, Dashboard!InviteForm, Dashboard!ApiKeyForm, Dashboard!EndpointForm,
       Dashboard!MetricForm, Dashboard!PlanForm, Dashboard!AttachForm, Dashboard!InviteDialog,
       Dashboard!ApiKeyDialog, Dashboard!EndpointDialog, Dashboard!MetricDialog, Dashboard!PlanDialog,
       Dashboard!AttachDialog
<1>2. CASE f = "invite"
  BY <1>2
<1>3. CASE f = "apiKey"
  BY <1>3
<1>4. CASE f = "endpoint"
  BY <1>4
<1>5. CASE f = "metric"
  BY <1>5
<1>6. CASE f = "plan"
  BY <1>6
<1>7. CASE f = "planMetric"
  BY <1>7
<1> QED BY <1>1, <1>2, <1>3, <1>4, <1>5, <1>6, <1>7

LEMMA DashboardTypes ==
    ASSUME Dashboard!TypeOK
    PROVE  /\ v1 \in [Tabs -> Dashboard!Forms]
           /\ v4 \in Seq(Dashboard!Row) /\ Len(v4) \in 0..MaxRows
           /\ \A i \in 1..Len(v4) : v4[i] \in Dashboard!Row
           /\ \A t \in Tabs : /\ v2[t].open \in BOOLEAN /\ v2[t].shown \in 0..MaxRows
                              /\ v3[t] = Dashboard!Idle \/ v3[t] \in [at : {"look", "insert", "answer"},
                                    name : Names, row : 0..MaxRows, existed : BOOLEAN, mounted : BOOLEAN]
BY RowsOK DEF Dashboard!TypeOK

\* What a tab holds, what its action is at, and the name it is for, in an answer.
LEMMA ReplyHolds ==
    ASSUME Dashboard!TypeOK, NEW t \in Tabs, v3[t].at \in {"look", "insert"},
           NEW r \in 0..MaxRows, NEW e \in BOOLEAN, Dashboard!Reply(t, r, e)
    PROVE  /\ v3' \in [Tabs -> {Dashboard!Idle} \cup [at : {"look", "insert", "answer"}, name : Names,
                                  row : 0..MaxRows, existed : BOOLEAN, mounted : BOOLEAN]]
           /\ v3'[t].at = "answer" /\ v3'[t].row = r /\ v3'[t].name = v3[t].name
           /\ v3'[t].mounted = v3[t].mounted /\ v3'[t] # Dashboard!Idle
           /\ v3[t] # Dashboard!Idle
           /\ \A u \in Tabs \ {t} : v3'[u] = v3[u]
<1> DEFINE rec == [at : {"look", "insert", "answer"}, name : Names, row : 0..MaxRows,
                   existed : BOOLEAN, mounted : BOOLEAN]
           new == [[[v3[t] EXCEPT !.at = "answer"] EXCEPT !.row = r] EXCEPT !.existed = e]
<1>1. v3[t] \in rec /\ v3[t] # Dashboard!Idle
  BY DashboardTypes DEF Dashboard!Idle
<1>2. new \in rec /\ new.at = "answer" /\ new.row = r /\ new.name = v3[t].name /\ new.mounted = v3[t].mounted
  BY <1>1
<1>3. new # Dashboard!Idle
  BY <1>2 DEF Dashboard!Idle
<1>4. v3 \in [Tabs -> {Dashboard!Idle} \cup rec]
  BY DEF Dashboard!TypeOK
<1>5. v3' = [v3 EXCEPT ![t] = new]
  BY <1>1, <1>4 DEF Dashboard!Reply
<1> HIDE DEF new, rec
<1>6. v3' \in [Tabs -> {Dashboard!Idle} \cup rec] /\ v3'[t] = new /\ \A u \in Tabs \ {t} : v3'[u] = v3[u]
  BY <1>2, <1>4, <1>5
<1> QED BY <1>1, <1>2, <1>3, <1>6 DEF rec

\* An answer is taken, or lost.
LEMMA AnswerGone ==
    ASSUME Dashboard!TypeOK, NEW t \in Tabs, v3' = [v3 EXCEPT ![t] = Dashboard!Idle]
    PROVE  /\ v3' \in [Tabs -> {Dashboard!Idle} \cup [at : {"look", "insert", "answer"}, name : Names,
                                  row : 0..MaxRows, existed : BOOLEAN, mounted : BOOLEAN]]
           /\ v3'[t] = Dashboard!Idle /\ v3'[t].at = "idle"
           /\ \A u \in Tabs \ {t} : v3'[u] = v3[u]
BY DEF Dashboard!TypeOK, Dashboard!Idle

\* A repeated name that was noted stays noted.
LEMMA NamesStayNoted ==
    ASSUME Dashboard!NamesRepeatOnlyByOverlap, UNCHANGED v4, v7 \subseteq v7'
    PROVE  Dashboard!NamesRepeatOnlyByOverlap'
BY DEF Dashboard!NamesRepeatOnlyByOverlap, Dashboard!Same

\* No new action is about to insert, and nothing was inserted.
LEMMA NothingInserted ==
    ASSUME Dashboard!IInv, UNCHANGED <<v1, v4>>, v7 \subseteq v7',
           \A u \in Tabs : v3'[u].at = "insert" => v3[u].at = "insert" /\ v3'[u].name = v3[u].name
    PROVE  Dashboard!InsertionsAreNoted' /\ Dashboard!NamesRepeatOnlyByOverlap'
<1>1. Dashboard!InsertionsAreNoted'
  <2> SUFFICES ASSUME NEW t \in Tabs, v3'[t].at = "insert", <<v1[t], v3'[t].name>> \notin v7'
               PROVE  /\ Dashboard!Same(v1[t], v3[t].name, Dashboard!Form[v1[t]].looksFor)' = {}
                      /\ \A u \in Tabs \ {t} :
                           ~ (v3'[u].at = "insert" /\ v1[u] = v1[t] /\ v3'[u].name = v3'[t].name)
    BY DEF Dashboard!InsertionsAreNoted
  <2>1. v3[t].at = "insert" /\ v3'[t].name = v3[t].name /\ <<v1[t], v3[t].name>> \notin v7
    OBVIOUS
  <2>2. /\ Dashboard!Same(v1[t], v3[t].name, Dashboard!Form[v1[t]].looksFor) = {}
        /\ \A u \in Tabs \ {t} : ~ (v3[u].at = "insert" /\ v1[u] = v1[t] /\ v3[u].name = v3[t].name)
    BY <2>1 DEF Dashboard!IInv, Dashboard!InsertionsAreNoted
  <2> QED BY <2>1, <2>2 DEF Dashboard!Same
<1>2. Dashboard!NamesRepeatOnlyByOverlap'
  BY NamesStayNoted DEF Dashboard!IInv
<1> QED BY <1>1, <1>2

LEMMA OpenStep ==
    ASSUME Dashboard!IInv, NEW t \in Tabs, Dashboard!OpenDialog(t)
    PROVE  Dashboard!IInv'
<1>1. /\ v2' \in [Tabs -> [open : BOOLEAN, shown : 0..MaxRows]]
      /\ \A u \in Tabs : v2'[u].shown = v2[u].shown /\ v2'[u].open = (u = t \/ v2[u].open)
      /\ UNCHANGED <<v1, v3, v4, v5, v6, v7>>
  BY DEF Dashboard!OpenDialog, Dashboard!IInv, Dashboard!TypeOK
<1>2. Dashboard!TypeOK' /\ Dashboard!RowsAreAccounted'
  BY <1>1 DEF Dashboard!IInv, Dashboard!TypeOK, Dashboard!RowsAreAccounted
<1>3. Dashboard!HeldRowsExist' /\ Dashboard!HeldByOne'
  <2>1. \A u \in Tabs, i \in 1..MaxRows : Dashboard!Holds(u, i)' <=> Dashboard!Holds(u, i)
    BY <1>1 DEF Dashboard!Holds
  <2> QED BY <1>1, <2>1 DEF Dashboard!IInv, Dashboard!HeldRowsExist, Dashboard!HeldByOne
<1>4. Dashboard!DialogsAreOpen'
  BY <1>1 DEF Dashboard!IInv, Dashboard!DialogsAreOpen, Dashboard!Open, Dashboard!Loading, Dashboard!NoRow
<1>5. Dashboard!InsertionsAreNoted' /\ Dashboard!NamesRepeatOnlyByOverlap'
  BY <1>1, NothingInserted
<1> QED BY <1>2, <1>3, <1>4, <1>5 DEF Dashboard!IInv

LEMMA CloseStep ==
    ASSUME Dashboard!IInv, NEW t \in Tabs, Dashboard!CloseDialog(t)
    PROVE  Dashboard!IInv'
<1>1. /\ v2' \in [Tabs -> [open : BOOLEAN, shown : 0..MaxRows]]
      /\ v2'[t].shown = 0 /\ v3[t] = Dashboard!Idle
      /\ \A u \in Tabs \ {t} : v2'[u] = v2[u]
      /\ UNCHANGED <<v1, v3, v4, v5, v6, v7>>
  BY RowsOK DEF Dashboard!CloseDialog, Dashboard!MayClose, Dashboard!IInv, Dashboard!TypeOK, Dashboard!Closed, Dashboard!NoRow,
        Dashboard!Loading
<1>2. Dashboard!TypeOK' /\ Dashboard!RowsAreAccounted'
  BY <1>1 DEF Dashboard!IInv, Dashboard!TypeOK, Dashboard!RowsAreAccounted
<1>3. Dashboard!HeldRowsExist' /\ Dashboard!HeldByOne'
  BY <1>1 DEF Dashboard!IInv, Dashboard!HeldRowsExist, Dashboard!HeldByOne, Dashboard!Holds
<1>4. Dashboard!DialogsAreOpen'
  BY <1>1 DEF Dashboard!IInv, Dashboard!DialogsAreOpen, Dashboard!Open, Dashboard!Loading, Dashboard!NoRow
<1>5. Dashboard!InsertionsAreNoted' /\ Dashboard!NamesRepeatOnlyByOverlap'
  BY <1>1, NothingInserted
<1> QED BY <1>2, <1>3, <1>4, <1>5 DEF Dashboard!IInv

LEMMA SubmitStep ==
    ASSUME Dashboard!IInv, NEW t \in Tabs, NEW n \in Names, Dashboard!Submit(t, n)
    PROVE  Dashboard!IInv'
<1> DEFINE new == [at |-> "look", name |-> n, row |-> 0, existed |-> FALSE, mounted |-> TRUE]
<1>1. /\ v3' = [v3 EXCEPT ![t] = new] /\ Dashboard!Open(t) /\ v3[t] = Dashboard!Idle
      /\ UNCHANGED <<v1, v2, v4, v5, v6, v7>>
  BY DEF Dashboard!Submit, Dashboard!NoRow, Dashboard!Loading
<1>2. /\ v3' \in [Tabs -> {Dashboard!Idle} \cup [at : {"look", "insert", "answer"}, name : Names,
                             row : 0..MaxRows, existed : BOOLEAN, mounted : BOOLEAN]]
      /\ v3'[t].at = "look" /\ \A u \in Tabs \ {t} : v3'[u] = v3[u]
  BY <1>1, RowsOK DEF Dashboard!IInv, Dashboard!TypeOK
<1>3. v3[t].at = "idle"
  BY <1>1 DEF Dashboard!Idle
<1> QED
  BY <1>1, <1>2, <1>3 DEF Dashboard!IInv, Dashboard!TypeOK, Dashboard!RowsAreAccounted, Dashboard!HeldRowsExist, Dashboard!Holds,
        Dashboard!HeldByOne, Dashboard!DialogsAreOpen, Dashboard!Open, Dashboard!Loading, Dashboard!InsertionsAreNoted,
        Dashboard!NamesRepeatOnlyByOverlap, Dashboard!Same, Dashboard!NoRow

LEMMA LeaveStep ==
    ASSUME Dashboard!IInv, NEW t \in Tabs, Dashboard!Leave(t)
    PROVE  Dashboard!IInv'
<1>1. /\ v2' \in [Tabs -> [open : BOOLEAN, shown : 0..MaxRows]]
      /\ v2'[t].shown = 0 /\ \A u \in Tabs \ {t} : v2'[u] = v2[u]
      /\ UNCHANGED <<v1, v4, v5, v6, v7>>
  BY RowsOK DEF Dashboard!Leave, Dashboard!IInv, Dashboard!TypeOK, Dashboard!Closed, Dashboard!NoRow
<1>2. /\ v3' \in [Tabs -> {Dashboard!Idle} \cup [at : {"look", "insert", "answer"}, name : Names,
                             row : 0..MaxRows, existed : BOOLEAN, mounted : BOOLEAN]]
      /\ v3'[t] = Dashboard!Idle \/ v3'[t].mounted = FALSE
      /\ \A u \in Tabs \ {t} : v3'[u] = v3[u]
      /\ v3'[t].at = v3[t].at /\ v3'[t].row = v3[t].row /\ v3'[t].name = v3[t].name
  BY DashboardTypes DEF Dashboard!Leave, Dashboard!IInv, Dashboard!TypeOK, Dashboard!Loading
<1>3. Dashboard!TypeOK'
  BY <1>1, <1>2 DEF Dashboard!IInv, Dashboard!TypeOK
<1>4. Dashboard!DialogsAreOpen'
  BY <1>1, <1>2 DEF Dashboard!IInv, Dashboard!DialogsAreOpen, Dashboard!Open, Dashboard!Loading, Dashboard!NoRow
<1>5. Dashboard!InsertionsAreNoted' /\ Dashboard!NamesRepeatOnlyByOverlap'
  BY <1>1, <1>2, NothingInserted
<1>6. Dashboard!RowsAreAccounted'
  BY <1>1, <1>2 DEF Dashboard!IInv, Dashboard!RowsAreAccounted
<1>7. \A u \in Tabs, i \in 1..MaxRows : Dashboard!Holds(u, i)' => Dashboard!Holds(u, i)
  BY <1>1, <1>2 DEF Dashboard!Holds
<1>8. Dashboard!HeldRowsExist' /\ Dashboard!HeldByOne'
  BY <1>1, <1>7 DEF Dashboard!IInv, Dashboard!HeldRowsExist, Dashboard!HeldByOne
<1> QED BY <1>3, <1>4, <1>5, <1>6, <1>8 DEF Dashboard!IInv

LEMMA LookStep ==
    ASSUME Dashboard!IInv, NEW t \in Tabs, Dashboard!LookForDuplicate(t)
    PROVE  Dashboard!IInv'
<1> DEFINE f == v1[t]
           n == v3[t].name
           found == Dashboard!Same(f, n, Dashboard!Form[f].looksFor)
<1>1. /\ UNCHANGED <<v1, v2, v4, v5, v6>> /\ v3[t].at = "look" /\ v3[t] # Dashboard!Idle
      /\ f \in Dashboard!Forms /\ n \in Names
  BY DashboardTypes DEF Dashboard!IInv, Dashboard!LookForDuplicate, Dashboard!Idle
<1>2. /\ v7' \in SUBSET (Dashboard!Forms \X Names) /\ v7 \subseteq v7'
      /\ (\E u \in Tabs \ {t} : v1[u] = f /\ v3[u].at = "insert" /\ v3[u].name = n) => <<f, n>> \in v7'
  BY <1>1 DEF Dashboard!IInv, Dashboard!TypeOK, Dashboard!LookForDuplicate
<1>3. CASE found = {}
  <2>1. /\ v3' \in [Tabs -> {Dashboard!Idle} \cup [at : {"look", "insert", "answer"}, name : Names,
                             row : 0..MaxRows, existed : BOOLEAN, mounted : BOOLEAN]]
        /\ v3'[t].at = "insert" /\ v3'[t].name = n /\ v3'[t].mounted = v3[t].mounted
        /\ \A u \in Tabs \ {t} : v3'[u] = v3[u]
    <3> DEFINE rec == [at : {"look", "insert", "answer"}, name : Names, row : 0..MaxRows,
                       existed : BOOLEAN, mounted : BOOLEAN]
               new == [v3[t] EXCEPT !.at = "insert"]
    <3>1. v3[t] \in rec
      BY <1>1, DashboardTypes DEF Dashboard!IInv
    <3>2. new \in rec /\ new.at = "insert" /\ new.name = n /\ new.mounted = v3[t].mounted
      BY <3>1
    <3>3. v3 \in [Tabs -> {Dashboard!Idle} \cup rec]
      BY DEF Dashboard!IInv, Dashboard!TypeOK
    <3>4. v3' = [v3 EXCEPT ![t] = new]
      BY <1>3, <3>1, <3>3 DEF Dashboard!LookForDuplicate
    <3> HIDE DEF new, rec
    <3>5. v3' \in [Tabs -> {Dashboard!Idle} \cup rec] /\ v3'[t] = new /\ \A u \in Tabs \ {t} : v3'[u] = v3[u]
      BY <3>2, <3>3, <3>4
    <3> QED BY <3>2, <3>5 DEF rec
  <2>2. Dashboard!TypeOK'
    BY <1>1, <1>2, <2>1 DEF Dashboard!IInv, Dashboard!TypeOK
  <2>3. Dashboard!DialogsAreOpen'
    BY <1>1, <2>1 DEF Dashboard!IInv, Dashboard!DialogsAreOpen, Dashboard!Open, Dashboard!Loading, Dashboard!NoRow
  <2>4. Dashboard!NamesRepeatOnlyByOverlap'
    <3>1. UNCHANGED v4 /\ v7 \subseteq v7'
      BY <1>1, <1>2
    <3>2. Dashboard!NamesRepeatOnlyByOverlap
      BY DEF Dashboard!IInv
    <3> QED BY <3>1, <3>2, NamesStayNoted
  <2>5. Dashboard!InsertionsAreNoted'
    <3> SUFFICES ASSUME NEW u \in Tabs, v3'[u].at = "insert", <<v1[u], v3'[u].name>> \notin v7'
                 PROVE  /\ Dashboard!Same(v1[u], v3[u].name, Dashboard!Form[v1[u]].looksFor)' = {}
                        /\ \A v \in Tabs \ {u} :
                             ~ (v3'[v].at = "insert" /\ v1[v] = v1[u] /\ v3'[v].name = v3'[u].name)
      BY <1>1 DEF Dashboard!InsertionsAreNoted
    <3>1. CASE u = t
      BY <1>1, <1>2, <1>3, <2>1, <3>1 DEF Dashboard!Same
    <3>2. CASE u # t
      <4>1. v3'[u] = v3[u] /\ <<v1[u], v3[u].name>> \notin v7
        BY <1>2, <2>1, <3>2
      <4>2. /\ Dashboard!Same(v1[u], v3[u].name, Dashboard!Form[v1[u]].looksFor) = {}
            /\ \A v \in Tabs \ {u} : ~ (v3[v].at = "insert" /\ v1[v] = v1[u] /\ v3[v].name = v3[u].name)
        BY <4>1 DEF Dashboard!IInv, Dashboard!InsertionsAreNoted
      <4>3. ~ (v1[u] = f /\ v3[u].name = n)
        BY <1>2, <3>2, <4>1
      <4> QED BY <1>1, <2>1, <4>1, <4>2, <4>3 DEF Dashboard!Same
    <3> QED BY <3>1, <3>2
  <2> QED
    BY <1>1, <2>1, <2>2, <2>3, <2>4, <2>5 DEF Dashboard!IInv, Dashboard!RowsAreAccounted, Dashboard!HeldRowsExist,
          Dashboard!Holds, Dashboard!HeldByOne
<1>4. CASE found # {}
  <2>1. PICK i \in found : Dashboard!Reply(t, IF "duplicate" \in Dashboard!Form[f].shows THEN i ELSE 0, TRUE)
    BY <1>4 DEF Dashboard!LookForDuplicate, Dashboard!NoRow
  <2> DEFINE r == IF "duplicate" \in Dashboard!Form[f].shows THEN i ELSE 0
  <2>2. /\ i \in 1..Len(v4) /\ v4[i].form = f /\ r \in 0..MaxRows /\ r \in {0, i}
        /\ r # 0 => f = "invite"
    <3>1. i \in 1..Len(v4) /\ v4[i].form = f
      BY DEF Dashboard!Same
    <3>2. Len(v4) \in 0..MaxRows
      BY DashboardTypes DEF Dashboard!IInv
    <3>3. "duplicate" \in Dashboard!Form[f].shows => f = "invite"
      BY <1>1, FormFacts
    <3> HIDE DEF f
    <3> QED BY <3>1, <3>2, <3>3, RowsOK
  <2>3. Dashboard!Reply(t, r, TRUE)
    BY <2>1
  <2> HIDE DEF r, found
  <2>4. /\ v3' \in [Tabs -> {Dashboard!Idle} \cup [at : {"look", "insert", "answer"}, name : Names,
                             row : 0..MaxRows, existed : BOOLEAN, mounted : BOOLEAN]]
        /\ v3'[t].at = "answer" /\ v3'[t].row = r /\ v3'[t].name = n /\ v3'[t].mounted = v3[t].mounted
        /\ \A u \in Tabs \ {t} : v3'[u] = v3[u]
    BY <1>1, <2>2, <2>3, ReplyHolds DEF Dashboard!IInv
  <2>5. Dashboard!TypeOK'
    BY <1>1, <1>2, <2>4 DEF Dashboard!IInv, Dashboard!TypeOK
  <2>6. Dashboard!DialogsAreOpen'
    BY <1>1, <2>4 DEF Dashboard!IInv, Dashboard!DialogsAreOpen, Dashboard!Open, Dashboard!Loading, Dashboard!NoRow
  <2>7. Dashboard!NamesRepeatOnlyByOverlap'
    BY <1>1, <1>2 DEF Dashboard!IInv, Dashboard!NamesRepeatOnlyByOverlap, Dashboard!Same
  <2>8. Dashboard!InsertionsAreNoted'
    BY <1>1, <1>2, <2>4, NothingInserted
  <2>9. Dashboard!RowsAreAccounted'
    BY <1>1, <2>4 DEF Dashboard!IInv, Dashboard!RowsAreAccounted
  <2>10. \A u \in Tabs, j \in 1..MaxRows : Dashboard!Holds(u, j)' => Dashboard!Holds(u, j) \/ (u = t /\ j = i /\ f = "invite")
    BY <1>1, <2>2, <2>4 DEF Dashboard!Holds
  <2>11. Dashboard!HeldRowsExist'
    BY <1>1, <2>2, <2>10, DashboardTypes DEF Dashboard!IInv, Dashboard!HeldRowsExist
  <2>12. Dashboard!HeldByOne'
    BY <1>1, <2>2, <2>10 DEF Dashboard!IInv, Dashboard!HeldRowsExist, Dashboard!HeldByOne
  <2> QED BY <2>5, <2>6, <2>7, <2>8, <2>9, <2>11, <2>12 DEF Dashboard!IInv
<1> QED BY <1>3, <1>4

LEMMA InsertStep ==
    ASSUME Dashboard!IInv, NEW t \in Tabs, Dashboard!Insert(t)
    PROVE  Dashboard!IInv'
<1> DEFINE f == v1[t]
           n == v3[t].name
           k == Len(v4) + 1
<1>1. /\ UNCHANGED <<v1, v2, v5, v6, v7>> /\ v3[t].at = "insert" /\ v3[t] # Dashboard!Idle
      /\ f \in Dashboard!Forms /\ n \in Names /\ Len(v4) \in 0..MaxRows /\ k \in 1..MaxRows
  BY DashboardTypes, RowsOK DEF Dashboard!IInv, Dashboard!Insert, Dashboard!Idle
<1>2. CASE Dashboard!Refused(t)
  <2>1. Dashboard!Reply(t, 0, FALSE) /\ UNCHANGED v4
    BY <1>2 DEF Dashboard!Insert, Dashboard!NoRow
  <2>2. /\ v3' \in [Tabs -> {Dashboard!Idle} \cup [at : {"look", "insert", "answer"}, name : Names,
                             row : 0..MaxRows, existed : BOOLEAN, mounted : BOOLEAN]]
        /\ v3'[t].at = "answer" /\ v3'[t].row = 0 /\ v3'[t].mounted = v3[t].mounted
        /\ \A u \in Tabs \ {t} : v3'[u] = v3[u]
    <3>1. 0 \in 0..MaxRows /\ FALSE \in BOOLEAN /\ v3[t].at \in {"look", "insert"} /\ Dashboard!TypeOK
      BY <1>1, RowsOK DEF Dashboard!IInv
    <3> QED BY <2>1, <3>1, ReplyHolds
  <2>3. Dashboard!TypeOK'
    BY <1>1, <2>1, <2>2 DEF Dashboard!IInv, Dashboard!TypeOK
  <2>4. Dashboard!DialogsAreOpen'
    BY <1>1, <2>2 DEF Dashboard!IInv, Dashboard!DialogsAreOpen, Dashboard!Open, Dashboard!Loading, Dashboard!NoRow
  <2>5. Dashboard!InsertionsAreNoted' /\ Dashboard!NamesRepeatOnlyByOverlap'
    BY <1>1, <2>1, <2>2, NothingInserted
  <2> QED
    BY <1>1, <2>1, <2>2, <2>3, <2>4, <2>5 DEF Dashboard!IInv, Dashboard!RowsAreAccounted, Dashboard!HeldRowsExist,
          Dashboard!Holds, Dashboard!HeldByOne
<1>3. CASE ~ Dashboard!Refused(t)
  <2> DEFINE new == [form |-> f, name |-> n, active |-> TRUE]
  <2>1. /\ v4' = Append(v4, new)
        /\ \/ Dashboard!Reply(t, Len(v4'), FALSE)
           \/ Dashboard!Form[f].auditFails /\ Dashboard!Reply(t, 0, FALSE)
    BY <1>3 DEF Dashboard!Insert, Dashboard!NoRow
  <2>2. new \in Dashboard!Row /\ new.form = f /\ new.name = n /\ new.active = TRUE
    BY <1>1 DEF Dashboard!Row
  <2> HIDE DEF new
  <2>3. /\ v4' \in Seq(Dashboard!Row) /\ Len(v4') = k /\ v4'[k] = new
        /\ \A i \in 1..Len(v4) : v4'[i] = v4[i]
    BY <2>1, <2>2, DashboardTypes DEF Dashboard!IInv
  <2>4. PICK r \in {0, k} : /\ Dashboard!Reply(t, r, FALSE)
                            /\ r = 0 => "created" \notin Dashboard!Form[f].shows
    <3>1. Dashboard!Form[f].auditFails => "created" \notin Dashboard!Form[f].shows
      BY <1>1, FormFacts
    <3>2. CASE Dashboard!Reply(t, Len(v4'), FALSE)
      <4>1. k # 0
        BY <1>1
      <4>2. Len(v4') = k
        BY <2>3
      <4> HIDE DEF k
      <4>3. Dashboard!Reply(t, k, FALSE)
        BY <3>2, <4>2, Zenon
      <4> QED BY <4>1, <4>3
    <3>3. CASE Dashboard!Form[f].auditFails /\ Dashboard!Reply(t, 0, FALSE)
      BY <3>1, <3>3
    <3> QED BY <2>1, <3>2, <3>3
  <2> HIDE DEF k
  <2>5. /\ v3' \in [Tabs -> {Dashboard!Idle} \cup [at : {"look", "insert", "answer"}, name : Names,
                             row : 0..MaxRows, existed : BOOLEAN, mounted : BOOLEAN]]
        /\ v3'[t].at = "answer" /\ v3'[t].row = r /\ v3'[t].mounted = v3[t].mounted
        /\ \A u \in Tabs \ {t} : v3'[u] = v3[u]
    <3>1. r \in 0..MaxRows
      BY <1>1, RowsOK
    <3> QED BY <1>1, <2>4, <3>1, ReplyHolds DEF Dashboard!IInv
  <2>6. Dashboard!TypeOK'
    BY <1>1, <2>3, <2>5 DEF Dashboard!IInv, Dashboard!TypeOK
  <2>7. Dashboard!DialogsAreOpen'
    BY <1>1, <2>5 DEF Dashboard!IInv, Dashboard!DialogsAreOpen, Dashboard!Open, Dashboard!Loading, Dashboard!NoRow
  <2>8. Dashboard!RowsAreAccounted'
    <3> SUFFICES ASSUME NEW i \in 1..k, "created" \in Dashboard!Form[v4'[i].form].shows
                 PROVE  i \in (v5 \cup v6)' \/ \E u \in Tabs : v3'[u].at = "answer" /\ v3'[u].row = i
      BY <2>3 DEF Dashboard!RowsAreAccounted
    <3>1. CASE i = k
      <4>1. "created" \in Dashboard!Form[f].shows
        BY <2>2, <2>3, <3>1
      <4> QED BY <2>4, <2>5, <3>1, <4>1
    <3>2. CASE i # k
      <4>1. i \in 1..Len(v4)
        BY <1>1, <3>2 DEF k
      <4>2. "created" \in Dashboard!Form[v4[i].form].shows
        BY <2>3, <4>1
      <4> QED BY <1>1, <2>5, <4>1, <4>2 DEF Dashboard!IInv, Dashboard!RowsAreAccounted
    <3> QED BY <3>1, <3>2
  <2>9. \A u \in Tabs, j \in 1..MaxRows : Dashboard!Holds(u, j)' => (Dashboard!Holds(u, j) \/ (u = t /\ j = k))
    BY <1>1, <2>5 DEF Dashboard!Holds
  <2>10. \A u \in Tabs : ~ Dashboard!Holds(u, k)
    BY <1>1 DEF Dashboard!IInv, Dashboard!HeldRowsExist, k
  <2>11. Dashboard!HeldRowsExist'
    <3> SUFFICES ASSUME NEW u \in Tabs, NEW j \in 1..MaxRows, Dashboard!Holds(u, j)'
                 PROVE  j <= Len(v4') /\ v4'[j].form = v1[u]
      BY <1>1 DEF Dashboard!HeldRowsExist
    <3>1. CASE u = t /\ j = k
      BY <1>1, <2>2, <2>3, <3>1 DEF f
    <3>2. CASE Dashboard!Holds(u, j)
      <4>1. j \in 1..Len(v4) /\ v4[j].form = v1[u]
        BY <1>1, <3>2 DEF Dashboard!IInv, Dashboard!HeldRowsExist
      <4> QED BY <1>1, <2>3, <4>1 DEF k
    <3> QED BY <2>9, <3>1, <3>2
  <2>12. Dashboard!HeldByOne'
    BY <1>1, <2>9, <2>10 DEF Dashboard!IInv, Dashboard!HeldByOne
  <2>13. \A g \in Dashboard!Forms, m \in Names, s \in SUBSET BOOLEAN :
           /\ Dashboard!Same(g, m, s)' \subseteq Dashboard!Same(g, m, s) \cup {k}
           /\ k \in Dashboard!Same(g, m, s)' => g = f /\ m = n
    BY <1>1, <2>2, <2>3 DEF Dashboard!Same, k
  <2>14. Dashboard!InsertionsAreNoted'
    <3>0. \A u \in Tabs : v3'[u].at = "insert" => v3'[u].name = v3[u].name
      BY <2>5
    <3> SUFFICES ASSUME NEW u \in Tabs, v3'[u].at = "insert", <<v1[u], v3[u].name>> \notin v7
                 PROVE  /\ Dashboard!Same(v1[u], v3[u].name, Dashboard!Form[v1[u]].looksFor)' = {}
                        /\ \A v \in Tabs \ {u} :
                             ~ (v3'[v].at = "insert" /\ v1[v] = v1[u] /\ v3'[v].name = v3[u].name)
      BY <1>1, <3>0 DEF Dashboard!InsertionsAreNoted
    <3>1. u # t /\ v3'[u] = v3[u] /\ v1[u] \in Dashboard!Forms /\ v3[u].name \in Names
      BY <2>5, DashboardTypes DEF Dashboard!IInv, Dashboard!Idle
    <3>2. /\ Dashboard!Same(v1[u], v3[u].name, Dashboard!Form[v1[u]].looksFor) = {}
          /\ \A v \in Tabs \ {u} :
               ~ (v3[v].at = "insert" /\ v1[v] = v1[u] /\ v3[v].name = v3[u].name)
      BY <3>1 DEF Dashboard!IInv, Dashboard!InsertionsAreNoted
    <3>3. Dashboard!Same(v1[u], v3[u].name, Dashboard!Form[v1[u]].looksFor)' = {}
      <4>1. ~ (v1[u] = f /\ v3[u].name = n)
        BY <1>1, <3>1, <3>2
      <4>2. Dashboard!Form[v1[u]].looksFor \in SUBSET BOOLEAN
        BY <3>1, FormFacts
      <4>3. (Dashboard!Same(v1[u], v3[u].name, Dashboard!Form[v1[u]].looksFor))'
               = Dashboard!Same(v1[u], v3[u].name, Dashboard!Form[v1[u]].looksFor)'
        OBVIOUS
      <4> QED BY <1>1, <2>13, <3>1, <3>2, <4>1, <4>2, <4>3
    <3> QED BY <2>5, <3>1, <3>2, <3>3
  <2>15. Dashboard!NamesRepeatOnlyByOverlap'
    <3> SUFFICES ASSUME NEW i \in 1..k, NEW j \in 1..k, i # j,
                        v4'[i].form = v4'[j].form, v4'[i].name = v4'[j].name,
                        v4'[i].active \in Dashboard!Form[v4'[i].form].looksFor,
                        v4'[j].active \in Dashboard!Form[v4'[i].form].looksFor
                 PROVE  <<v4'[i].form, v4'[i].name>> \in v7 /\ ~ Dashboard!Form[v4'[i].form].unique
      BY <1>1, <2>3 DEF Dashboard!NamesRepeatOnlyByOverlap, Dashboard!Same
    <3>0. \A h \in 1..k : h = k \/ (h \in 1..Len(v4) /\ v4'[h] = v4[h])
      BY <1>1, <2>3 DEF k
    <3>1. CASE i # k /\ j # k
      BY <3>0, <3>1 DEF Dashboard!IInv, Dashboard!NamesRepeatOnlyByOverlap, Dashboard!Same
    <3>2. ASSUME NEW h \in 1..Len(v4), v4[h].form = f, v4[h].name = n, v4[h].active \in Dashboard!Form[f].looksFor
          PROVE  <<f, n>> \in v7 /\ ~ Dashboard!Form[f].unique
      <4>1. h \in Dashboard!Same(f, n, Dashboard!Form[f].looksFor)
        BY <3>2 DEF Dashboard!Same
      <4>2. <<f, n>> \in v7
        BY <1>1, <4>1 DEF Dashboard!IInv, Dashboard!InsertionsAreNoted
      <4>3. h \in Dashboard!Same(f, n, {TRUE, FALSE})
        BY <1>1, <3>2, FormFacts DEF Dashboard!Same
      <4> QED BY <1>3, <4>2, <4>3 DEF Dashboard!Refused
    <3>3. CASE i = k
      BY <2>2, <2>3, <3>0, <3>2, <3>3
    <3>4. CASE j = k
      BY <2>2, <2>3, <3>0, <3>2, <3>4
    <3> QED BY <3>1, <3>3, <3>4
  <2> QED BY <2>6, <2>7, <2>8, <2>11, <2>12, <2>14, <2>15 DEF Dashboard!IInv
<1> QED BY <1>2, <1>3

LEMMA FailStep ==
    ASSUME Dashboard!IInv, NEW t \in Tabs, Dashboard!Fail(t)
    PROVE  Dashboard!IInv'
<1>1. UNCHANGED <<v1, v2, v4, v5, v6, v7>> /\ v3[t].at \in {"look", "insert"} /\ Dashboard!Reply(t, 0, FALSE)
  BY DEF Dashboard!Fail, Dashboard!NoRow
<1>2. /\ v3' \in [Tabs -> {Dashboard!Idle} \cup [at : {"look", "insert", "answer"}, name : Names,
                             row : 0..MaxRows, existed : BOOLEAN, mounted : BOOLEAN]]
      /\ v3'[t].at = "answer" /\ v3'[t].row = 0 /\ v3'[t].mounted = v3[t].mounted /\ v3[t] # Dashboard!Idle
      /\ \A u \in Tabs \ {t} : v3'[u] = v3[u]
  <2>1. 0 \in 0..MaxRows /\ FALSE \in BOOLEAN /\ Dashboard!TypeOK
    BY RowsOK DEF Dashboard!IInv
  <2> QED BY <1>1, <2>1, ReplyHolds
<1>3. Dashboard!TypeOK'
  BY <1>1, <1>2 DEF Dashboard!IInv, Dashboard!TypeOK
<1>4. Dashboard!DialogsAreOpen'
  BY <1>1, <1>2 DEF Dashboard!IInv, Dashboard!DialogsAreOpen, Dashboard!Open, Dashboard!Loading, Dashboard!NoRow
<1>5. Dashboard!InsertionsAreNoted' /\ Dashboard!NamesRepeatOnlyByOverlap'
  BY <1>1, <1>2, NothingInserted
<1>6. Dashboard!RowsAreAccounted'
  BY <1>1, <1>2 DEF Dashboard!IInv, Dashboard!RowsAreAccounted
<1>7. \A u \in Tabs, i \in 1..MaxRows : Dashboard!Holds(u, i)' => Dashboard!Holds(u, i)
  BY <1>1, <1>2 DEF Dashboard!Holds
<1>8. Dashboard!HeldRowsExist' /\ Dashboard!HeldByOne'
  BY <1>1, <1>7 DEF Dashboard!IInv, Dashboard!HeldRowsExist, Dashboard!HeldByOne
<1> QED BY <1>3, <1>4, <1>5, <1>6, <1>8 DEF Dashboard!IInv

LEMMA RetireStep ==
    ASSUME Dashboard!IInv, NEW i \in 1..MaxRows, Dashboard!Retire(i)
    PROVE  Dashboard!IInv'
<1>1. i \in 1..Len(v4) /\ UNCHANGED <<v1, v2, v3, v5, v6, v7>> /\ v4[i].active = TRUE
      /\ v4' = [v4 EXCEPT ![i] = [v4[i] EXCEPT !.active = FALSE]] /\ v4[i] \in Dashboard!Row
      /\ v4[i].form \in {"apiKey", "invite"}
  BY DashboardTypes DEF Dashboard!Retire, Dashboard!IInv, Dashboard!Row
<1>2. /\ v4' \in Seq(Dashboard!Row) /\ Len(v4') = Len(v4)
      /\ \A j \in 1..Len(v4) : /\ v4'[j].form = v4[j].form /\ v4'[j].name = v4[j].name
                               /\ v4'[j] \in Dashboard!Row
                               /\ j # i => v4'[j] = v4[j]
  <2> DEFINE new == [v4[i] EXCEPT !.active = FALSE]
  <2>1. new \in Dashboard!Row /\ new.form = v4[i].form /\ new.name = v4[i].name
    BY <1>1 DEF Dashboard!Row
  <2> HIDE DEF new
  <2>2. v4 \in Seq(Dashboard!Row) /\ v4' = [v4 EXCEPT ![i] = new]
    BY <1>1 DEF Dashboard!IInv, Dashboard!TypeOK, new
  <2>3. v4' \in Seq(Dashboard!Row) /\ Len(v4') = Len(v4) /\ v4'[i] = new
        /\ \A j \in 1..Len(v4) : j # i => v4'[j] = v4[j]
    <3>1. i \in 1..Len(v4)
      BY <1>1
    <3>2. /\ [v4 EXCEPT ![i] = new] \in Seq(Dashboard!Row) /\ Len([v4 EXCEPT ![i] = new]) = Len(v4)
          /\ \A j \in 1..Len(v4) : [v4 EXCEPT ![i] = new][j] = IF j = i THEN new ELSE v4[j]
      <4>1. v4 \in Seq(Dashboard!Row) /\ new \in Dashboard!Row
        BY <2>1, <2>2
      <4> HIDE <2>1, <2>2
      <4> QED BY <3>1, <4>1, ExceptSeq, SMT
    <3> QED BY <2>2, <3>1, <3>2
  <2> QED BY <2>1, <2>3, DashboardTypes DEF Dashboard!IInv
<1>3. \A f \in Dashboard!Forms, n \in Names :
        Dashboard!Same(f, n, Dashboard!Form[f].looksFor)' \subseteq Dashboard!Same(f, n, Dashboard!Form[f].looksFor)
  <2> SUFFICES ASSUME NEW f \in Dashboard!Forms, NEW n \in Names, NEW j \in 1..Len(v4),
                      v4'[j].form = f, v4'[j].name = n, v4'[j].active \in Dashboard!Form[f].looksFor
               PROVE  v4[j].active \in Dashboard!Form[f].looksFor
    BY <1>2 DEF Dashboard!Same
  <2>1. CASE j # i
    BY <1>2, <2>1
  <2>2. CASE j = i
    <3>1. v4'[j].active \in BOOLEAN
      BY <1>2 DEF Dashboard!Row
    <3>2. TRUE \in Dashboard!Form[f].looksFor
      BY <3>1, FormFacts
    <3> QED BY <1>1, <2>2, <3>2
  <2> QED BY <2>1, <2>2
<1>4. Dashboard!TypeOK' /\ Dashboard!DialogsAreOpen'
  BY <1>1, <1>2 DEF Dashboard!IInv, Dashboard!TypeOK, Dashboard!DialogsAreOpen, Dashboard!Open, Dashboard!Loading
<1>5. Dashboard!RowsAreAccounted' /\ Dashboard!HeldRowsExist' /\ Dashboard!HeldByOne'
  <2>1. \A t \in Tabs, j \in 1..MaxRows : Dashboard!Holds(t, j)' <=> Dashboard!Holds(t, j)
    BY <1>1 DEF Dashboard!Holds
  <2>2. Dashboard!RowsAreAccounted' /\ Dashboard!HeldByOne'
    BY <1>1, <1>2, <2>1 DEF Dashboard!IInv, Dashboard!RowsAreAccounted, Dashboard!HeldByOne
  <2>3. Dashboard!HeldRowsExist'
    BY <1>1, <1>2, <2>1, DashboardTypes DEF Dashboard!IInv, Dashboard!HeldRowsExist
  <2> QED BY <2>2, <2>3
<1>6. Dashboard!InsertionsAreNoted'
  <2> SUFFICES ASSUME NEW u \in Tabs, v3[u].at = "insert", <<v1[u], v3[u].name>> \notin v7
               PROVE  /\ Dashboard!Same(v1[u], v3[u].name, Dashboard!Form[v1[u]].looksFor)' = {}
                      /\ \A v \in Tabs \ {u} :
                           ~ (v3[v].at = "insert" /\ v1[v] = v1[u] /\ v3[v].name = v3[u].name)
    BY <1>1 DEF Dashboard!InsertionsAreNoted
  <2>1. v1[u] \in Dashboard!Forms /\ v3[u].name \in Names
    BY DashboardTypes DEF Dashboard!IInv, Dashboard!Idle
  <2>2. /\ Dashboard!Same(v1[u], v3[u].name, Dashboard!Form[v1[u]].looksFor) = {}
        /\ \A v \in Tabs \ {u} : ~ (v3[v].at = "insert" /\ v1[v] = v1[u] /\ v3[v].name = v3[u].name)
    BY DEF Dashboard!IInv, Dashboard!InsertionsAreNoted
  <2> QED BY <1>1, <1>3, <2>1, <2>2
<1>7. Dashboard!NamesRepeatOnlyByOverlap'
  <2> SUFFICES ASSUME NEW j \in 1..Len(v4), NEW h \in 1..Len(v4), j # h,
                      {j, h} \subseteq Dashboard!Same(v4[j].form, v4[j].name, Dashboard!Form[v4[j].form].looksFor)'
               PROVE  <<v4'[j].form, v4'[j].name>> \in v7 /\ ~ Dashboard!Form[v4'[j].form].unique
    <3>1. UNCHANGED v7 /\ Len(v4') = Len(v4)
      BY <1>1, <1>2
    <3>2. \A j \in 1..Len(v4) : v4'[j].form = v4[j].form /\ v4'[j].name = v4[j].name
      BY <1>2
    <3> QED BY <3>1, <3>2 DEF Dashboard!NamesRepeatOnlyByOverlap
  <2>1. v4[j].form \in Dashboard!Forms /\ v4[j].name \in Names
    BY DashboardTypes DEF Dashboard!IInv, Dashboard!Row
  <2>2. {j, h} \subseteq Dashboard!Same(v4[j].form, v4[j].name, Dashboard!Form[v4[j].form].looksFor)
    BY <1>2, <1>3, <2>1
  <2> QED BY <1>1, <1>2, <2>2 DEF Dashboard!IInv, Dashboard!NamesRepeatOnlyByOverlap
<1> QED BY <1>4, <1>5, <1>6, <1>7 DEF Dashboard!IInv

LEMMA AnswerStep ==
    ASSUME Dashboard!IInv, NEW t \in Tabs, Dashboard!Answer(t)
    PROVE  Dashboard!IInv'
<1>1. /\ UNCHANGED <<v1, v4, v6, v7>> /\ v3[t].at = "answer" /\ v3[t].mounted = TRUE /\ v3[t] # Dashboard!Idle
      /\ v3[t].row \in 0..MaxRows
      /\ v2' = [v2 EXCEPT ![t] = Dashboard!Shows(t)] /\ v3' = [v3 EXCEPT ![t] = Dashboard!Idle]
      /\ v5' = IF v3[t].row = 0 THEN v5 ELSE v5 \cup {v3[t].row}
  BY DashboardTypes DEF Dashboard!IInv, Dashboard!Answer, Dashboard!Idle, Dashboard!NoRow
<1>2. /\ v3' \in [Tabs -> {Dashboard!Idle} \cup [at : {"look", "insert", "answer"}, name : Names,
                             row : 0..MaxRows, existed : BOOLEAN, mounted : BOOLEAN]]
      /\ v3'[t] = Dashboard!Idle /\ v3'[t].at = "idle"
      /\ \A u \in Tabs \ {t} : v3'[u] = v3[u]
  BY <1>1, AnswerGone DEF Dashboard!IInv
<1>3. /\ Dashboard!Shows(t) \in [open : BOOLEAN, shown : 0..MaxRows]
      /\ Dashboard!Shows(t).shown \in {0, v2[t].shown, v3[t].row}
      /\ Dashboard!Shows(t).shown # 0 => Dashboard!Shows(t).open = v2[t].open
  <2>1. v2[t] \in [open : BOOLEAN, shown : 0..MaxRows]
    BY DEF Dashboard!IInv, Dashboard!TypeOK
  <2>2. Dashboard!Shows(t) \in {v2[t], [v2[t] EXCEPT !.shown = v3[t].row], [open |-> FALSE, shown |-> 0]}
    BY DEF Dashboard!Shows, Dashboard!Closed, Dashboard!NoRow
  <2>3. CASE Dashboard!Shows(t) = v2[t]
    BY <2>1, <2>3
  <2>4. CASE Dashboard!Shows(t) = [v2[t] EXCEPT !.shown = v3[t].row]
    BY <1>1, <2>1, <2>4
  <2>5. CASE Dashboard!Shows(t) = [open |-> FALSE, shown |-> 0]
    BY <2>5, RowsOK
  <2> QED BY <2>2, <2>3, <2>4, <2>5
<1>4. /\ v2' \in [Tabs -> [open : BOOLEAN, shown : 0..MaxRows]]
      /\ v2'[t].shown \in {0, v2[t].shown, v3[t].row}
      /\ v2'[t].shown # 0 => v2'[t].open = v2[t].open
      /\ \A u \in Tabs \ {t} : v2'[u] = v2[u]
  BY <1>1, <1>3 DEF Dashboard!IInv, Dashboard!TypeOK
<1>5. v5 \subseteq v5' /\ (v3[t].row # 0 => v3[t].row \in v5')
  BY <1>1
<1>6. Dashboard!TypeOK'
  BY <1>1, <1>2, <1>4 DEF Dashboard!IInv, Dashboard!TypeOK
<1>7. Dashboard!DialogsAreOpen'
  BY <1>1, <1>2, <1>4 DEF Dashboard!IInv, Dashboard!DialogsAreOpen, Dashboard!Open, Dashboard!Loading, Dashboard!NoRow
<1>8. Dashboard!RowsAreAccounted'
  BY <1>1, <1>2, <1>5 DEF Dashboard!IInv, Dashboard!RowsAreAccounted
<1>9. \A u \in Tabs, i \in 1..MaxRows : Dashboard!Holds(u, i)' => Dashboard!Holds(u, i)
  BY <1>1, <1>2, <1>4 DEF Dashboard!Holds
<1>10. Dashboard!HeldRowsExist' /\ Dashboard!HeldByOne'
  BY <1>1, <1>9 DEF Dashboard!IInv, Dashboard!HeldRowsExist, Dashboard!HeldByOne
<1>11. Dashboard!InsertionsAreNoted' /\ Dashboard!NamesRepeatOnlyByOverlap'
  BY <1>1, <1>2, NothingInserted
<1> QED BY <1>6, <1>7, <1>8, <1>10, <1>11 DEF Dashboard!IInv

LEMMA LoseStep ==
    ASSUME Dashboard!IInv, NEW t \in Tabs, Dashboard!LoseAnswer(t)
    PROVE  Dashboard!IInv'
<1>1. /\ UNCHANGED <<v1, v2, v4, v5, v7>> /\ v3[t].at = "answer" /\ v3[t] # Dashboard!Idle
      /\ v3[t].row \in 0..MaxRows
      /\ v3' = [v3 EXCEPT ![t] = Dashboard!Idle]
      /\ v6' = IF v3[t].row = 0 THEN v6 ELSE v6 \cup {v3[t].row}
  BY DashboardTypes DEF Dashboard!IInv, Dashboard!LoseAnswer, Dashboard!Idle, Dashboard!NoRow
<1>2. /\ v3' \in [Tabs -> {Dashboard!Idle} \cup [at : {"look", "insert", "answer"}, name : Names,
                             row : 0..MaxRows, existed : BOOLEAN, mounted : BOOLEAN]]
      /\ v3'[t] = Dashboard!Idle /\ v3'[t].at = "idle"
      /\ \A u \in Tabs \ {t} : v3'[u] = v3[u]
  BY <1>1, AnswerGone DEF Dashboard!IInv
<1>3. v6 \subseteq v6' /\ (v3[t].row # 0 => v3[t].row \in v6')
  BY <1>1
<1>4. Dashboard!TypeOK'
  BY <1>1, <1>2 DEF Dashboard!IInv, Dashboard!TypeOK
<1>5. Dashboard!DialogsAreOpen'
  BY <1>1, <1>2 DEF Dashboard!IInv, Dashboard!DialogsAreOpen, Dashboard!Open, Dashboard!Loading, Dashboard!NoRow
<1>6. Dashboard!RowsAreAccounted'
  BY <1>1, <1>2, <1>3 DEF Dashboard!IInv, Dashboard!RowsAreAccounted
<1>7. \A u \in Tabs, i \in 1..MaxRows : Dashboard!Holds(u, i)' => Dashboard!Holds(u, i)
  BY <1>1, <1>2 DEF Dashboard!Holds
<1>8. Dashboard!HeldRowsExist' /\ Dashboard!HeldByOne'
  BY <1>1, <1>7 DEF Dashboard!IInv, Dashboard!HeldRowsExist, Dashboard!HeldByOne
<1>9. Dashboard!InsertionsAreNoted' /\ Dashboard!NamesRepeatOnlyByOverlap'
  BY <1>1, <1>2, NothingInserted
<1> QED BY <1>4, <1>5, <1>6, <1>8, <1>9 DEF Dashboard!IInv

LEMMA DashboardStep ==
    ASSUME Dashboard!IInv, [Dashboard!Next]_(Dashboard!vars)
    PROVE  Dashboard!IInv'
<1>1. CASE UNCHANGED Dashboard!vars
  <2>1. UNCHANGED <<v1, v2, v3, v4, v5, v6, v7>>
    BY <1>1 DEF Dashboard!vars
  <2>2. Dashboard!InsertionsAreNoted' /\ Dashboard!NamesRepeatOnlyByOverlap'
    BY <2>1, NothingInserted
  <2> QED
    BY <2>1, <2>2 DEF Dashboard!IInv, Dashboard!TypeOK, Dashboard!RowsAreAccounted, Dashboard!HeldRowsExist,
          Dashboard!Holds, Dashboard!HeldByOne, Dashboard!DialogsAreOpen, Dashboard!Open, Dashboard!Loading
<1> QED
  BY <1>1, OpenStep, CloseStep, SubmitStep, LeaveStep, LookStep, InsertStep, FailStep, RetireStep, AnswerStep, LoseStep
     DEF Dashboard!Next

LEMMA DashboardInvariant == FrontSpec => [](focus = "dashboard" => Dashboard!IInv)
<1> DEFINE Inv == focus = "dashboard" => Dashboard!IInv
<1>1. FrontInit => Inv
  <2> SUFFICES ASSUME Dashboard!Init PROVE Dashboard!IInv
    BY DEF FrontInit
  <2>1. Dashboard!TypeOK
    BY RowsOK DEF Dashboard!Init, Dashboard!TypeOK, Dashboard!Closed, Dashboard!NoRow
  <2> QED
    BY <2>1, RowsOK DEF Dashboard!Init, Dashboard!IInv, Dashboard!RowsAreAccounted, Dashboard!HeldRowsExist,
        Dashboard!Holds, Dashboard!HeldByOne, Dashboard!DialogsAreOpen, Dashboard!Open, Dashboard!Loading,
        Dashboard!InsertionsAreNoted, Dashboard!NamesRepeatOnlyByOverlap, Dashboard!Same, Dashboard!Closed,
        Dashboard!NoRow, Dashboard!Idle
<1>2. Inv /\ [FrontNext]_frontVars => Inv'
  <2> SUFFICES ASSUME Inv, [FrontNext]_frontVars, focus' = "dashboard" PROVE Dashboard!IInv'
    OBVIOUS
  <2>1. focus = "dashboard" /\ [Dashboard!Next]_(Dashboard!vars)
    BY DEF FrontNext, frontVars, Dashboard!vars, five, two
  <2> QED BY <2>1, DashboardStep
<1> QED BY <1>1, <1>2, PTL DEF FrontSpec

\* The dialogs of components/forms: a secret that was created is in the dialog of
\* its own tab, on its way there, or known to be lost.
THEOREM SecretsAreShown == FrontSpec => []SecretsReachTheirTab
<1>1. (focus = "dashboard" => Dashboard!IInv) => SecretsReachTheirTab
  <2> SUFFICES ASSUME Dashboard!IInv PROVE Dashboard!SecretsReachTheirTab
    BY DEF SecretsReachTheirTab
  <2>1. \A t \in Tabs : v2[t].shown # 0 => v2[t].shown \in 1..MaxRows /\ Dashboard!Holds(t, v2[t].shown)
    BY DashboardTypes, RowsOK DEF Dashboard!IInv, Dashboard!Holds
  <2> QED BY <2>1 DEF Dashboard!IInv, Dashboard!SecretsReachTheirTab, Dashboard!RowsAreAccounted, Dashboard!HeldRowsExist,
              Dashboard!HeldByOne, Dashboard!DialogsAreOpen, Dashboard!NoRow, Dashboard!Open
<1> QED BY <1>1, DashboardInvariant, PTL

\* A name that its action looks for first repeats only when actions overlapped,
\* that of an organization (actions/organization) only after a rename.
THEOREM NamesRepeat == FrontSpec => []NamesRepeatOnlyByOverlap
<1>1. (focus = "dashboard" => Dashboard!IInv) /\ (focus = "members" => Members!IInv) => NamesRepeatOnlyByOverlap
  BY DEF NamesRepeatOnlyByOverlap, Dashboard!IInv, Members!IInv
<1> QED BY <1>1, DashboardInvariant, MembersInvariant, PTL

-----------------------------------------------------------------------------
(* Pages: v1 page, v2 row, v3 shown, v4 stale, v5 press, v6 form, v7 drawn, *)
(* v8 replays.                                                              *)

\* A page's buttons and what its actions take and write.
LEMMA PageFacts ==
    ASSUME NEW p \in Site!Pages, NEW l, NEW s \in DOMAIN Site!Page[p].list, l \in Site!Page[p].list[s]
    PROVE  /\ l \in Site!States
           /\ \A r \in Site!Settled \cap Site!ActionOf(p, l).writes :
                r = l \/ (p = "invoice" /\ Site!ActionOf(p, l).takes = {"PENDING"})
<1>1. p \in {"webhooks", "apiKeys", "members", "invite", "invoice", "plans", "logs", "name", "danger", "currency"}
  BY DEF Site!Pages, Site!Page
<1> USE DEF Site!Page, Site!PageOf, Site!ActionOf, Site!Settled, Site!States
<1>2. CASE p = "webhooks"
  BY <1>2 DEF Site!WebhooksPage, Site!WebhooksList, Site!ToggleWebhook
<1>3. CASE p = "apiKeys"
  BY <1>3 DEF Site!ApiKeysPage, Site!ApiKeysList, Site!RevokeApiKey
<1>4. CASE p = "members"
  BY <1>4 DEF Site!MembersPage, Site!PendingInvitesList, Site!GetPendingInvites, Site!CancelInvite
<1>5. CASE p = "invite"
  BY <1>5 DEF Site!InvitePage, Site!InviteCard, Site!AcceptInvite
<1>6. CASE p = "invoice"
  BY <1>6 DEF Site!InvoicePage, Site!InvoiceSection, Site!MarkInvoicePaid, Site!MarkInvoiceFailed
<1>7. CASE p = "plans"
  BY <1>7 DEF Site!PlansPage, Site!PlanCard, Site!CreateSubscription
<1>8. CASE p = "logs"
  BY <1>8 DEF Site!WebhookLogsPage, Site!BillingDeliveryEvents, Site!ReplayBillingWebhook
<1>9. CASE p = "name"
  BY <1>9 DEF Site!NameSettings, Site!OrganizationForm, Site!UpdateOrganization
<1>10. CASE p = "danger"
  BY <1>10 DEF Site!DangerSettings, Site!DangerZone, Site!DeleteOrganization
<1>11. CASE p = "currency"
  BY <1>11 DEF Site!SettingsPage, Site!CurrencySection, Site!SetCurrency
<1> QED BY <1>1, <1>2, <1>3, <1>4, <1>5, <1>6, <1>7, <1>8, <1>9, <1>10, <1>11

\* Requests, as the type invariant has them.
LEMMA PressTypes ==
    ASSUME Site!TypeOK, NEW t \in Tabs, Site!Busy(t)
    PROVE  v5[t] \in [at : {"check", "write", "answer"}, label : Site!States, saw : Site!States \cup {Nothing},
                      form : [reason : 0..MaxReasons, key : 0..MaxKeys], ok : BOOLEAN, here : BOOLEAN]
BY DEF Site!TypeOK, Site!Busy

\* A request goes on as it is but for its progress, and what it saw was taken.
LEMMA PressGoesOn ==
    ASSUME Site!TypeOK, Site!LabelsFit, NEW t \in Tabs, Site!Busy(t), UNCHANGED v1,
           NEW new \in [at : {"check", "write", "answer"}, label : Site!States, saw : Site!States \cup {Nothing},
                        form : [reason : 0..MaxReasons, key : 0..MaxKeys], ok : BOOLEAN, here : BOOLEAN],
           new.label = v5[t].label, new.form = v5[t].form,
           new.at = "write" => new.saw \in Site!Request(t).takes,
           v5' = [v5 EXCEPT ![t] = new]
    PROVE  /\ v5' \in [Tabs -> {Site!Idle} \cup
                [at : {"check", "write", "answer"}, label : Site!States, saw : Site!States \cup {Nothing},
                 form : [reason : 0..MaxReasons, key : 0..MaxKeys], ok : BOOLEAN, here : BOOLEAN]]
           /\ \A u \in Tabs : /\ Site!Busy(u)' <=> Site!Busy(u)
                              /\ v5'[u].form = v5[u].form
                              /\ u # t => v5'[u] = v5[u]
           /\ Site!LabelsFit'
<1> DEFINE rec == [at : {"check", "write", "answer"}, label : Site!States, saw : Site!States \cup {Nothing},
                   form : [reason : 0..MaxReasons, key : 0..MaxKeys], ok : BOOLEAN, here : BOOLEAN]
<1>1. v5 \in [Tabs -> {Site!Idle} \cup rec]
  BY DEF Site!TypeOK
<1>2. new # Site!Idle
  BY DEF Site!Idle
<1> HIDE DEF rec
<1>3. v5' \in [Tabs -> {Site!Idle} \cup rec] /\ v5'[t] = new /\ \A u \in Tabs \ {t} : v5'[u] = v5[u]
  BY <1>1 DEF rec
<1>4. \A u \in Tabs : (Site!Busy(u)' <=> Site!Busy(u)) /\ v5'[u].form = v5[u].form
  BY <1>2, <1>3 DEF Site!Busy
<1>5. Site!LabelsFit'
  <2> SUFFICES ASSUME NEW u \in Tabs, Site!Busy(u)
               PROVE  /\ \E s \in DOMAIN Site!Page[v1[u]].list : v5'[u].label \in Site!Page[v1[u]].list[s]
                      /\ v5'[u].at = "write" => v5'[u].saw \in Site!ActionOf(v1[u], v5'[u].label).takes
    BY <1>4 DEF Site!LabelsFit, Site!Request
  <2>1. /\ \E s \in DOMAIN Site!Page[v1[u]].list : v5[u].label \in Site!Page[v1[u]].list[s]
        /\ v5[u].at = "write" => v5[u].saw \in Site!ActionOf(v1[u], v5[u].label).takes
    BY DEF Site!LabelsFit, Site!Request
  <2>2. CASE u = t
    BY <1>3, <2>1, <2>2 DEF Site!Request
  <2>3. CASE u # t
    BY <1>3, <2>1, <2>3
  <2> QED BY <2>2, <2>3
<1> QED BY <1>3, <1>4, <1>5 DEF rec

\* A request ends.
LEMMA PressEnds ==
    ASSUME Site!TypeOK, Site!LabelsFit, NEW t \in Tabs, Site!Busy(t), UNCHANGED v1,
           v5' = [v5 EXCEPT ![t] = Site!Idle]
    PROVE  /\ v5' \in [Tabs -> {Site!Idle} \cup
                [at : {"check", "write", "answer"}, label : Site!States, saw : Site!States \cup {Nothing},
                 form : [reason : 0..MaxReasons, key : 0..MaxKeys], ok : BOOLEAN, here : BOOLEAN]]
           /\ \A u \in Tabs : Site!Busy(u)' => Site!Busy(u) /\ v5'[u] = v5[u]
           /\ Site!LabelsFit'
<1>1. /\ v5' \in [Tabs -> {Site!Idle} \cup
           [at : {"check", "write", "answer"}, label : Site!States, saw : Site!States \cup {Nothing},
            form : [reason : 0..MaxReasons, key : 0..MaxKeys], ok : BOOLEAN, here : BOOLEAN]]
      /\ v5'[t] = Site!Idle /\ \A u \in Tabs \ {t} : v5'[u] = v5[u]
  BY DEF Site!TypeOK
<1>2. \A u \in Tabs : Site!Busy(u)' => Site!Busy(u) /\ v5'[u] = v5[u]
  BY <1>1 DEF Site!Busy
<1> QED BY <1>1, <1>2 DEF Site!LabelsFit, Site!Request

\* Nothing new is sent, and forms stay or are emptied.
LEMMA NothingSent ==
    ASSUME Site!TypeOK, Site!ReasonsAreDrawn, Site!FormsAreTyped, Site!KeysFollowReasons, UNCHANGED <<v1, v7>>,
           Site!Sent' \subseteq Site!Sent, \A t \in Tabs : v6'[t] \in {v6[t], Site!EmptyForm}
    PROVE  Site!ReasonsAreDrawn' /\ Site!FormsAreTyped' /\ Site!KeysFollowReasons'
<1>1. \A t \in Tabs : v6'[t] = v6[t] \/ (v6'[t].reason = 0 /\ v6'[t].key = 0)
  BY DEF Site!EmptyForm
<1>2. v7.reasons \in 0..MaxReasons
  BY DEF Site!TypeOK
<1>3. Site!ReasonsAreDrawn'
  BY <1>1, <1>2, DrawsOK DEF Site!ReasonsAreDrawn
<1>4. Site!KeysFollowReasons'
  BY <1>1 DEF Site!KeysFollowReasons
<1>5. Site!FormsAreTyped'
  BY <1>1 DEF Site!FormsAreTyped, Site!It
<1> QED BY <1>3, <1>4, <1>5

LEMMA SentStays ==
    ASSUME \A t \in Tabs : Site!Busy(t)' => Site!Busy(t) /\ v5'[t].form = v5[t].form,
           v8' \subseteq v8 \cup {v5[t].form : t \in {u \in Tabs : Site!Busy(u)}}
    PROVE  Site!Sent' \subseteq Site!Sent
BY DEF Site!Sent

\* Pages, forms and requests stay.
LEMMA FormsStay ==
    ASSUME Site!IInv, UNCHANGED <<v1, v5, v6, v7, v8>>
    PROVE  Site!LabelsFit' /\ Site!ReasonsAreDrawn' /\ Site!FormsAreTyped' /\ Site!KeysFollowReasons'
<1>1. Site!Sent' = Site!Sent /\ Site!LabelsFit'
  BY DEF Site!IInv, Site!LabelsFit, Site!Request, Site!Busy, Site!Sent
<1> QED BY <1>1, NothingSent DEF Site!IInv

LEMMA ReloadStep ==
    ASSUME Site!IInv, NEW t \in Tabs, Site!Reload(t)
    PROVE  Site!IInv'
<1>1. /\ UNCHANGED <<v1, v2, v7, v8>>
      /\ v3' \in [Tabs -> Site!States] /\ v4' \in [Tabs -> BOOLEAN]
      /\ v6' \in [Tabs -> [reason : 0..MaxReasons, key : 0..MaxKeys]]
      /\ \A u \in Tabs : v6'[u] \in {v6[u], Site!EmptyForm}
  BY DrawsOK DEF Site!Reload, Site!IInv, Site!TypeOK, Site!EmptyForm
<1>2. CASE Site!Busy(t)
  <2> DEFINE new == [v5[t] EXCEPT !.here = FALSE]
  <2>1. /\ new \in [at : {"check", "write", "answer"}, label : Site!States, saw : Site!States \cup {Nothing},
                    form : [reason : 0..MaxReasons, key : 0..MaxKeys], ok : BOOLEAN, here : BOOLEAN]
        /\ new.label = v5[t].label /\ new.form = v5[t].form /\ new.at = v5[t].at /\ new.saw = v5[t].saw
    BY <1>2, PressTypes DEF Site!IInv
  <2>2. v5' = [v5 EXCEPT ![t] = new]
    BY <1>2 DEF Site!Reload
  <2>3. new.at = "write" => new.saw \in Site!Request(t).takes
    BY <1>2, <2>1 DEF Site!IInv, Site!LabelsFit
  <2> HIDE DEF new
  <2>4. /\ v5' \in [Tabs -> {Site!Idle} \cup
             [at : {"check", "write", "answer"}, label : Site!States, saw : Site!States \cup {Nothing},
              form : [reason : 0..MaxReasons, key : 0..MaxKeys], ok : BOOLEAN, here : BOOLEAN]]
        /\ \A u \in Tabs : (Site!Busy(u)' <=> Site!Busy(u)) /\ v5'[u].form = v5[u].form
        /\ Site!LabelsFit'
    BY <1>1, <1>2, <2>1, <2>2, <2>3, PressGoesOn DEF Site!IInv
  <2>5. Site!Sent' \subseteq Site!Sent
    BY <1>1, <2>4, SentStays
  <2>6. Site!ReasonsAreDrawn' /\ Site!FormsAreTyped' /\ Site!KeysFollowReasons'
    BY <1>1, <2>5, NothingSent DEF Site!IInv
  <2> QED BY <1>1, <2>4, <2>6 DEF Site!IInv, Site!TypeOK
<1>3. CASE ~ Site!Busy(t)
  <2>1. UNCHANGED v5
    BY <1>3 DEF Site!Reload
  <2>2. Site!Sent' \subseteq Site!Sent /\ Site!LabelsFit'
    BY <1>1, <2>1 DEF Site!IInv, Site!Sent, Site!Busy, Site!LabelsFit, Site!Request
  <2>3. Site!ReasonsAreDrawn' /\ Site!FormsAreTyped' /\ Site!KeysFollowReasons'
    BY <1>1, <2>2, NothingSent DEF Site!IInv
  <2> QED BY <1>1, <2>1, <2>2, <2>3 DEF Site!IInv, Site!TypeOK
<1> QED BY <1>2, <1>3

LEMMA RefreshStep ==
    ASSUME Site!IInv, NEW t \in Tabs, Site!Refresh(t)
    PROVE  Site!IInv'
<1>1. /\ UNCHANGED <<v1, v2, v5, v6, v7, v8>>
      /\ v3' \in [Tabs -> Site!States] /\ v4' \in [Tabs -> BOOLEAN]
  BY DEF Site!Refresh, Site!IInv, Site!TypeOK
<1> QED BY <1>1, FormsStay DEF Site!IInv, Site!TypeOK

LEMMA TypeReasonStep ==
    ASSUME Site!IInv, NEW t \in Tabs, Site!TypeReason(t)
    PROVE  Site!IInv'
<1> DEFINE r == v7.reasons + 1
<1>1. /\ v7 \in [reasons : 0..MaxReasons, keys : 0..MaxKeys] /\ r \in 1..MaxReasons
      /\ v7' = [v7 EXCEPT !.reasons = r] /\ v6' = [v6 EXCEPT ![t] = [reason |-> r, key |-> 0]]
      /\ UNCHANGED <<v1, v2, v3, v4, v5, v8>>
  BY DrawsOK DEF Site!TypeReason, Site!IInv, Site!TypeOK
<1>2. /\ v7' \in [reasons : 0..MaxReasons, keys : 0..MaxKeys] /\ v7'.reasons = r
      /\ v6' \in [Tabs -> [reason : 0..MaxReasons, key : 0..MaxKeys]]
      /\ v6'[t].reason = r /\ \A u \in Tabs \ {t} : v6'[u] = v6[u]
  BY <1>1, DrawsOK DEF Site!IInv, Site!TypeOK
<1>3. Site!Sent' = Site!Sent
  BY <1>1 DEF Site!Sent, Site!Busy
<1>4. \A f \in Site!Sent : f.reason \in 0..MaxReasons
  BY PressTypes DEF Site!IInv, Site!TypeOK, Site!Sent
<1>5. \A u \in Tabs : v6[u].reason \in 0..MaxReasons
  BY DEF Site!IInv, Site!TypeOK
<1>6. r = v7.reasons + 1 /\ v7.reasons \in 0..MaxReasons
  BY <1>1
<1> HIDE DEF r
<1>7. Site!ReasonsAreDrawn'
  BY <1>2, <1>3, <1>4, <1>5, <1>6 DEF Site!IInv, Site!ReasonsAreDrawn
<1>8. Site!KeysFollowReasons'
  BY <1>2, <1>3, <1>4, <1>6 DEF Site!IInv, Site!ReasonsAreDrawn, Site!KeysFollowReasons
<1>10. Site!FormsAreTyped'
  BY <1>1, <1>2, <1>3, <1>6 DEF Site!IInv, Site!TypeReason, Site!It, Site!FormsAreTyped
<1>9. Site!TypeOK' /\ Site!LabelsFit'
  BY <1>1, <1>2 DEF Site!IInv, Site!TypeOK, Site!LabelsFit, Site!Request, Site!Busy
<1> QED BY <1>7, <1>8, <1>9, <1>10 DEF Site!IInv

LEMMA PressStep ==
    ASSUME Site!IInv, NEW t \in Tabs, NEW label \in Site!States, Site!Press(t, label)
    PROVE  Site!IInv'
<1> DEFINE new == [at |-> "check", label |-> label, saw |-> Nothing, form |-> v6'[t], ok |-> FALSE, here |-> TRUE]
<1>1. /\ ~ Site!Busy(t) /\ v5[t] = Site!Idle /\ label \in Site!Offered(t) /\ UNCHANGED <<v1, v2, v3, v4, v8>>
      /\ v5' = [v5 EXCEPT ![t] = new]
      /\ Site!It(t).keyed => v6[t].reason # 0
  BY DEF Site!Press, Site!Busy
<1>2. \E s \in DOMAIN Site!Page[v1[t]].list : label \in Site!Page[v1[t]].list[s]
  BY <1>1 DEF Site!Offered
<1>3. /\ v6' \in [Tabs -> [reason : 0..MaxReasons, key : 0..MaxKeys]]
      /\ v7' \in [reasons : 0..MaxReasons, keys : 0..MaxKeys]
      /\ v7'.reasons = v7.reasons
      /\ v6'[t].reason = v6[t].reason /\ \A u \in Tabs \ {t} : v6'[u] = v6[u]
      /\ Site!NeedsKey(t) => v6[t].key = 0 /\ v6'[t].key # 0 /\ v6[t].reason # 0
      /\ ~ Site!NeedsKey(t) => v6'[t] = v6[t]
  <2>1. v6 \in [Tabs -> [reason : 0..MaxReasons, key : 0..MaxKeys]] /\ v7 \in [reasons : 0..MaxReasons, keys : 0..MaxKeys]
    BY DEF Site!IInv, Site!TypeOK
  <2>2. CASE Site!NeedsKey(t)
    <3>1. v7.keys + 1 \in 1..MaxKeys /\ v7' = [v7 EXCEPT !.keys = v7.keys + 1]
          /\ v6' = [v6 EXCEPT ![t].key = v7'.keys]
      BY <2>1, <2>2, DrawsOK DEF Site!Press
    <3>2. v7' \in [reasons : 0..MaxReasons, keys : 0..MaxKeys] /\ v7'.reasons = v7.reasons /\ v7'.keys \in 1..MaxKeys
      BY <2>1, <3>1, DrawsOK
    <3>3. v6' \in [Tabs -> [reason : 0..MaxReasons, key : 0..MaxKeys]] /\ v6'[t].reason = v6[t].reason
          /\ v6'[t].key = v7'.keys /\ \A u \in Tabs \ {t} : v6'[u] = v6[u]
      BY <2>1, <3>1, <3>2
    <3>4. v6[t].key = 0 /\ v6[t].reason # 0
      BY <1>1, <2>2 DEF Site!NeedsKey
    <3> QED BY <2>2, <3>2, <3>3, <3>4, DrawsOK
  <2>3. CASE ~ Site!NeedsKey(t)
    BY <2>1, <2>3 DEF Site!Press
  <2> QED BY <2>2, <2>3
<1>4. /\ new \in [at : {"check", "write", "answer"}, label : Site!States, saw : Site!States \cup {Nothing},
                  form : [reason : 0..MaxReasons, key : 0..MaxKeys], ok : BOOLEAN, here : BOOLEAN]
      /\ new.label = label /\ new.form = v6'[t] /\ new.at = "check"
  BY <1>3
<1>5. new # Site!Idle
  BY <1>4 DEF Site!Idle
<1> HIDE DEF new
<1>6. /\ v5' \in [Tabs -> {Site!Idle} \cup
           [at : {"check", "write", "answer"}, label : Site!States, saw : Site!States \cup {Nothing},
            form : [reason : 0..MaxReasons, key : 0..MaxKeys], ok : BOOLEAN, here : BOOLEAN]]
      /\ v5'[t] = new /\ \A u \in Tabs \ {t} : v5'[u] = v5[u]
  BY <1>1, <1>4 DEF Site!IInv, Site!TypeOK
<1>7. Site!TypeOK'
  BY <1>1, <1>3, <1>6 DEF Site!IInv, Site!TypeOK
<1>8. Site!LabelsFit'
  BY <1>1, <1>2, <1>4, <1>6 DEF Site!IInv, Site!LabelsFit, Site!Request, Site!Busy
<1>9. Site!Sent' = Site!Sent \cup {v6'[t]}
  BY <1>1, <1>4, <1>5, <1>6 DEF Site!Sent, Site!Busy
<1>10. Site!ReasonsAreDrawn'
  BY <1>3, <1>9 DEF Site!IInv, Site!ReasonsAreDrawn
<1>11. v6[t].reason # 0 => v6'[t].key # 0
  BY <1>3 DEF Site!IInv, Site!FormsAreTyped, Site!NeedsKey
<1>12. Site!FormsAreTyped'
  BY <1>1, <1>3, <1>9 DEF Site!IInv, Site!FormsAreTyped, Site!It
<1>13. \A f \in Site!Sent : f.reason = v6[t].reason => f.key = v6'[t].key
  <2> SUFFICES ASSUME NEW f \in Site!Sent, f.reason = v6[t].reason PROVE f.key = v6'[t].key
    OBVIOUS
  <2>1. CASE v6[t].reason = 0
    BY <1>3, <2>1 DEF Site!IInv, Site!FormsAreTyped
  <2>2. CASE v6[t].reason # 0
    BY <1>3, <2>2 DEF Site!IInv, Site!KeysFollowReasons
  <2> QED BY <2>1, <2>2
<1>14. Site!KeysFollowReasons'
  <2>1. \A f, g \in Site!Sent' : f.reason = g.reason => f.key = g.key
    BY <1>3, <1>9, <1>13 DEF Site!IInv, Site!KeysFollowReasons
  <2>2. \A u \in Tabs, f \in Site!Sent' :
          v6'[u].reason # 0 /\ f.reason = v6'[u].reason => f.key = v6'[u].key /\ f.key # 0
    BY <1>3, <1>9, <1>11, <1>13 DEF Site!IInv, Site!KeysFollowReasons, Site!ReasonsAreDrawn
  <2> QED BY <2>1, <2>2 DEF Site!KeysFollowReasons
<1> QED BY <1>7, <1>8, <1>10, <1>12, <1>14 DEF Site!IInv

\* The requests that end and the steps of the server actions.
LEMMA EndsStep ==
    ASSUME Site!IInv, NEW t \in Tabs, Site!Answer(t) \/ Site!LoseAnswer(t)
    PROVE  Site!IInv'
<1>1. /\ Site!Busy(t) /\ v5' = [v5 EXCEPT ![t] = Site!Idle] /\ UNCHANGED <<v1, v2, v6, v7, v8>>
      /\ v3' \in [Tabs -> Site!States] /\ v4' \in [Tabs -> BOOLEAN]
  <2>1. Site!Busy(t) => v5[t].label \in Site!States /\ v5[t].ok \in BOOLEAN
    BY PressTypes DEF Site!IInv
  <2> QED BY <2>1 DEF Site!Answer, Site!LoseAnswer, Site!Busy, Site!IInv, Site!TypeOK
<1>2. /\ v5' \in [Tabs -> {Site!Idle} \cup
           [at : {"check", "write", "answer"}, label : Site!States, saw : Site!States \cup {Nothing},
            form : [reason : 0..MaxReasons, key : 0..MaxKeys], ok : BOOLEAN, here : BOOLEAN]]
      /\ \A u \in Tabs : Site!Busy(u)' => Site!Busy(u) /\ v5'[u] = v5[u]
      /\ Site!LabelsFit'
  BY <1>1, PressEnds DEF Site!IInv
<1>3. Site!Sent' \subseteq Site!Sent
  BY <1>1, <1>2, SentStays
<1>4. Site!ReasonsAreDrawn' /\ Site!FormsAreTyped' /\ Site!KeysFollowReasons'
  BY <1>1, <1>3, NothingSent DEF Site!IInv
<1> QED BY <1>1, <1>2, <1>4 DEF Site!IInv, Site!TypeOK

LEMMA ServerStep ==
    ASSUME Site!IInv, NEW t \in Tabs, Site!Check(t) \/ Site!Write(t) \/ Site!Fail(t)
    PROVE  Site!IInv'
<1>1. Site!Busy(t) /\ UNCHANGED <<v1, v3, v4, v6, v7>>
  BY DEF Site!Check, Site!Write, Site!Fail, Site!Busy
<1>2. /\ v2' \in Site!States /\ v8' \subseteq v8 \cup {v5[t].form}
      /\ v8' \subseteq [reason : 0..MaxReasons, key : 0..MaxKeys]
  <2>1. v5[t].label \in Site!States /\ v5[t].form \in [reason : 0..MaxReasons, key : 0..MaxKeys]
    BY <1>1, PressTypes DEF Site!IInv
  <2> QED BY <2>1 DEF Site!Check, Site!Write, Site!Fail, Site!IInv, Site!TypeOK
<1>3. PICK new \in [at : {"check", "write", "answer"}, label : Site!States, saw : Site!States \cup {Nothing},
                    form : [reason : 0..MaxReasons, key : 0..MaxKeys], ok : BOOLEAN, here : BOOLEAN] :
        /\ new.label = v5[t].label /\ new.form = v5[t].form
        /\ new.at = "write" => new.saw \in Site!Request(t).takes
        /\ v5' = [v5 EXCEPT ![t] = new]
  <2>1. v5[t] \in [at : {"check", "write", "answer"}, label : Site!States, saw : Site!States \cup {Nothing},
                   form : [reason : 0..MaxReasons, key : 0..MaxKeys], ok : BOOLEAN, here : BOOLEAN]
    BY <1>1, PressTypes DEF Site!IInv
  <2>2. v2 \in Site!States /\ v5 \in [Tabs -> {Site!Idle} \cup
             [at : {"check", "write", "answer"}, label : Site!States, saw : Site!States \cup {Nothing},
              form : [reason : 0..MaxReasons, key : 0..MaxKeys], ok : BOOLEAN, here : BOOLEAN]]
    BY DEF Site!IInv, Site!TypeOK
  <2>3. CASE v5' = [v5 EXCEPT ![t].at = "write", ![t].saw = v2] /\ v2 \in Site!Request(t).takes
    <3> DEFINE m == [[v5[t] EXCEPT !.at = "write"] EXCEPT !.saw = v2]
    <3>1. v5' = [v5 EXCEPT ![t] = m]
      BY <2>1, <2>2, <2>3
    <3>2. /\ m \in [at : {"check", "write", "answer"}, label : Site!States, saw : Site!States \cup {Nothing},
                     form : [reason : 0..MaxReasons, key : 0..MaxKeys], ok : BOOLEAN, here : BOOLEAN]
          /\ m.label = v5[t].label /\ m.form = v5[t].form /\ m.saw = v2
      BY <2>1, <2>2
    <3> QED BY <2>3, <3>1, <3>2
  <2>4. CASE v5' = [v5 EXCEPT ![t].at = "answer"]
    <3> DEFINE m == [v5[t] EXCEPT !.at = "answer"]
    <3>1. v5' = [v5 EXCEPT ![t] = m]
      BY <2>1, <2>2, <2>4
    <3>2. /\ m \in [at : {"check", "write", "answer"}, label : Site!States, saw : Site!States \cup {Nothing},
                     form : [reason : 0..MaxReasons, key : 0..MaxKeys], ok : BOOLEAN, here : BOOLEAN]
          /\ m.label = v5[t].label /\ m.form = v5[t].form /\ m.at = "answer"
      BY <2>1
    <3> QED BY <3>1, <3>2
  <2>5. ASSUME NEW ok \in BOOLEAN, v5' = [v5 EXCEPT ![t].at = "answer", ![t].ok = ok]
        PROVE  \E m \in [at : {"check", "write", "answer"}, label : Site!States, saw : Site!States \cup {Nothing},
                         form : [reason : 0..MaxReasons, key : 0..MaxKeys], ok : BOOLEAN, here : BOOLEAN] :
                 /\ m.label = v5[t].label /\ m.form = v5[t].form
                 /\ m.at = "write" => m.saw \in Site!Request(t).takes
                 /\ v5' = [v5 EXCEPT ![t] = m]
    <3> DEFINE m == [[v5[t] EXCEPT !.at = "answer"] EXCEPT !.ok = ok]
    <3>1. v5' = [v5 EXCEPT ![t] = m]
      BY <2>1, <2>2, <2>5
    <3>2. /\ m \in [at : {"check", "write", "answer"}, label : Site!States, saw : Site!States \cup {Nothing},
                     form : [reason : 0..MaxReasons, key : 0..MaxKeys], ok : BOOLEAN, here : BOOLEAN]
          /\ m.label = v5[t].label /\ m.form = v5[t].form /\ m.at = "answer"
      BY <2>1
    <3> QED BY <3>1, <3>2
  <2>6. CASE Site!Check(t)
    BY <2>3, <2>4, <2>6 DEF Site!Check
  <2>7. CASE Site!Write(t)
    <3>1. \E ok \in BOOLEAN : v5' = [v5 EXCEPT ![t].at = "answer", ![t].ok = ok]
      <4>1. PICK audited \in BOOLEAN :
               v5' = [v5 EXCEPT ![t].at = "answer",
                        ![t].ok = audited /\ ((v2 \in Site!Request(t).writes /\ ~ Site!Repeats(t)) \/ Site!Repeats(t))]
        BY <2>7 DEF Site!Write
      <4> DEFINE ok == audited /\ ((v2 \in Site!Request(t).writes /\ ~ Site!Repeats(t)) \/ Site!Repeats(t))
      <4>2. ok \in BOOLEAN
        OBVIOUS
      <4> QED BY <4>1, <4>2
    <3> QED BY <2>5, <3>1
  <2>8. CASE Site!Fail(t)
    BY <2>4, <2>8 DEF Site!Fail
  <2> QED BY <2>6, <2>7, <2>8
<1>4. /\ v5' \in [Tabs -> {Site!Idle} \cup
           [at : {"check", "write", "answer"}, label : Site!States, saw : Site!States \cup {Nothing},
            form : [reason : 0..MaxReasons, key : 0..MaxKeys], ok : BOOLEAN, here : BOOLEAN]]
      /\ \A u \in Tabs : (Site!Busy(u)' <=> Site!Busy(u)) /\ v5'[u].form = v5[u].form
      /\ Site!LabelsFit'
  BY <1>1, <1>3, PressGoesOn DEF Site!IInv
<1>5. Site!Sent' \subseteq Site!Sent
  BY <1>1, <1>2, <1>4, SentStays
<1>6. Site!ReasonsAreDrawn' /\ Site!FormsAreTyped' /\ Site!KeysFollowReasons'
  BY <1>1, <1>5, NothingSent DEF Site!IInv
<1> QED BY <1>1, <1>2, <1>4, <1>6 DEF Site!IInv, Site!TypeOK

LEMMA OtherStep ==
    ASSUME Site!IInv, Site!Other
    PROVE  Site!IInv'
<1>1. UNCHANGED <<v1, v3, v4, v5, v6, v7, v8>> /\ v2' \in Site!States
  BY DEF Site!Other, Site!Elsewhere, Site!States
<1> QED BY <1>1, FormsStay DEF Site!IInv, Site!TypeOK

LEMMA SiteStep ==
    ASSUME Site!IInv, [Site!Next]_(Site!vars)
    PROVE  Site!IInv'
<1>1. CASE UNCHANGED Site!vars
  BY <1>1, FormsStay DEF Site!IInv, Site!vars, Site!TypeOK
<1> QED
  BY <1>1, ReloadStep, RefreshStep, TypeReasonStep, PressStep, EndsStep, ServerStep, OtherStep DEF Site!Next

\* What a press does to the row.
LEMMA PressSafe ==
    ASSUME Site!IInv, [Site!Next]_(Site!vars), NEW t \in Tabs
    PROVE  Site!PressIsSafe(t)
<1> SUFFICES ASSUME v5[t] # Site!Idle, v5'[t] # v5[t], v2' # v2
             PROVE  /\ v2' = v5[t].label
                    /\ v2 \in Site!Settled => v1[t] = "invoice" /\ v5[t].saw = "PENDING"
                    /\ Site!It(t).keyed => \A r \in v8 : r.reason # v5[t].form.reason
  BY DEF Site!PressIsSafe
<1>1. \E u \in Tabs : Site!Write(u)
  BY DEF Site!Next, Site!vars, Site!Reload, Site!Refresh, Site!TypeReason, Site!Press, Site!Answer, Site!LoseAnswer,
         Site!Check, Site!Fail, Site!Other
<1>2. Site!Write(t)
  BY <1>1 DEF Site!Write, Site!IInv, Site!TypeOK
<1>3. /\ v5[t].at = "write" /\ v2 \in Site!Request(t).writes /\ ~ Site!Repeats(t) /\ v2' = v5[t].label
      /\ v1[t] \in Site!Pages
  BY <1>2 DEF Site!Write, Site!IInv, Site!TypeOK
<1>4. PICK s \in DOMAIN Site!Page[v1[t]].list : v5[t].label \in Site!Page[v1[t]].list[s]
  BY DEF Site!IInv, Site!LabelsFit, Site!Busy
<1>5. v5[t].saw \in Site!Request(t).takes
  BY <1>3 DEF Site!IInv, Site!LabelsFit, Site!Busy
<1>6. v2 \in Site!Settled => v1[t] = "invoice" /\ v5[t].saw = "PENDING"
  BY <1>3, <1>4, <1>5, PageFacts DEF Site!Request
<1>7. Site!It(t).keyed => \A r \in v8 : r.reason # v5[t].form.reason
  <2> SUFFICES ASSUME Site!It(t).keyed, NEW r \in v8, r.reason = v5[t].form.reason PROVE FALSE
    OBVIOUS
  <2>1. v5[t].form \in Site!Sent /\ r \in Site!Sent
    BY DEF Site!Sent, Site!Busy
  <2>2. r.key = v5[t].form.key
    BY <2>1 DEF Site!IInv, Site!KeysFollowReasons
  <2>3. r \in [reason : 0..MaxReasons, key : 0..MaxKeys] /\ v5[t].form \in [reason : 0..MaxReasons, key : 0..MaxKeys]
    BY PressTypes DEF Site!IInv, Site!TypeOK, Site!Busy
  <2>4. r = v5[t].form
    BY <2>2, <2>3
  <2> QED BY <1>3, <2>4 DEF Site!Repeats
<1> QED BY <1>3, <1>6, <1>7

LEMMA SiteSafe ==
    /\ FrontSpec => [](focus = "pages" => Site!IInv)
    /\ FrontSpec => PressesAreSafe
<1> DEFINE Inv == focus = "pages" => Site!IInv
<1>1. FrontInit => Inv
  <2> SUFFICES ASSUME Site!Init PROVE Site!IInv
    BY DEF FrontInit
  <2>1. PICK r \in Site!Rows : v1 \in [Tabs -> r] /\ v2 = Site!Starts(CHOOSE p \in r : TRUE)
    BY DEF Site!Init
  <2>2. r \subseteq Site!Pages /\ r # {}
    BY DEF Site!Rows, Site!Pages, Site!Page
  <2>3. v1 \in [Tabs -> Site!Pages]
    BY <2>1, <2>2
  <2>4. v2 \in Site!States
    <3>1. \A p \in Site!Pages : Site!Starts(p) \in Site!States
      BY DEF Site!Pages, Site!Page, Site!Starts, Site!States
    <3> QED BY <2>1, <2>2, <3>1
  <2>5. Site!TypeOK
    BY <2>3, <2>4, DrawsOK DEF Site!Init, Site!TypeOK, Site!EmptyForm
  <2>6. Site!Sent = {} /\ Site!LabelsFit
    BY DEF Site!Init, Site!Sent, Site!Busy, Site!LabelsFit
  <2>7. Site!ReasonsAreDrawn /\ Site!FormsAreTyped /\ Site!KeysFollowReasons
    BY <2>6 DEF Site!Init, Site!EmptyForm, Site!ReasonsAreDrawn, Site!FormsAreTyped, Site!KeysFollowReasons
  <2> QED BY <2>5, <2>6, <2>7 DEF Site!IInv
<1>2. Inv /\ [FrontNext]_frontVars => Inv' /\ [focus = "pages" => \A t \in Tabs : Site!PressIsSafe(t)]_frontVars
  <2> SUFFICES ASSUME Inv, [FrontNext]_frontVars
               PROVE  Inv' /\ [focus = "pages" => \A t \in Tabs : Site!PressIsSafe(t)]_frontVars
    OBVIOUS
  <2>1. focus' = focus
    BY DEF FrontNext, frontVars
  <2>2. focus = "pages" => [Site!Next]_(Site!vars)
    BY DEF FrontNext, frontVars, Site!vars, five, two
  <2> QED BY <2>1, <2>2, SiteStep, PressSafe
<1> QED BY <1>1, <1>2, PTL DEF FrontSpec, PressesAreSafe

\* The buttons of the dashboard: a press from a page of whatever age does what the
\* button said or nothing, undoes nothing settled, and starts no second replay.
THEOREM PressesDoWhatTheySaid == FrontSpec => PressesAreSafe
BY SiteSafe

-----------------------------------------------------------------------------
(* LedgerExport: v1 ledger, v2 step, v3 snapshot, v4 collected, v5 rows,    *)
(* v6 page, v7 cursor.                                                      *)

LEMMA ExportTypes ==
    ASSUME Export!TypeOK
    PROVE  /\ v1 \in [Places -> Export!States] /\ v3 \in [Places -> Export!States]
           /\ v2 \in {"idle", "read", "rows", "stored"}
           /\ v4 \in Seq(Export!Entries) /\ v5 \in Seq(Export!Entries) /\ v6 \in Seq(Export!Entries)
           /\ v7 \in 0..Export!End
  BY DEF Export!TypeOK, Export!Ledgers, Export!Start

LEMMA ExportTyped ==
    ASSUME v1 \in [Places -> Export!States], v3 \in [Places -> Export!States],
           v2 \in {"idle", "read", "rows", "stored"},
           v4 \in Seq(Export!Entries), v5 \in Seq(Export!Entries), v6 \in Seq(Export!Entries),
           v7 \in 0..Export!End
    PROVE  Export!TypeOK
  BY DEF Export!TypeOK, Export!Ledgers, Export!Start

LEMMA EntriesHavePlaces ==
    ASSUME NEW read \in Seq(Export!Entries)
    PROVE  \A i \in 1..Len(read) :
             /\ read[i] \in Export!Entries
             /\ read[i].place \in Places /\ read[i].place \in Nat
<1> SUFFICES ASSUME NEW i \in 1..Len(read)
             PROVE  /\ read[i] \in Export!Entries
                    /\ read[i].place \in Places /\ read[i].place \in Nat
  OBVIOUS
<1>1. read[i] \in Export!Entries
  BY ElementOfSeq
<1>2. read[i].place \in Places
  BY <1>1 DEF Export!Entries
<1>3. read[i].place \in Nat
  BY <1>2, PlacesOK
<1> QED BY <1>1, <1>2, <1>3

\* What is read comes in order, so the last is the latest.
LEMMA LastIsLatest ==
    ASSUME v4 \in Seq(Export!Entries), Export!Ascending(v4)
    PROVE  /\ Export!LastRead \in Nat
           /\ \A i \in 1..Len(v4) : v4[i].place \in Places /\ v4[i].place <= Export!LastRead
           /\ v4 = <<>> => Export!LastRead = 0
           /\ v4 # <<>> => Export!LastRead = v4[Len(v4)].place /\ Len(v4) \in 1..Len(v4)
<1>1. \A i \in 1..Len(v4) : v4[i].place \in Places /\ v4[i].place \in Nat
  BY EntriesHavePlaces
<1>2. Len(v4) \in Nat /\ (v4 # <<>> => Len(v4) > 0)
  BY LenProperties, EmptySeq
<1>3. v4 # <<>> => Export!LastRead = v4[Len(v4)].place /\ Len(v4) \in 1..Len(v4)
  BY <1>2 DEF Export!LastRead, Export!Last
<1>4. v4 = <<>> => Export!LastRead = 0 /\ Len(v4) = 0
  BY EmptySeq DEF Export!LastRead
<1>5. \A i \in 1..Len(v4) : v4[i].place <= Export!LastRead
  <2> SUFFICES ASSUME NEW i \in 1..Len(v4) PROVE v4[i].place <= Export!LastRead
    OBVIOUS
  <2>1. v4 # <<>> /\ Export!LastRead = v4[Len(v4)].place /\ Len(v4) \in 1..Len(v4)
    BY <1>2, <1>3, <1>4
  <2>2. CASE i = Len(v4)
    BY <2>1, <2>2, <1>1
  <2>3. CASE i < Len(v4)
    BY <2>1, <2>3, <1>1, <1>2 DEF Export!Ascending
  <2> QED BY <2>2, <2>3, <1>2
<1> QED BY <1>1, <1>3, <1>4, <1>5

\* A batch goes on where the last ended, and leaves out nothing up to its own.
LEMMA BatchStep ==
    ASSUME Export!IInv, Export!ReadBatch
    PROVE  Export!IInv'
<1>0. v2 = "read" /\ UNCHANGED <<v1, v3, v5, v6, v7>>
  BY DEF Export!ReadBatch
<1>1. PICK batch \in Export!BoundedSeq(Export!Entries, BatchSize) :
        /\ Export!Batch(batch)
        /\ v4' = v4 \o batch
        /\ v2' = IF Len(batch) < BatchSize THEN "rows" ELSE "read"
  BY DEF Export!ReadBatch
<1>2. batch \in Seq(Export!Entries)
  <2>1. PICK m \in 0..BatchSize : batch \in [1..m -> Export!Entries]
    BY DEF Export!BoundedSeq, Export!SeqOf
  <2> QED BY <2>1, PagingOK
<1>3. /\ v4 \in Seq(Export!Entries) /\ Export!Ascending(v4)
      /\ \A i \in 1..Len(v4) : v4[i].state = v3[v4[i].place]
      /\ {p \in Export!Events(v3) : p <= Export!LastRead} \subseteq Export!PlacesOf(v4)
      /\ v5 = <<>> /\ v7 = 0 /\ v6 = SubSeq(v5, 1, v7)
  BY <1>0, ExportTypes, PlacesOK DEF Export!IInv, Export!CollectedStands, Export!PageStands, Export!Start
<1>4. /\ v4' \in Seq(Export!Entries)
      /\ Len(v4') = Len(v4) + Len(batch)
      /\ \A i \in 1..Len(v4') : v4'[i] = IF i <= Len(v4) THEN v4[i] ELSE batch[i - Len(v4)]
      /\ Len(v4) \in Nat /\ Len(batch) \in Nat
  BY <1>1, <1>2, <1>3, ConcatProperties, LenProperties
<1>5. /\ Export!Ascending(batch)
      /\ \A i \in 1..Len(batch) : batch[i].state = v3[batch[i].place]
      /\ \A i \in 1..Len(batch) :
           /\ batch[i].place \in Places /\ batch[i].place \in Nat
           /\ batch[i].place \in Export!Events(v3) /\ batch[i].place > Export!LastRead
      /\ Len(batch) < BatchSize => \A p \in Export!Events(v3) : p > Export!LastRead => p \in Export!PlacesOf(batch)
      /\ \A p \in Export!Events(v3) : p > Export!LastRead =>
           p \in Export!PlacesOf(batch) \/ \A i \in 1..Len(batch) : batch[i].place < p
  <2>1. \A i \in 1..Len(batch) : batch[i].place \in Places /\ batch[i].place \in Nat
    BY <1>2, EntriesHavePlaces
  <2> DEFINE rest == {p \in Export!Events(v3) : p > Export!LastRead}
  <2>2. /\ Export!Ascending(batch)
        /\ \A i \in 1..Len(batch) : batch[i].state = v3[batch[i].place]
        /\ Export!PlacesOf(batch) \subseteq rest
        /\ Len(batch) = BatchSize \/ Export!PlacesOf(batch) = rest
        /\ \A p \in Export!PlacesOf(batch), q \in rest \ Export!PlacesOf(batch) : p < q
    BY <1>1 DEF Export!Batch, Export!Visible
  <2>3. \A i \in 1..Len(batch) : batch[i].place \in Export!PlacesOf(batch)
    BY DEF Export!PlacesOf
  <2>4. \A i \in 1..Len(batch) : batch[i].place \in rest
    BY <2>2, <2>3
  <2>5. Len(batch) < BatchSize => rest \subseteq Export!PlacesOf(batch)
    <3>1. Len(batch) \in Nat
      BY <1>2, LenProperties
    <3> QED BY <2>2, <3>1, PagingOK
  <2>6. \A p \in rest : p \in Export!PlacesOf(batch) \/ \A i \in 1..Len(batch) : batch[i].place < p
    BY <2>2, <2>3
  <2> QED BY <2>1, <2>2, <2>4, <2>5, <2>6
<1>6. \A i \in 1..Len(v4) : v4[i].place \in Nat /\ v4[i].place <= Export!LastRead
  BY <1>3, LastIsLatest, PlacesOK
<1>7. Export!LastRead \in Nat
  BY <1>3, LastIsLatest
<1>8. Export!Ascending(v4')
  <2> SUFFICES ASSUME NEW i \in 1..Len(v4'), NEW j \in 1..Len(v4'), i < j
               PROVE  v4'[i].place < v4'[j].place
    BY DEF Export!Ascending
  <2>1. CASE j <= Len(v4)
    BY <2>1, <1>3, <1>4 DEF Export!Ascending
  <2>2. CASE i <= Len(v4) /\ j > Len(v4)
    <3>1. i \in 1..Len(v4) /\ j - Len(v4) \in 1..Len(batch)
      BY <2>2, <1>4
    <3>2. v4'[i] = v4[i] /\ v4'[j] = batch[j - Len(v4)]
      BY <2>2, <1>4
    <3>3. v4[i].place \in Nat /\ v4[i].place <= Export!LastRead
      BY <3>1, <1>6
    <3>4. batch[j - Len(v4)].place \in Nat /\ batch[j - Len(v4)].place > Export!LastRead
      BY <3>1, <1>5
    <3> QED BY <3>2, <3>3, <3>4, <1>7
  <2>3. CASE i > Len(v4)
    <3>1. i - Len(v4) \in 1..Len(batch) /\ j - Len(v4) \in 1..Len(batch) /\ i - Len(v4) < j - Len(v4)
      BY <2>3, <1>4
    <3>2. v4'[i] = batch[i - Len(v4)] /\ v4'[j] = batch[j - Len(v4)]
      BY <2>3, <1>4
    <3>3. \A h, k \in 1..Len(batch) : h < k => batch[h].place < batch[k].place
      BY <1>5 DEF Export!Ascending
    <3> HIDE <1>4, <1>5
    <3>4. batch[i - Len(v4)].place < batch[j - Len(v4)].place
      BY <3>1, <3>3
    <3> QED BY <3>2, <3>4
  <2> QED BY <2>1, <2>2, <2>3, <1>4
<1>9. \A i \in 1..Len(v4') : v4'[i].state = v3[v4'[i].place]
  <2> SUFFICES ASSUME NEW i \in 1..Len(v4') PROVE v4'[i].state = v3[v4'[i].place]
    OBVIOUS
  <2>1. CASE i <= Len(v4)
    <3>1. i \in 1..Len(v4) /\ v4'[i] = v4[i]
      BY <2>1, <1>4
    <3> QED BY <3>1, <1>3
  <2>2. CASE i > Len(v4)
    <3>1. i - Len(v4) \in 1..Len(batch) /\ v4'[i] = batch[i - Len(v4)]
      BY <2>2, <1>4
    <3> QED BY <3>1, <1>5
  <2> QED BY <2>1, <2>2, <1>4
<1>10. Export!PlacesOf(v4) \cup Export!PlacesOf(batch) \subseteq Export!PlacesOf(v4')
  <2>1. \A i \in 1..Len(v4) : i \in 1..Len(v4') /\ v4'[i] = v4[i]
    BY <1>4
  <2>2. \A i \in 1..Len(batch) : Len(v4) + i \in 1..Len(v4') /\ v4'[Len(v4) + i] = batch[i]
    BY <1>4
  <2> QED BY <2>1, <2>2 DEF Export!PlacesOf
<1>11. {p \in Export!Events(v3) : p <= Export!LastRead'} \subseteq Export!PlacesOf(v4')
  <2> SUFFICES ASSUME NEW p \in Export!Events(v3), p <= Export!LastRead', p \notin Export!PlacesOf(v4')
               PROVE  FALSE
    OBVIOUS
  <2>1. p \in Nat
    BY PlacesOK DEF Export!Events
  <2>2. ~ (p <= Export!LastRead)
    BY <1>3, <1>10
  <2>3. \A i \in 1..Len(batch) : batch[i].place < p
    BY <2>1, <2>2, <1>5, <1>7, <1>10
  <2>4. CASE Len(batch) = 0
    <3>1. batch = <<>>
      BY <2>4, <1>2, EmptySeq
    <3>2. v4' = v4
      BY <3>1, <1>1, <1>3, ConcatEmptySeq
    <3>3. Export!LastRead' = Export!LastRead
      BY <3>2 DEF Export!LastRead
    <3> QED BY <3>3, <2>2
  <2>5. CASE Len(batch) > 0
    <3>1. Len(v4') > 0 /\ v4' # <<>>
      BY <2>5, <1>4, EmptySeq
    <3>2. Export!LastRead' = v4'[Len(v4')].place
      BY <3>1 DEF Export!LastRead, Export!Last
    <3>3. v4'[Len(v4')] = batch[Len(batch)] /\ Len(batch) \in 1..Len(batch)
      BY <2>5, <1>4
    <3> QED BY <2>1, <2>3, <3>2, <3>3, <1>5
  <2> QED BY <2>4, <2>5, <1>4
<1>12. v2' = "rows" => Export!Events(v3) \subseteq Export!PlacesOf(v4')
  <2> SUFFICES ASSUME v2' = "rows", NEW p \in Export!Events(v3) PROVE p \in Export!PlacesOf(v4')
    OBVIOUS
  <2>1. Len(batch) < BatchSize
    BY <1>1
  <2>2. p \in Nat
    BY PlacesOK DEF Export!Events
  <2>3. CASE p <= Export!LastRead
    BY <2>3, <1>3, <1>10
  <2>4. CASE p > Export!LastRead
    BY <2>1, <2>4, <1>5, <1>10
  <2> QED BY <2>2, <2>3, <2>4, <1>7
<1>13. v2' \in {"rows", "read"}
  BY <1>1
<1>14. Export!TypeOK'
  <2>1. Export!TypeOK
    BY DEF Export!IInv
  <2> QED BY <2>1, <1>0, <1>4, <1>13 DEF Export!TypeOK
<1>15. Export!CollectedStands'
  BY <1>0, <1>8, <1>9, <1>11, <1>12, <1>13 DEF Export!CollectedStands
<1>16. Export!PageStands'
  BY <1>0, <1>3, <1>13 DEF Export!IInv, Export!PageStands
<1> QED BY <1>14, <1>15, <1>16 DEF Export!IInv

\* The rows are as many as there are places at most, so that no cursor is
\* taken for the end.
LEMMA RowsFit ==
    ASSUME v5 \in Seq(Export!Entries), Export!Ascending(v5)
    PROVE  Len(v5) < Export!End
<1> DEFINE place == [i \in 1..Len(v5) |-> v5[i].place]
<1>1. Len(v5) \in Nat
  BY LenProperties
<1>2. \A i \in 1..Len(v5) : v5[i].place \in Places /\ v5[i].place \in Nat
  BY EntriesHavePlaces
<1>3. place \in Injection(1..Len(v5), Places)
  <2>1. place \in [1..Len(v5) -> Places]
    BY <1>2
  <2>2. \A i, j \in 1..Len(v5) : place[i] = place[j] => i = j
    BY <1>1, <1>2 DEF Export!Ascending
  <2> QED BY <2>1, <2>2 DEF Injection, IsInjective
<1>4. IsFiniteSet(Places) /\ Cardinality(Places) = Export!End - 1
  BY PlacesOK, FS_Interval
<1>5. IsFiniteSet(1..Len(v5)) /\ Cardinality(1..Len(v5)) = Len(v5)
  BY <1>1, FS_Interval
<1>6. Cardinality(1..Len(v5)) <= Cardinality(Places)
  BY <1>3, <1>4, <1>5, FS_Injection
<1> QED BY <1>1, <1>4, <1>5, <1>6, PlacesOK

\* A page goes on where the last ended.
LEMMA PageStep ==
    ASSUME Export!IInv, Export!GetPage
    PROVE  Export!IInv'
<1>0. v2 = "stored" /\ v7 # Export!End /\ UNCHANGED <<v1, v2, v3, v4, v5>>
  BY DEF Export!GetPage
<1>1. /\ v5 \in Seq(Export!Entries) /\ v6 \in Seq(Export!Entries) /\ v7 \in 0..Export!End
      /\ v5 = v4 /\ v7 <= Len(v5) /\ v6 = SubSeq(v5, 1, v7) /\ Export!Ascending(v5)
      /\ Export!TypeOK /\ Export!CollectedStands
  BY <1>0, ExportTypes DEF Export!IInv, Export!PageStands, Export!CollectedStands
<1>2. Len(v5) \in Nat /\ Len(v5) < Export!End
  BY <1>1, RowsFit, LenProperties
<1> DEFINE found == SubSeq(v5, v7 + 1, Len(v5))
<1>3. /\ found \in Seq(Export!Entries)
      /\ Len(found) = Len(v5) - v7
      /\ \A i \in 1..Len(found) : found[i] = v5[v7 + i]
  <2>1. \A i \in (v7 + 1)..Len(v5) : v5[i] \in Export!Entries
    BY <1>1, ElementOfSeq
  <2>2. /\ found \in Seq(Export!Entries)
        /\ Len(found) = IF v7 + 1 <= Len(v5) THEN Len(v5) - (v7 + 1) + 1 ELSE 0
        /\ \A i \in 1..(Len(v5) - (v7 + 1) + 1) : found[i] = v5[(v7 + 1) + i - 1]
    BY <2>1, <1>1, <1>2, PlacesOK, SubSeqProperties
  <2>3. v7 \in Nat /\ v7 <= Len(v5) /\ Len(v5) \in Nat
    BY <1>1, <1>2, PlacesOK
  <2> HIDE DEF found
  <2> HIDE <1>1, <1>2
  <2>4. Len(found) = Len(v5) - v7
    BY <2>2, <2>3
  <2>5. ASSUME NEW i \in 1..Len(found) PROVE found[i] = v5[v7 + i]
    <3>1. i \in 1..(Len(v5) - (v7 + 1) + 1) /\ (v7 + 1) + i - 1 = v7 + i
      BY <2>3, <2>4
    <3> QED BY <2>2, <3>1
  <2> QED BY <2>2, <2>4, <2>5
<1>4. v6' = v6 \o (IF Len(found) > PageSize THEN SubSeq(found, 1, PageSize) ELSE found)
  BY DEF Export!GetPage, Export!After
<1>5. v7' = IF Len(found) > PageSize THEN v7 + PageSize ELSE Export!End
  BY DEF Export!GetPage, Export!After
<1>6. CASE Len(found) > PageSize
  <2>1. /\ v7' = v7 + PageSize /\ v7' \in 0..Export!End /\ v7' # Export!End /\ v7' <= Len(v5)
    BY <1>6, <1>5, <1>3, <1>2, <1>1, PagingOK, PlacesOK
  <2>2. SubSeq(found, 1, PageSize) = SubSeq(v5, v7 + 1, v7 + PageSize)
    <3>0. \A i \in 1..PageSize : found[i] \in Export!Entries /\ i \in 1..Len(found)
      <4> HIDE DEF found
      <4>1. Len(found) \in Nat
        BY <1>3, LenProperties
      <4>2. \A i \in 1..PageSize : i \in 1..Len(found)
        BY <4>1, <1>6, PagingOK
      <4>3. \A i \in 1..Len(found) : found[i] \in Export!Entries
        BY <1>3, EntriesHavePlaces
      <4> QED BY <4>2, <4>3
    <3>1. /\ SubSeq(found, 1, PageSize) \in Seq(Export!Entries)
          /\ Len(SubSeq(found, 1, PageSize)) = IF 1 <= PageSize THEN PageSize - 1 + 1 ELSE 0
          /\ \A i \in 1..(PageSize - 1 + 1) : SubSeq(found, 1, PageSize)[i] = found[1 + i - 1]
      <4> HIDE DEF found
      <4> QED BY <3>0, PagingOK, SubSeqProperties
    <3>2. \A i \in (v7 + 1)..(v7 + PageSize) : v5[i] \in Export!Entries
      BY <1>1, <1>2, <2>1, PlacesOK, ElementOfSeq
    <3>3. /\ SubSeq(v5, v7 + 1, v7 + PageSize) \in Seq(Export!Entries)
          /\ Len(SubSeq(v5, v7 + 1, v7 + PageSize)) =
               IF v7 + 1 <= v7 + PageSize THEN (v7 + PageSize) - (v7 + 1) + 1 ELSE 0
          /\ \A i \in 1..((v7 + PageSize) - (v7 + 1) + 1) :
               SubSeq(v5, v7 + 1, v7 + PageSize)[i] = v5[(v7 + 1) + i - 1]
      BY <3>2, <1>1, <2>1, PagingOK, PlacesOK, SubSeqProperties
    <3> DEFINE a == SubSeq(found, 1, PageSize)
               b == SubSeq(v5, v7 + 1, v7 + PageSize)
    <3>4. a \in Seq(Export!Entries) /\ Len(a) = PageSize /\ \A i \in 1..PageSize : a[i] = found[i]
      <4> HIDE DEF found
      <4> QED BY <3>1, PagingOK
    <3>5. b \in Seq(Export!Entries) /\ Len(b) = PageSize /\ \A i \in 1..PageSize : b[i] = v5[v7 + i]
      <4>1. (v7 + PageSize) - (v7 + 1) + 1 = PageSize
        BY <1>1, PagingOK, PlacesOK
      <4>2. \A i \in 1..PageSize : (v7 + 1) + i - 1 = v7 + i
        BY <1>1, PagingOK, PlacesOK
      <4>3. (v7 + 1 <= v7 + PageSize) <=> PageSize # 0
        BY <1>1, PagingOK, PlacesOK
      <4> QED BY <3>3, <4>1, <4>2, <4>3, PagingOK
    <3> HIDE DEF a, b
    <3>6. \A i \in 1..PageSize : a[i] = b[i]
      <4> HIDE DEF found
      <4> QED BY <3>0, <3>4, <3>5, <1>3
    <3>7. a = b
      BY <3>4, <3>5, <3>6, SeqEqual
    <3> QED BY <3>7 DEF a, b
  <2>3. v6' = SubSeq(v5, 1, v7) \o SubSeq(v5, v7 + 1, v7 + PageSize)
    BY <1>6, <1>4, <1>1, <2>2
  <2>4. SubSeq(v5, 1, v7) \o SubSeq(v5, v7 + 1, v7 + PageSize) = SubSeq(v5, 1, v7 + PageSize)
    <3>1. /\ 1 \in 1..(Len(v5) + 1) /\ v7 \in (1 - 1)..Len(v5) /\ v7 + PageSize \in v7..Len(v5)
      BY <1>1, <1>2, <2>1, PagingOK, PlacesOK
    <3> QED BY <3>1, <1>1, ConcatAdjacentSubSeq
  <2>5. v6' = SubSeq(v5, 1, v7')
    BY <2>1, <2>3, <2>4
  <2>6. v6' \in Seq(Export!Entries)
    <3>1. \A i \in 1..v7' : v5[i] \in Export!Entries
      BY <1>1, <1>2, <2>1, PlacesOK, ElementOfSeq
    <3> QED BY <3>1, <2>1, <2>5, PlacesOK, SubSeqProperties
  <2>7. Export!TypeOK'
    BY <1>0, <1>1, <2>1, <2>6 DEF Export!TypeOK, Export!Start
  <2>8. Export!CollectedStands'
    BY <1>0, <1>1 DEF Export!CollectedStands, Export!LastRead
  <2>9. Export!PageStands'
    BY <1>0, <1>1, <2>1, <2>5 DEF Export!PageStands
  <2> QED BY <2>7, <2>8, <2>9 DEF Export!IInv
<1>7. CASE ~(Len(found) > PageSize)
  <2>1. v7' = Export!End
    BY <1>7, <1>5
  <2>2. v6' = SubSeq(v5, 1, v7) \o SubSeq(v5, v7 + 1, Len(v5))
    BY <1>7, <1>4, <1>1
  <2>3. SubSeq(v5, 1, v7) \o SubSeq(v5, v7 + 1, Len(v5)) = SubSeq(v5, 1, Len(v5))
    <3>1. /\ 1 \in 1..(Len(v5) + 1) /\ v7 \in (1 - 1)..Len(v5) /\ Len(v5) \in v7..Len(v5)
      BY <1>1, <1>2, PlacesOK
    <3> QED BY <3>1, <1>1, ConcatAdjacentSubSeq
  <2>4. v6' = v5
    BY <2>2, <2>3, <1>1, SubSeqFull
  <2>5. Export!TypeOK'
    BY <1>0, <1>1, <2>1, <2>4, PlacesOK DEF Export!TypeOK, Export!Start
  <2>6. Export!CollectedStands'
    BY <1>0, <1>1 DEF Export!CollectedStands, Export!LastRead
  <2>7. Export!PageStands'
    BY <1>0, <1>1, <2>1, <2>4 DEF Export!PageStands
  <2> QED BY <2>5, <2>6, <2>7 DEF Export!IInv
<1> QED BY <1>6, <1>7

LEMMA ExportStep ==
    ASSUME Export!IInv, [Export!Next]_(Export!vars)
    PROVE  Export!IInv'
<1>0. /\ Export!TypeOK /\ Export!CollectedStands /\ Export!PageStands
      /\ v1 \in [Places -> Export!States] /\ v3 \in [Places -> Export!States]
      /\ v2 \in {"idle", "read", "rows", "stored"}
      /\ v4 \in Seq(Export!Entries) /\ v5 \in Seq(Export!Entries) /\ v6 \in Seq(Export!Entries)
      /\ v7 \in 0..Export!End
  BY ExportTypes DEF Export!IInv
<1>1. ASSUME NEW p \in Places, Export!Accept(p) \/ Export!Process(p) \/ Export!Reopen(p)
      PROVE Export!IInv'
  <2>1. UNCHANGED <<v2, v3, v4, v5, v6, v7>>
    BY <1>1 DEF Export!Accept, Export!Process, Export!Reopen
  <2>2. v1' \in [Places -> Export!States]
    BY <1>0, <1>1 DEF Export!Accept, Export!Process, Export!Reopen, Export!States
  <2>3. Export!TypeOK'
    BY <1>0, <2>1, <2>2 DEF Export!TypeOK, Export!Ledgers
  <2>4. Export!CollectedStands' /\ Export!PageStands'
    BY <1>0, <2>1 DEF Export!CollectedStands, Export!PageStands, Export!LastRead
  <2> QED BY <2>3, <2>4 DEF Export!IInv
<1>2. CASE Export!Begin
  <2>1. v2 = "idle" /\ v2' = "read" /\ v3' = v1 /\ UNCHANGED <<v1, v4, v5, v6, v7>>
    BY <1>2 DEF Export!Begin
  <2>2. v4 = <<>> /\ Len(v4) = 0
    BY <1>0, <2>1, EmptySeq DEF Export!CollectedStands
  <2>3. Export!TypeOK'
    BY <1>0, <2>1 DEF Export!TypeOK, Export!Ledgers
  <2>4. {p \in Export!Events(v1) : p <= 0} = {}
    BY PlacesOK DEF Export!Events
  <2>5. Export!LastRead' = 0
    BY <2>1, <2>2 DEF Export!LastRead
  <2>6. Export!CollectedStands'
    BY <2>1, <2>2, <2>4, <2>5 DEF Export!CollectedStands, Export!Ascending
  <2>7. Export!PageStands'
    BY <1>0, <2>1 DEF Export!PageStands
  <2> QED BY <2>3, <2>6, <2>7 DEF Export!IInv
<1>3. CASE Export!ReadBatch
  BY <1>3, BatchStep
<1>4. CASE Export!Store
  <2>1. v2 = "rows" /\ v2' = "stored" /\ v5' = v4 /\ UNCHANGED <<v1, v3, v4, v6, v7>>
    BY <1>4 DEF Export!Store
  <2>2. v5 = <<>> /\ v7 = 0 /\ v7 # Export!End /\ v6 = SubSeq(v5, 1, 0)
    BY <1>0, <2>1, PlacesOK DEF Export!PageStands, Export!Start
  <2>3. v6 = SubSeq(v4, 1, 0) /\ Len(v4) \in Nat
    BY <1>0, <2>2, SubSeqEmpty, LenProperties
  <2>4. Export!TypeOK'
    BY <1>0, <2>1 DEF Export!TypeOK
  <2>5. Export!CollectedStands'
    BY <1>0, <2>1 DEF Export!CollectedStands, Export!LastRead
  <2>6. Export!PageStands'
    BY <2>1, <2>2, <2>3 DEF Export!PageStands
  <2> QED BY <2>4, <2>5, <2>6 DEF Export!IInv
<1>5. CASE Export!ExportFails
  <2>1. v2 \in {"read", "rows"} /\ v2' = "idle" /\ v4' = <<>> /\ v3' = Export!Empty /\ UNCHANGED <<v1, v5, v6, v7>>
    BY <1>5 DEF Export!ExportFails
  <2>2. v3' \in [Places -> Export!States] /\ v4' \in Seq(Export!Entries) /\ Len(v4') = 0
    BY <2>1, EmptySeq DEF Export!Empty, Export!States
  <2>3. Export!TypeOK'
    BY <1>0, <2>1, <2>2 DEF Export!TypeOK, Export!Ledgers
  <2>4. Export!CollectedStands'
    <3>1. Export!Events(v3') = {}
      BY <2>1 DEF Export!Events, Export!Empty
    <3> QED BY <2>1, <2>2, <3>1 DEF Export!CollectedStands, Export!Ascending
  <2>5. Export!PageStands'
    BY <1>0, <2>1 DEF Export!PageStands
  <2> QED BY <2>3, <2>4, <2>5 DEF Export!IInv
<1>6. CASE Export!GetPage
  BY <1>6, PageStep
<1>7. CASE UNCHANGED Export!vars
  <2>1. UNCHANGED <<v1, v2, v3, v4, v5, v6, v7>>
    BY <1>7 DEF Export!vars
  <2> QED BY <1>0, <2>1 DEF Export!IInv, Export!TypeOK, Export!CollectedStands, Export!PageStands, Export!LastRead
<1> QED BY <1>1, <1>2, <1>3, <1>4, <1>5, <1>6, <1>7 DEF Export!Next

LEMMA ExportInvariant == FrontSpec => [](focus = "export" => Export!IInv)
<1> DEFINE Inv == focus = "export" => Export!IInv
<1>1. FrontInit => Inv
  <2> SUFFICES ASSUME Export!Init PROVE Export!IInv
    BY DEF FrontInit
  <2>1. /\ v1 = Export!Empty /\ v3 = Export!Empty /\ v2 = "idle"
        /\ v4 = <<>> /\ v5 = <<>> /\ v6 = <<>> /\ v7 = 0
    BY DEF Export!Init, Export!Start
  <2>2. v1 \in [Places -> Export!States] /\ v3 \in [Places -> Export!States] /\ Export!Events(v3) = {}
    BY <2>1 DEF Export!Empty, Export!States, Export!Events
  <2>3. <<>> \in Seq(Export!Entries) /\ Len(<<>>) = 0
    BY EmptySeq
  <2>4. Export!TypeOK
    BY <2>1, <2>2, <2>3, PlacesOK DEF Export!TypeOK, Export!Ledgers, Export!Start
  <2>5. Export!CollectedStands
    BY <2>1, <2>2, <2>3 DEF Export!CollectedStands, Export!Ascending
  <2>6. SubSeq(<<>>, 1, 0) = <<>>
    BY SubSeqEmpty
  <2>7. Export!PageStands
    BY <2>1, <2>3, <2>6, PlacesOK DEF Export!PageStands, Export!Start
  <2> QED BY <2>4, <2>5, <2>7 DEF Export!IInv
<1>2. Inv /\ [FrontNext]_frontVars => Inv'
  <2> SUFFICES ASSUME Inv, [FrontNext]_frontVars, focus' = "export" PROVE Export!IInv'
    OBVIOUS
  <2>1. focus = "export" /\ [Export!Next]_(Export!vars)
    BY DEF FrontNext, frontVars, Export!vars, five, two
  <2> QED BY <2>1, ExportStep
<1> QED BY <1>1, <1>2, PTL DEF FrontSpec

\* lib/ledgerExport.ts: the rows, and the pages a client puts together, are the
\* events of the instant the export began, once each and in order, for every
\* number of events and every size of batches and pages.
THEOREM ExportsAreTheSnapshot == FrontSpec => []PagesAreTheSnapshot
<1>1. (focus = "export" => Export!IInv) => PagesAreTheSnapshot
  <2> SUFFICES ASSUME Export!IInv PROVE Export!PagesAreTheSnapshot
    BY DEF PagesAreTheSnapshot
  <2>0. /\ v4 \in Seq(Export!Entries) /\ v5 \in Seq(Export!Entries) /\ v6 \in Seq(Export!Entries)
        /\ v7 \in 0..Export!End /\ Len(v5) \in Nat
        /\ v3 \in [Places -> Export!States]
    BY ExportTypes, LenProperties DEF Export!IInv
  <2>1. v7 = Export!End => v6 = v5
    BY DEF Export!IInv, Export!PageStands
  <2>2. Export!IsPrefix(v6, v5)
    <3>1. CASE v7 = Export!End
      <4>1. v6 = v5
        BY <2>1, <3>1
      <4> QED BY <4>1, <2>0 DEF Export!IsPrefix
    <3>2. CASE v7 # Export!End
      <4>1. v7 \in 0..Len(v5) /\ v6 = SubSeq(v5, 1, v7)
        BY <3>2, <2>0, PlacesOK DEF Export!IInv, Export!PageStands
      <4>2. \A i \in 1..v7 : v5[i] \in Export!Entries
        BY <4>1, <2>0, ElementOfSeq
      <4>3. Len(v6) = v7
        <5>1. /\ Len(SubSeq(v5, 1, v7)) = IF 1 <= v7 THEN v7 - 1 + 1 ELSE 0
          BY <4>1, <4>2, <2>0, SubSeqProperties
        <5> QED BY <5>1, <4>1
      <4>4. SubSeq(v6, 1, Len(v6)) = v6
        BY <2>0, SubSeqFull
      <4> QED BY <4>1, <4>3, <4>4, <2>0 DEF Export!IsPrefix
    <3> QED BY <3>1, <3>2
  <2>3. ASSUME v2 = "stored"
        PROVE  /\ \A i, j \in 1..Len(v5) : i < j => v5[i].place < v5[j].place
               /\ Export!Range(v5) = {[place |-> p, state |-> v3[p]] : p \in Export!Events(v3)}
    <3>1. /\ v5 = v4 /\ Export!Ascending(v5)
          /\ \A i \in 1..Len(v5) : v5[i].state = v3[v5[i].place]
          /\ Export!Events(v3) \subseteq Export!PlacesOf(v5)
      BY <2>3 DEF Export!IInv, Export!CollectedStands, Export!PageStands
    <3>2. \A i \in 1..Len(v5) : v5[i] \in Export!Entries
      BY <2>0, ElementOfSeq
    <3>3. \A i \in 1..Len(v5) : /\ v5[i] = [place |-> v5[i].place, state |-> v3[v5[i].place]]
                                /\ v5[i].place \in Export!Events(v3)
      BY <3>1, <3>2 DEF Export!Entries, Export!Events
    <3>4. Export!Range(v5) = {v5[i] : i \in 1..Len(v5)}
      BY <2>0, LenProperties DEF Export!Range
    <3>5. \A p \in Export!Events(v3) : \E i \in 1..Len(v5) : v5[i].place = p
      BY <3>1 DEF Export!PlacesOf
    <3>6. \A i \in 1..Len(v5) : \E p \in Export!Events(v3) : v5[i] = [place |-> p, state |-> v3[p]]
      BY <3>3
    <3>7. \A p \in Export!Events(v3) : \E i \in 1..Len(v5) : v5[i] = [place |-> p, state |-> v3[p]]
      BY <3>3, <3>5
    <3>8. Export!Range(v5) = {[place |-> p, state |-> v3[p]] : p \in Export!Events(v3)}
      <4> DEFINE month == {[place |-> p, state |-> v3[p]] : p \in Export!Events(v3)}
      <4>1. \A e \in Export!Range(v5) : e \in month
        <5> SUFFICES ASSUME NEW e \in Export!Range(v5) PROVE e \in month
          OBVIOUS
        <5>1. PICK i \in 1..Len(v5) : e = v5[i]
          BY <3>4
        <5>2. PICK p \in Export!Events(v3) : v5[i] = [place |-> p, state |-> v3[p]]
          BY <3>6
        <5> QED BY <5>1, <5>2
      <4>2. \A e \in month : e \in Export!Range(v5)
        <5> SUFFICES ASSUME NEW p \in Export!Events(v3)
                     PROVE  [place |-> p, state |-> v3[p]] \in Export!Range(v5)
          OBVIOUS
        <5>1. PICK i \in 1..Len(v5) : v5[i] = [place |-> p, state |-> v3[p]]
          BY <3>7
        <5> QED BY <3>4, <5>1
      <4> HIDE DEF month
      <4>3. Export!Range(v5) = month
        BY <4>1, <4>2
      <4> QED BY <4>3 DEF month
    <3> QED BY <3>1, <3>8 DEF Export!Ascending
  <2> QED BY <2>1, <2>2, <2>3 DEF Export!PagesAreTheSnapshot
<1> QED BY <1>1, ExportInvariant, PTL

-----------------------------------------------------------------------------
(* Induction over the naturals and sums over finite sets: what a fold of    *)
(* + is, whatever the order it takes the elements in.                       *)

\* The metrics of a plan are finitely many.
LEMMA PlansAreFinite == \A plan \in SUBSET Names : IsFiniteSet(plan)
<1> SUFFICES ASSUME NEW plan \in SUBSET Names PROVE IsFiniteSet(plan)
  OBVIOUS
<1>1. IsFiniteSet(Names)
  BY NamesOK
<1> QED BY <1>1, FS_Subset

\* Induction over a set of naturals, without an induction rule: the least
\* number that is not in it.
LEMMA EveryNatural ==
    ASSUME NEW Good \in SUBSET Nat, 0 \in Good, \A n \in Good : n + 1 \in Good
    PROVE  \A n \in Nat : n \in Good
<1> DEFINE Bad == Nat \ Good
<1>1. ASSUME Bad # {} PROVE FALSE
  <2>1. IsWellFoundedOn(OpToRel(<, Nat), Nat)
    BY NatLessThanWellFounded
  <2>2. \E n \in Bad : \A m \in Bad : ~(<<m, n>> \in OpToRel(<, Nat))
    BY <1>1, <2>1, WFMin
  <2>3. \A m, n \in Nat : ~(<<m, n>> \in OpToRel(<, Nat)) => n <= m
    BY DEF OpToRel
  <2>4. PICK n \in Bad : \A m \in Bad : n <= m
    BY <2>2, <2>3
  <2>5. n - 1 \in Nat /\ n - 1 \notin Bad
    BY <2>4
  <2>6. (n - 1) + 1 \in Good
    BY <2>5
  <2> QED BY <2>4, <2>6
<1> QED BY <1>1

Some(s) == CHOOSE elem \in s : TRUE

\* g sums f over every member of a family of sets, one element at a time.
Sums(f, family, g) ==
    g = [s \in family |-> IF s = {} THEN 0 ELSE f[Some(s)] + g[s \ {Some(s)}]]

\* The sums of the values of f over the subsets of its domain.
Summed(f) == CHOOSE g : Sums(f, SUBSET DOMAIN f, g)

LEMMA SomeIs == ASSUME NEW s, s # {} PROVE Some(s) \in s
BY DEF Some

LEMMA Smaller ==
    ASSUME NEW s, IsFiniteSet(s), NEW elem \in s
    PROVE  Cardinality(s) \in Nat /\ Cardinality(s \ {elem}) \in Nat /\ Cardinality(s) = Cardinality(s \ {elem}) + 1
<1>1. IsFiniteSet(s \ {elem}) /\ Cardinality(s \ {elem}) = Cardinality(s) - 1
  BY FS_RemoveElement
<1>2. Cardinality(s) \in Nat /\ Cardinality(s \ {elem}) \in Nat
  BY <1>1, FS_CardinalityType
<1> QED BY <1>1, <1>2

Upto(S, n) == {s \in SUBSET S : Cardinality(s) <= n}

LEMMA SumsUpto ==
    ASSUME NEW f, NEW S, IsFiniteSet(S)
    PROVE  \A n \in Nat : \E g : Sums(f, Upto(S, n), g)
<1> DEFINE Good == {k \in Nat : \E g : Sums(f, Upto(S, k), g)}
<1>1. \A s \in SUBSET S : IsFiniteSet(s) /\ Cardinality(s) \in Nat
  BY FS_Subset, FS_CardinalityType
<1>2. 0 \in Good
  <2> DEFINE g == [s \in Upto(S, 0) |-> 0]
  <2>1. \A s \in Upto(S, 0) : s = {}
    BY <1>1, FS_EmptySet DEF Upto
  <2>2. Sums(f, Upto(S, 0), g)
    BY <2>1 DEF Sums
  <2> QED BY <2>2
<1>3. ASSUME NEW k \in Good PROVE k + 1 \in Good
  <2>1. PICK h : Sums(f, Upto(S, k), h)
    OBVIOUS
  <2> DEFINE g == [s \in Upto(S, k + 1) |-> IF s = {} THEN 0 ELSE f[Some(s)] + h[s \ {Some(s)}]]
  <2>2. ASSUME NEW s \in Upto(S, k + 1), s # {}
        PROVE  s \ {Some(s)} \in Upto(S, k)
    <3>1. Some(s) \in s
      BY <2>2, SomeIs
    <3>2. IsFiniteSet(s) /\ Cardinality(s) <= k + 1
      BY <1>1 DEF Upto
    <3>3. Cardinality(s) = Cardinality(s \ {Some(s)}) + 1 /\ Cardinality(s \ {Some(s)}) \in Nat
      BY <3>1, <3>2, Smaller
    <3>4. s \ {Some(s)} \in SUBSET S
      BY DEF Upto
    <3> QED BY <3>2, <3>3, <3>4 DEF Upto
  <2>3. ASSUME NEW s \in Upto(S, k) PROVE s \in Upto(S, k + 1) /\ g[s] = h[s]
    <3>1. s \in Upto(S, k + 1)
      BY <1>1 DEF Upto
    <3>2. h[s] = IF s = {} THEN 0 ELSE f[Some(s)] + h[s \ {Some(s)}]
      BY <2>1 DEF Sums
    <3> QED BY <3>1, <3>2
  <2>4. Sums(f, Upto(S, k + 1), g)
    <3>1. \A s \in Upto(S, k + 1) : s # {} => g[s \ {Some(s)}] = h[s \ {Some(s)}]
      BY <2>2, <2>3
    <3>2. g = [s \in Upto(S, k + 1) |-> IF s = {} THEN 0 ELSE f[Some(s)] + g[s \ {Some(s)}]]
      BY <3>1
    <3> QED BY <3>2 DEF Sums
  <2> QED BY <2>4
<1>4. \A n \in Nat : n \in Good
  <2>1. Good \in SUBSET Nat
    OBVIOUS
  <2> HIDE DEF Good
  <2> QED BY <1>2, <1>3, <2>1, EveryNatural
<1> QED BY <1>4

LEMMA SummedIs ==
    ASSUME NEW f, IsFiniteSet(DOMAIN f)
    PROVE  /\ Summed(f)[{}] = 0
           /\ \A s \in SUBSET DOMAIN f : s # {} => Summed(f)[s] = f[Some(s)] + Summed(f)[s \ {Some(s)}]
<1> DEFINE S == DOMAIN f
<1>1. Cardinality(S) \in Nat /\ \A s \in SUBSET S : Cardinality(s) \in Nat /\ Cardinality(s) <= Cardinality(S)
  BY FS_Subset, FS_CardinalityType
<1>2. Upto(S, Cardinality(S)) = SUBSET S
  BY <1>1 DEF Upto
<1>3. \E g : Sums(f, SUBSET S, g)
  <2>1. \E g : Sums(f, Upto(S, Cardinality(S)), g)
    BY <1>1, SumsUpto
  <2> QED BY <1>2, <2>1
<1>4. Sums(f, SUBSET S, Summed(f))
  BY <1>3, Zenon DEF Summed
<1> HIDE DEF S
<1>5. {} \in SUBSET S
  OBVIOUS
<1> QED BY <1>4, <1>5 DEF Sums, S

\* What sums are taken of.
Summable(f) == IsFiniteSet(DOMAIN f) /\ \A elem \in DOMAIN f : f[elem] \in Nat

LEMMA SummedNat ==
    ASSUME NEW f, Summable(f)
    PROVE  \A s \in SUBSET DOMAIN f : Summed(f)[s] \in Nat
<1> DEFINE S == DOMAIN f
           g == Summed(f)
           Good == {k \in Nat : \A s \in SUBSET S : Cardinality(s) = k => g[s] \in Nat}
<1>1. /\ g[{}] = 0
      /\ \A s \in SUBSET S : s # {} => g[s] = f[Some(s)] + g[s \ {Some(s)}]
  BY SummedIs DEF Summable
<1>2. \A s \in SUBSET S : IsFiniteSet(s) /\ Cardinality(s) \in Nat
  BY FS_Subset, FS_CardinalityType DEF Summable
<1>3. \A elem \in S : f[elem] \in Nat
  BY DEF Summable
<1> HIDE DEF g, S
<1>4. 0 \in Good
  <2>1. \A s \in SUBSET S : Cardinality(s) = 0 => s = {}
    BY <1>2, FS_EmptySet
  <2>2. g[{}] \in Nat
    BY <1>1
  <2> QED BY <2>1, <2>2
<1>5. ASSUME NEW k \in Good PROVE k + 1 \in Good
  <2> SUFFICES ASSUME NEW s \in SUBSET S, Cardinality(s) = k + 1 PROVE g[s] \in Nat
    OBVIOUS
  <2>1. s # {}
    BY FS_EmptySet
  <2>2. Some(s) \in s
    BY <2>1, SomeIs
  <2>3. Cardinality(s \ {Some(s)}) = k
    BY <1>2, <2>2, Smaller
  <2>4. f[Some(s)] \in Nat /\ g[s \ {Some(s)}] \in Nat
    BY <1>3, <2>2, <2>3
  <2>5. g[s] = f[Some(s)] + g[s \ {Some(s)}]
    BY <1>1, <2>1
  <2> HIDE DEF Good
  <2>6. f[Some(s)] + g[s \ {Some(s)}] \in Nat
    BY <2>4
  <2> QED BY <2>5, <2>6
<1>6. \A n \in Nat : n \in Good
  <2>1. Good \in SUBSET Nat
    OBVIOUS
  <2> HIDE DEF Good
  <2> QED BY <1>4, <1>5, <2>1, EveryNatural
<1> QED BY <1>2, <1>6 DEF S, g

\* Whichever element is taken first.
LEMMA SummedWithout ==
    ASSUME NEW f, Summable(f)
    PROVE  \A s \in SUBSET DOMAIN f : \A elem \in s : Summed(f)[s] = f[elem] + Summed(f)[s \ {elem}]
<1> DEFINE S == DOMAIN f
           g == Summed(f)
           Good == {k \in Nat : \A s \in SUBSET S : Cardinality(s) = k => \A elem \in s : g[s] = f[elem] + g[s \ {elem}]}
<1>1. \A s \in SUBSET S : s # {} => g[s] = f[Some(s)] + g[s \ {Some(s)}]
  BY SummedIs DEF Summable
<1>2. \A s \in SUBSET S : IsFiniteSet(s) /\ Cardinality(s) \in Nat
  BY FS_Subset, FS_CardinalityType DEF Summable
<1>3. /\ \A elem \in S : f[elem] \in Nat
      /\ \A s \in SUBSET S : g[s] \in Nat
  BY SummedNat DEF Summable
<1> HIDE DEF g, S
<1>4. 0 \in Good
  <2>1. \A s \in SUBSET S : Cardinality(s) = 0 => s = {}
    BY <1>2, FS_EmptySet
  <2> QED BY <2>1
<1>5. ASSUME NEW k \in Good PROVE k + 1 \in Good
  <2>0. k + 1 \in Nat
    OBVIOUS
  <2> SUFFICES ASSUME NEW s \in SUBSET S, Cardinality(s) = k + 1, NEW elem \in s
               PROVE  g[s] = f[elem] + g[s \ {elem}]
    BY <2>0
  <2> DEFINE other == Some(s)
  <2>1. other \in s /\ g[s] = f[other] + g[s \ {other}]
    BY <1>1, SomeIs
  <2> HIDE DEF other
  <2>2. CASE elem = other
    BY <2>1, <2>2
  <2>3. CASE elem # other
    <3>1. Cardinality(s \ {elem}) = k /\ Cardinality(s \ {other}) = k
      BY <1>2, <2>1, Smaller
    <3>2. \A t \in SUBSET S : Cardinality(t) = k => \A each \in t : g[t] = f[each] + g[t \ {each}]
      OBVIOUS
    <3>3. g[s \ {other}] = f[elem] + g[(s \ {other}) \ {elem}]
      BY <2>3, <3>1, <3>2
    <3>4. g[s \ {elem}] = f[other] + g[(s \ {elem}) \ {other}]
      BY <2>1, <2>3, <3>1, <3>2
    <3>5. (s \ {elem}) \ {other} = (s \ {other}) \ {elem}
      OBVIOUS
    <3>6. f[elem] \in Nat /\ f[other] \in Nat /\ g[(s \ {elem}) \ {other}] \in Nat
      BY <1>3, <2>1
    <3>7. g[(s \ {other}) \ {elem}] = g[(s \ {elem}) \ {other}]
      BY <3>5
    <3> DEFINE c == g[(s \ {elem}) \ {other}]
               a == f[elem]
               b == f[other]
    <3>8. g[s] = b + (a + c) /\ g[s \ {elem}] = b + c
      BY <2>1, <3>3, <3>4, <3>7
    <3>9. a \in Nat /\ b \in Nat /\ c \in Nat
      BY <3>6
    <3> HIDE DEF Good, a, b, c
    <3>10. b + (a + c) = a + (b + c)
      BY <3>9
    <3>11. g[s] = a + g[s \ {elem}]
      BY <3>8, <3>10
    <3> QED BY <3>11 DEF a
  <2> QED BY <2>2, <2>3
<1>6. \A n \in Nat : n \in Good
  <2>1. Good \in SUBSET Nat
    OBVIOUS
  <2> HIDE DEF Good
  <2> QED BY <1>4, <1>5, <2>1, EveryNatural
<1> QED BY <1>2, <1>6 DEF S, g

\* Less is summed over less.
LEMMA SummedLess ==
    ASSUME NEW f, Summable(f), NEW h, Summable(h),
           \A elem \in DOMAIN f : f[elem] = 0 \/ (elem \in DOMAIN h /\ f[elem] <= h[elem])
    PROVE  Summed(f)[DOMAIN f] <= Summed(h)[DOMAIN h]
<1> DEFINE S == DOMAIN f
           R == DOMAIN h
           g == Summed(f)
           e == Summed(h)
           Good == {k \in Nat : \A s \in SUBSET S, r \in SUBSET R :
                                   (Cardinality(s) = k /\ s \cap R \subseteq r) => g[s] <= e[r]}
<1>1. /\ g[{}] = 0
      /\ \A s \in SUBSET S : \A elem \in s : g[s] = f[elem] + g[s \ {elem}]
      /\ \A r \in SUBSET R : \A elem \in r : e[r] = h[elem] + e[r \ {elem}]
  BY SummedIs, SummedWithout DEF Summable
<1>2. \A s \in SUBSET S : IsFiniteSet(s) /\ Cardinality(s) \in Nat
  BY FS_Subset, FS_CardinalityType DEF Summable
<1>3. /\ \A elem \in S : f[elem] \in Nat
      /\ \A elem \in R : h[elem] \in Nat
      /\ \A s \in SUBSET S : g[s] \in Nat
      /\ \A r \in SUBSET R : e[r] \in Nat
  BY SummedNat DEF Summable
<1>4. \A elem \in S : f[elem] = 0 \/ (elem \in R /\ f[elem] <= h[elem])
  OBVIOUS
<1> HIDE DEF g, e, S, R
<1>5. 0 \in Good
  <2>1. \A s \in SUBSET S : Cardinality(s) = 0 => g[s] = 0
    BY <1>1, <1>2, FS_EmptySet
  <2>2. \A r \in SUBSET R : 0 <= e[r]
    BY <1>3
  <2> QED BY <2>1, <2>2
<1>6. ASSUME NEW k \in Good PROVE k + 1 \in Good
  <2> SUFFICES ASSUME NEW s \in SUBSET S, NEW r \in SUBSET R, Cardinality(s) = k + 1, s \cap R \subseteq r
               PROVE  g[s] <= e[r]
    OBVIOUS
  <2>1. PICK elem \in s : TRUE
    BY FS_EmptySet
  <2>2. Cardinality(s \ {elem}) = k
    BY <1>2, Smaller
  <2>3. \A q \in SUBSET R : (s \ {elem}) \cap R \subseteq q => g[s \ {elem}] <= e[q]
    BY <2>2
  <2> HIDE DEF Good
  <2>4. /\ g[s] = f[elem] + g[s \ {elem}] /\ f[elem] \in Nat /\ g[s \ {elem}] \in Nat
        /\ e[r] \in Nat
    BY <1>1, <1>3
  <2>5. CASE f[elem] = 0
    <3>1. g[s \ {elem}] <= e[r]
      BY <2>3
    <3> QED BY <2>4, <2>5, <3>1
  <2>6. CASE elem \in R /\ f[elem] <= h[elem]
    <3>1. elem \in r /\ e[r] = h[elem] + e[r \ {elem}]
      BY <1>1, <2>6
    <3>2. g[s \ {elem}] <= e[r \ {elem}]
      BY <2>3
    <3>3. h[elem] \in Nat /\ e[r \ {elem}] \in Nat
      BY <1>3, <2>6
    <3> QED BY <2>4, <2>6, <3>1, <3>2, <3>3
  <2> QED BY <1>4, <2>5, <2>6
<1>7. \A n \in Nat : n \in Good
  <2>1. Good \in SUBSET Nat
    OBVIOUS
  <2> HIDE DEF Good
  <2> QED BY <1>5, <1>6, <2>1, EveryNatural
<1>8. Cardinality(S) \in Good /\ S \cap R \subseteq R
  BY <1>2, <1>7
<1> QED BY <1>8 DEF S, R, g, e

-----------------------------------------------------------------------------
(* Figures: v1 status, v2 usage, v3 priced, v4 fallen, v5 job, v6 invoice,  *)
(* v7 view, v8 highest.                                                     *)

LEMMA TotalIsSummed ==
    ASSUME NEW f
    PROVE  Costs!Total(f) = Summed(f)[DOMAIN f]
BY DEF Costs!Total, Costs!FoldFunction, Costs!FoldFunctionOnSet, Costs!MapThenFoldSet, Summed, Sums, Some

LEMMA Totals ==
    ASSUME NEW f, Summable(f)
    PROVE  /\ Costs!Total(f) \in Nat
           /\ \A h : Summable(h) /\ (\A elem \in DOMAIN f : f[elem] = 0 \/ (elem \in DOMAIN h /\ f[elem] <= h[elem]))
                       => Costs!Total(f) <= Costs!Total(h)
<1>1. Costs!Total(f) \in Nat
  BY TotalIsSummed, SummedNat
<1>2. ASSUME NEW h, Summable(h), \A elem \in DOMAIN f : f[elem] = 0 \/ (elem \in DOMAIN h /\ f[elem] <= h[elem])
      PROVE  Costs!Total(f) <= Costs!Total(h)
  <2>1. Summed(f)[DOMAIN f] <= Summed(h)[DOMAIN h]
    BY <1>2, SummedLess
  <2> QED BY <2>1, TotalIsSummed
<1> QED BY <1>1, <1>2

LEMMA Prices ==
    ASSUME NEW a \in Nat, NEW b \in Nat, a <= b
    PROVE  /\ Costs!Above(a, IncludedUnits) * PricePerUnit \in Nat
           /\ Costs!Above(a, IncludedUnits) * PricePerUnit <= Costs!Above(b, IncludedUnits) * PricePerUnit
<1> DEFINE m == Costs!Above(a, IncludedUnits)
           n == Costs!Above(b, IncludedUnits)
<1>1. m \in Nat /\ n \in Nat /\ m <= n
  BY TermsOK DEF Costs!Above
<1> HIDE DEF m, n
<1>2. \A c, d, p \in Nat : c <= d => c * p \in Nat /\ c * p <= d * p
  OBVIOUS
<1>3. m * PricePerUnit \in Nat /\ m * PricePerUnit <= n * PricePerUnit
  BY <1>1, <1>2, TermsOK
<1> QED BY <1>3 DEF m, n

\* The figures of a page are naturals.
LEMMA Listed ==
    ASSUME NEW p \in SUBSET Names, NEW u \in [Names -> Nat]
    PROVE  /\ Costs!RowsOf(u) \in SUBSET Names
           /\ Costs!CostBreakdown(p, u) \in [Costs!RowsOf(u) -> Nat]
           /\ Costs!BreakdownRows(p, u) \in [(Costs!RowsOf(u) \cap p) -> Nat]
<1>1. Costs!RowsOf(u) \in SUBSET Names
  BY DEF Costs!RowsOf
<1>2. \A m \in Names : /\ Costs!Above(u[m], IncludedUnits) * PricePerUnit \in Nat
                       /\ Costs!Above(u[m], 0) * 0 \in Nat
  <2> TAKE m \in Names
  <2>1. u[m] \in Nat /\ u[m] <= u[m]
    OBVIOUS
  <2>2. Costs!Above(u[m], 0) \in Nat
    BY <2>1 DEF Costs!Above
  <2> QED BY <2>1, <2>2, Prices
<1>3. Costs!CostBreakdown(p, u) \in [Costs!RowsOf(u) -> Nat]
  <2>1. \A m \in Costs!RowsOf(u) :
          LET included == IF m \in p THEN IncludedUnits ELSE 0
              price    == IF m \in p THEN PricePerUnit ELSE 0
          IN  Costs!Above(u[m], included) * price \in Nat
    BY <1>1, <1>2
  <2> QED BY <2>1 DEF Costs!CostBreakdown
<1>4. Costs!BreakdownRows(p, u) \in [(Costs!RowsOf(u) \cap p) -> Nat]
  BY <1>1, <1>2 DEF Costs!BreakdownRows
<1> QED BY <1>1, <1>3, <1>4

\* What would be billed grows with the plan and with usage, and covers every
\* estimate made of less of either.
LEMMA BillsGrow ==
    ASSUME NEW p \in SUBSET Names, NEW q \in SUBSET Names, p \subseteq q,
           NEW u \in [Names -> Nat], NEW v \in [Names -> Nat], \A m \in Names : u[m] <= v[m]
    PROVE  /\ Costs!InvoiceAmount(p, u) \in Nat /\ Costs!InvoiceAmount(q, v) \in Nat
           /\ Costs!InvoiceAmount(p, u) <= Costs!InvoiceAmount(q, v)
           /\ Costs!Total(Costs!CostBreakdown(p, u)) \in Nat
           /\ BasePrice + Costs!Total(Costs!CostBreakdown(p, u)) <= Costs!InvoiceAmount(q, v)
<1> DEFINE f(t, used) == [m \in Costs!RowsOf(used) \cap t |-> Costs!Above(used[m], IncludedUnits) * PricePerUnit]
           e == Costs!CostBreakdown(p, u)
<1>1. ASSUME NEW t \in SUBSET Names, NEW used \in [Names -> Nat] PROVE Summable(f(t, used))
  <2>1. IsFiniteSet(DOMAIN f(t, used))
    <3>1. DOMAIN f(t, used) \subseteq Names
      OBVIOUS
    <3> HIDE DEF f
    <3> QED BY <3>1, PlansAreFinite
  <2>2. \A m \in DOMAIN f(t, used) : f(t, used)[m] \in Nat
    BY <2>1, Prices
  <2> QED BY <2>1, <2>2 DEF Summable
<1>2. \A m \in DOMAIN f(p, u) : m \in DOMAIN f(q, v) /\ f(p, u)[m] <= f(q, v)[m]
  <2> SUFFICES ASSUME NEW m \in DOMAIN f(p, u) PROVE m \in DOMAIN f(q, v) /\ f(p, u)[m] <= f(q, v)[m]
    OBVIOUS
  <2>1. m \in Names /\ u[m] > 0 /\ m \in p /\ u[m] <= v[m] /\ u[m] \in Nat /\ v[m] \in Nat
    BY DEF Costs!RowsOf
  <2>2. m \in DOMAIN f(q, v)
    BY <2>1 DEF Costs!RowsOf
  <2> QED BY <2>1, <2>2, Prices
<1>3. DOMAIN e = Costs!RowsOf(u) /\ \A m \in DOMAIN e :
        e[m] = IF m \in p THEN Costs!Above(u[m], IncludedUnits) * PricePerUnit ELSE Costs!Above(u[m], 0) * 0
  BY DEF Costs!CostBreakdown
<1>4. \A m \in DOMAIN e : m \in Names /\ u[m] \in Nat /\ Costs!Above(u[m], 0) \in Nat
  BY <1>3 DEF Costs!RowsOf, Costs!Above
<1> HIDE DEF e
<1>5. \A m \in DOMAIN e : e[m] \in Nat /\ (e[m] = 0 \/ (m \in DOMAIN f(p, u) /\ e[m] = f(p, u)[m]))
  <2> SUFFICES ASSUME NEW m \in DOMAIN e
               PROVE  e[m] \in Nat /\ (e[m] = 0 \/ (m \in DOMAIN f(p, u) /\ e[m] = f(p, u)[m]))
    OBVIOUS
  <2>1. CASE m \in p
    BY <1>3, <1>4, <2>1, Prices
  <2>2. CASE m \notin p
    BY <1>3, <1>4, <2>2
  <2> QED BY <2>1, <2>2
<1>6. Summable(e)
  <2>1. DOMAIN e \subseteq Names
    BY <1>4
  <2> HIDE DEF e
  <2>2. IsFiniteSet(DOMAIN e)
    BY <2>1, PlansAreFinite
  <2> QED BY <1>5, <2>2 DEF Summable
<1>7. Summable(f(p, u)) /\ Summable(f(q, v))
  BY <1>1
<1>8. /\ Costs!InvoiceAmount(p, u) = BasePrice + Costs!Total(f(p, u))
      /\ Costs!InvoiceAmount(q, v) = BasePrice + Costs!Total(f(q, v))
  BY DEF Costs!InvoiceAmount
<1> HIDE DEF f
<1>9. Costs!Total(e) \in Nat /\ Costs!Total(f(p, u)) \in Nat /\ Costs!Total(f(q, v)) \in Nat
  BY <1>6, <1>7, Totals
<1>10. Costs!Total(f(p, u)) <= Costs!Total(f(q, v))
  BY <1>2, <1>7, Totals
<1>11. Costs!Total(e) <= Costs!Total(f(q, v))
  <2>1. \A m \in DOMAIN e : e[m] = 0 \/ (m \in DOMAIN f(q, v) /\ e[m] <= f(q, v)[m])
    BY <1>2, <1>5
  <2> QED BY <1>6, <1>7, <2>1, Totals
<1> QED BY <1>8, <1>9, <1>10, <1>11, TermsOK DEF e

\* What would be billed now.
Now == Costs!InvoiceAmount(v3, v2)

LEMMA FigureTypes ==
    ASSUME Costs!TypeOK
    PROVE  /\ v2 \in [Names -> Nat] /\ v3 \in SUBSET Names /\ v8 \in Nat /\ Now \in Nat
           /\ v4 \in BOOLEAN
<1>1. v2 \in [Names -> Nat] /\ v3 \in SUBSET Names /\ v8 \in Nat
  BY BoundsOK DEF Costs!TypeOK, Costs!Amounts
<1>2. Now \in Nat
  BY <1>1, BillsGrow DEF Now
<1> QED BY <1>1, <1>2 DEF Costs!TypeOK

\* Plans and totals grow, or a total was corrected.
LEMMA WorldStep ==
    ASSUME Costs!IInv, UNCHANGED <<v5, v6, v7, v8>>,
           v1' \in {"ACTIVE", "CANCELED"}, v2' \in [Names -> 0..MaxUsage], v3' \in SUBSET Names, v3 \subseteq v3',
           v4' = TRUE \/ (v4' = v4 /\ \A m \in Names : v2[m] <= v2'[m])
    PROVE  Costs!IInv'
<1>0. Costs!TypeOK /\ v4' \in BOOLEAN
  BY FigureTypes DEF Costs!IInv
<1>1. Costs!TypeOK'
  BY <1>0 DEF Costs!TypeOK
<1>2. /\ v2 \in [Names -> Nat] /\ v3 \in SUBSET Names /\ v8 \in Nat /\ Now \in Nat
      /\ v2' \in [Names -> Nat] /\ v3' \in SUBSET Names
  BY <1>0, FigureTypes, BoundsOK
<1>3. ASSUME v4' # TRUE
      PROVE  /\ v4 = FALSE /\ v4' = FALSE
             /\ \A p \in SUBSET Names : \A q \in SUBSET Names : p \subseteq q =>
                  /\ Costs!InvoiceAmount(p, v2) \in Nat /\ Costs!InvoiceAmount(q, v2') \in Nat
                  /\ Costs!InvoiceAmount(p, v2) <= Costs!InvoiceAmount(q, v2')
  <2>1. v4 = FALSE /\ v4' = FALSE /\ \A m \in Names : v2[m] <= v2'[m]
    BY <1>0, <1>3, FigureTypes
  <2> QED BY <1>2, <2>1, BillsGrow
<1>4. \A n \in Nat : \A p \in SUBSET Names : \A q \in SUBSET Names :
        (p \subseteq q /\ n <= Costs!InvoiceAmount(p, v2)) => (v4' = TRUE \/ n <= Costs!InvoiceAmount(q, v2'))
  <2> SUFFICES ASSUME NEW n \in Nat, NEW p \in SUBSET Names, NEW q \in SUBSET Names, p \subseteq q,
                      n <= Costs!InvoiceAmount(p, v2), v4' # TRUE
               PROVE  n <= Costs!InvoiceAmount(q, v2')
    OBVIOUS
  <2>1. /\ Costs!InvoiceAmount(p, v2) \in Nat /\ Costs!InvoiceAmount(q, v2') \in Nat
        /\ Costs!InvoiceAmount(p, v2) <= Costs!InvoiceAmount(q, v2')
    BY <1>3
  <2> QED BY <2>1
<1>5. Costs!EstimatesStand'
  BY <1>0, <1>2, <1>3, <1>4 DEF Costs!IInv, Costs!EstimatesStand
<1>6. Costs!JobStands'
  <2> SUFFICES ASSUME v5 # Costs!Rested
               PROVE  /\ v5.plan \subseteq v3'
                      /\ v5.at \in {"usage", "create"} => v6 = Nothing
                      /\ v5.at \in {"existing", "usage"} => (v4' \/ v5.floor <= Costs!InvoiceAmount(v5.plan, v2'))
                      /\ v5.at = "create" => (v4' \/ (v5.floor <= v5.amount /\ v5.amount <= Costs!InvoiceAmount(v3', v2')))
    BY DEF Costs!JobStands, Costs!Rested
  <2>1. v5.plan \in SUBSET Names /\ v5.floor \in Nat /\ v5.amount \in Nat
    BY <1>0 DEF Costs!TypeOK, Costs!Amounts
  <2>2. v5.plan \subseteq v3 /\ (v5.at \in {"usage", "create"} => v6 = Nothing)
    BY DEF Costs!IInv, Costs!JobStands
  <2>3. v5.at \in {"existing", "usage"} => (v4' \/ v5.floor <= Costs!InvoiceAmount(v5.plan, v2'))
    <3>1. v5.at \in {"existing", "usage"} => (v4 \/ v5.floor <= Costs!InvoiceAmount(v5.plan, v2))
      BY DEF Costs!IInv, Costs!JobStands
    <3> QED BY <1>0, <1>3, <1>4, <2>1, <3>1
  <2>4. v5.at = "create" => (v4' \/ (v5.floor <= v5.amount /\ v5.amount <= Costs!InvoiceAmount(v3', v2')))
    <3>1. v5.at = "create" => (v4 \/ (v5.floor <= v5.amount /\ v5.amount <= Costs!InvoiceAmount(v3, v2)))
      BY DEF Costs!IInv, Costs!JobStands
    <3> QED BY <1>0, <1>2, <1>3, <1>4, <2>1, <3>1
  <2> QED BY <2>2, <2>3, <2>4
<1>7. Costs!InvoiceStands'
  <2> SUFFICES ASSUME v6 # Nothing
               PROVE  v4' \/ (v6.floor <= v6.amount /\ v6.amount <= Costs!InvoiceAmount(v3', v2'))
    BY DEF Costs!InvoiceStands
  <2>1. v6.amount \in Nat
    BY <1>0 DEF Costs!TypeOK, Costs!Amounts
  <2>2. v4 \/ (v6.floor <= v6.amount /\ v6.amount <= Costs!InvoiceAmount(v3, v2))
    BY DEF Costs!IInv, Costs!InvoiceStands
  <2> QED BY <1>0, <1>2, <1>3, <1>4, <2>1, <2>2
<1>8. Costs!ViewStands'
  <2> SUFFICES ASSUME v7 # Nothing
               PROVE  /\ \E listed \in SUBSET Names : v7 \in Costs!Views(listed)
                      /\ v7.plan \subseteq v3'
                      /\ v7.page = "invoice" =>
                           /\ v6 # Nothing /\ v7.at # "plan"
                           /\ v7.at = "usage" => (v4' \/ v6.amount <= Costs!InvoiceAmount(v7.plan, v2'))
                           /\ v7.at = "shown" => (v4' \/ v6.amount <= Costs!InvoiceBreakdown(v7.costs))
    BY DEF Costs!ViewStands, Costs!InvoiceBreakdown, Costs!Views
  <2>1. /\ \E listed \in SUBSET Names : v7 \in Costs!Views(listed)
        /\ v7.plan \subseteq v3
        /\ v7.page = "invoice" =>
             /\ v6 # Nothing /\ v7.at # "plan"
             /\ v7.at = "usage" => (v4 \/ v6.amount <= Costs!InvoiceAmount(v7.plan, v2))
             /\ v7.at = "shown" => (v4 \/ v6.amount <= Costs!InvoiceBreakdown(v7.costs))
    BY DEF Costs!IInv, Costs!ViewStands
  <2>2. v7.plan \in SUBSET Names /\ (v6 # Nothing => v6.amount \in Nat)
    BY <1>0, <2>1 DEF Costs!TypeOK, Costs!Amounts, Costs!Views
  <2>3. (v7.page = "invoice" /\ v7.at = "usage") => (v4' \/ v6.amount <= Costs!InvoiceAmount(v7.plan, v2'))
    BY <1>0, <1>3, <1>4, <2>1, <2>2
  <2>4. (v7.page = "invoice" /\ v7.at = "shown") => (v4' \/ v6.amount <= Costs!InvoiceBreakdown(v7.costs))
    BY <1>0, <1>3, <2>1
  <2> QED BY <2>1, <2>3, <2>4
<1> QED BY <1>1, <1>5, <1>6, <1>7, <1>8 DEF Costs!IInv

LEMMA JobSteps ==
    ASSUME Costs!IInv,
           \/ Costs!LoadSubscription \/ Costs!CheckExisting \/ Costs!ReadUsage \/ Costs!CreateInvoice
           \/ Costs!JobFails
    PROVE  Costs!IInv'
<1>0. Costs!TypeOK
  BY DEF Costs!IInv
<1>1. /\ v2 \in [Names -> Nat] /\ v3 \in SUBSET Names /\ v8 \in Nat /\ v4 \in BOOLEAN
      /\ Costs!InvoiceAmount(v3, v2) \in Nat
  BY <1>0, FigureTypes DEF Now
<1>2. UNCHANGED <<v1, v2, v3, v4, v7, v8>>
  BY DEF Costs!LoadSubscription, Costs!CheckExisting, Costs!ReadUsage, Costs!CreateInvoice, Costs!JobFails
<1> DEFINE Jobs2 == [at : {"existing", "usage", "create"}, plan : SUBSET Names, amount : Nat, floor : Nat]
<1>3. /\ v5 # Costs!Rested => v5 \in Jobs2
      /\ v5.at # "idle" => v5 # Costs!Rested
  BY <1>0 DEF Costs!TypeOK, Costs!Amounts, Costs!Rested
<1>4. ASSUME UNCHANGED v6,
             \/ v5' = Costs!Rested
             \/ /\ v5' \in Jobs2 /\ v5'.plan \subseteq v3
                /\ v5'.at \in {"usage", "create"} => v6 = Nothing
                /\ v5'.at \in {"existing", "usage"} => (v4 \/ v5'.floor <= Costs!InvoiceAmount(v5'.plan, v2))
                /\ v5'.at = "create" => (v4 \/ (v5'.floor <= v5'.amount /\ v5'.amount <= Costs!InvoiceAmount(v3, v2)))
      PROVE  Costs!IInv'
  <2>1. Costs!TypeOK'
    BY <1>0, <1>2, <1>4 DEF Costs!TypeOK, Costs!Amounts, Costs!Rested
  <2>2. Costs!EstimatesStand' /\ Costs!InvoiceStands' /\ Costs!ViewStands'
    BY <1>2, <1>4 DEF Costs!IInv, Costs!EstimatesStand, Costs!InvoiceStands, Costs!ViewStands, Costs!InvoiceBreakdown, Costs!Views
  <2>3. Costs!JobStands'
    BY <1>2, <1>4 DEF Costs!JobStands, Costs!Rested
  <2> QED BY <2>1, <2>2, <2>3 DEF Costs!IInv
<1>5. CASE Costs!LoadSubscription
  <2>1. v5' = [at |-> "existing", plan |-> v3, amount |-> 0, floor |-> v8] /\ UNCHANGED v6
    BY <1>5 DEF Costs!LoadSubscription
  <2>2. v4 \/ v8 <= Costs!InvoiceAmount(v3, v2)
    BY DEF Costs!IInv, Costs!EstimatesStand
  <2> QED BY <1>1, <1>4, <2>1, <2>2
<1>6. CASE Costs!CheckExisting
  <2>1. v5.at = "existing" /\ v5 # Costs!Rested /\ v5 \in Jobs2 /\ UNCHANGED v6
    BY <1>3, <1>6 DEF Costs!CheckExisting
  <2>2. CASE v6 = Nothing
    <3>1. v5' = [v5 EXCEPT !.at = "usage"]
      BY <1>6, <2>2 DEF Costs!CheckExisting
    <3>2. v5' \in Jobs2 /\ v5'.at = "usage" /\ v5'.plan = v5.plan /\ v5'.floor = v5.floor
      BY <2>1, <3>1
    <3>3. v5.plan \subseteq v3 /\ (v4 \/ v5.floor <= Costs!InvoiceAmount(v5.plan, v2))
      BY <2>1 DEF Costs!IInv, Costs!JobStands
    <3> QED BY <1>4, <2>1, <2>2, <3>2, <3>3
  <2>3. CASE v6 # Nothing
    <3>1. v5' = Costs!Rested
      BY <1>6, <2>3 DEF Costs!CheckExisting
    <3> QED BY <1>4, <2>1, <3>1
  <2> QED BY <2>2, <2>3
<1>7. CASE Costs!ReadUsage
  <2> DEFINE amount == Costs!InvoiceAmount(v5.plan, v2)
  <2>1. v5.at = "usage" /\ v5 # Costs!Rested /\ v5 \in Jobs2 /\ UNCHANGED v6
    BY <1>3, <1>7 DEF Costs!ReadUsage
  <2>2. v5.plan \subseteq v3 /\ v6 = Nothing /\ (v4 \/ v5.floor <= amount)
    BY <2>1 DEF Costs!IInv, Costs!JobStands
  <2>3. amount \in Nat /\ amount <= Costs!InvoiceAmount(v3, v2)
    BY <1>1, <2>1, <2>2, BillsGrow
  <2>4. v5' = [v5 EXCEPT !.at = "create", !.amount = amount]
    BY <1>7 DEF Costs!ReadUsage
  <2> HIDE DEF amount
  <2>5. v5' \in Jobs2 /\ v5'.at = "create" /\ v5'.plan = v5.plan /\ v5'.floor = v5.floor /\ v5'.amount = amount
    BY <2>1, <2>3, <2>4
  <2> QED BY <1>4, <2>1, <2>2, <2>3, <2>5
<1>8. CASE Costs!CreateInvoice
  <2>1. /\ v5.at = "create" /\ v5 # Costs!Rested /\ v5 \in Jobs2
        /\ v6' = [amount |-> v5.amount, floor |-> v5.floor] /\ v5' = Costs!Rested
    BY <1>3, <1>8 DEF Costs!CreateInvoice
  <2>2. v6 = Nothing /\ (v4 \/ (v5.floor <= v5.amount /\ v5.amount <= Costs!InvoiceAmount(v3, v2)))
    BY <2>1 DEF Costs!IInv, Costs!JobStands
  <2>3. v6' \in [amount : Nat, floor : Nat] /\ v6'.amount = v5.amount /\ v6'.floor = v5.floor
    BY <2>1
  <2>4. Costs!TypeOK'
    BY <1>0, <1>2, <2>1, <2>3 DEF Costs!TypeOK, Costs!Amounts
  <2>5. Costs!EstimatesStand' /\ Costs!JobStands' /\ Costs!InvoiceStands'
    BY <1>2, <2>1, <2>2, <2>3 DEF Costs!IInv, Costs!EstimatesStand, Costs!JobStands, Costs!InvoiceStands, Costs!Rested
  <2>6. v7 # Nothing => /\ \E listed \in SUBSET Names : v7 \in Costs!Views(listed)
                        /\ v7.plan \subseteq v3 /\ v7.page # "invoice"
    BY <2>2 DEF Costs!IInv, Costs!ViewStands
  <2>7. Costs!ViewStands'
    BY <1>2, <2>6 DEF Costs!ViewStands, Costs!Views
  <2> QED BY <2>4, <2>5, <2>7 DEF Costs!IInv
<1>9. CASE Costs!JobFails
  BY <1>4, <1>9 DEF Costs!JobFails
<1> QED BY <1>5, <1>6, <1>7, <1>8, <1>9

LEMMA PageSteps ==
    ASSUME Costs!IInv,
           \/ \E p \in Costs!Pages : Costs!OpenEstimate(p)
           \/ Costs!ReadPlan \/ Costs!ShowEstimate \/ Costs!OpenInvoice \/ Costs!ShowInvoice \/ Costs!ClosePage
    PROVE  Costs!IInv'
<1>0. Costs!TypeOK
  BY DEF Costs!IInv
<1>1. /\ v2 \in [Names -> Nat] /\ v3 \in SUBSET Names /\ v8 \in Nat /\ v4 \in BOOLEAN
      /\ Costs!InvoiceAmount(v3, v2) \in Nat
  BY <1>0, FigureTypes DEF Now
<1>2. UNCHANGED <<v1, v2, v3, v4, v5, v6>>
  BY DEF Costs!OpenEstimate, Costs!ReadPlan, Costs!ShowEstimate, Costs!OpenInvoice, Costs!ShowInvoice, Costs!ClosePage
<1>3. v7 # Nothing => /\ \E listed \in SUBSET Names : v7 \in Costs!Views(listed)
                      /\ v7.plan \subseteq v3
                      /\ v7.page = "invoice" =>
                           /\ v6 # Nothing /\ v7.at # "plan"
                           /\ v7.at = "usage" => (v4 \/ v6.amount <= Costs!InvoiceAmount(v7.plan, v2))
                           /\ v7.at = "shown" => (v4 \/ v6.amount <= Costs!InvoiceBreakdown(v7.costs))
  BY DEF Costs!IInv, Costs!ViewStands
<1>4. ASSUME v8' \in Nat, v4 \/ v8' <= Costs!InvoiceAmount(v3, v2),
             \/ v7' = Nothing
             \/ /\ \E listed \in SUBSET Names : v7' \in Costs!Views(listed)
                /\ v7'.plan \subseteq v3
                /\ v7'.page = "invoice" =>
                     /\ v6 # Nothing /\ v7'.at # "plan"
                     /\ v7'.at = "usage" => (v4 \/ v6.amount <= Costs!InvoiceAmount(v7'.plan, v2))
                     /\ v7'.at = "shown" => (v4 \/ v6.amount <= Costs!InvoiceBreakdown(v7'.costs))
      PROVE  Costs!IInv'
  <2>1. v7' = Nothing \/ (/\ v7'.page \in Costs!Pages
                          /\ v7'.at \in {"plan", "usage", "shown"}
                          /\ v7'.plan \in SUBSET Names
                          /\ DOMAIN v7'.costs \in SUBSET Names)
    BY <1>4 DEF Costs!Views
  <2>2. Costs!TypeOK'
    BY <1>0, <1>2, <1>4, <2>1 DEF Costs!TypeOK, Costs!Amounts
  <2>3. Costs!EstimatesStand' /\ Costs!InvoiceStands' /\ Costs!JobStands'
    BY <1>2, <1>4 DEF Costs!IInv, Costs!EstimatesStand, Costs!InvoiceStands, Costs!JobStands, Costs!Rested
  <2>4. Costs!ViewStands'
    BY <1>2, <1>4 DEF Costs!ViewStands, Costs!InvoiceBreakdown, Costs!Views
  <2> QED BY <2>2, <2>3, <2>4 DEF Costs!IInv
<1>5. v4 \/ v8 <= Costs!InvoiceAmount(v3, v2)
  BY DEF Costs!IInv, Costs!EstimatesStand
<1>6. Costs!NoFigures \in [{} -> Nat]
  BY DEF Costs!NoFigures
<1>7. ASSUME NEW p \in Costs!Pages, Costs!OpenEstimate(p) PROVE Costs!IInv'
  <2>1. p # "invoice" /\ v7' = [page |-> p, at |-> "plan", plan |-> {}, costs |-> Costs!NoFigures] /\ UNCHANGED v8
    BY <1>7 DEF Costs!OpenEstimate
  <2>2. v7' \in Costs!Views({}) /\ v7'.plan = {} /\ v7'.page # "invoice"
    BY <1>6, <2>1 DEF Costs!Views
  <2> QED BY <1>1, <1>4, <1>5, <2>1, <2>2
<1>8. CASE Costs!ReadPlan
  <2>1. v7 # Nothing /\ v7.at = "plan" /\ UNCHANGED v8
        /\ v7' = IF v1 = "ACTIVE" THEN [v7 EXCEPT !.at = "usage", !.plan = v3] ELSE Nothing
    BY <1>8 DEF Costs!ReadPlan
  <2>2. PICK listed \in SUBSET Names : v7 \in Costs!Views(listed)
    BY <1>3, <2>1
  <2>3. v7' = Nothing \/ (v7' \in Costs!Views(listed) /\ v7'.plan = v3 /\ v7'.page # "invoice")
    BY <1>1, <1>3, <2>1, <2>2 DEF Costs!Views
  <2> QED BY <1>1, <1>4, <1>5, <2>1, <2>3
<1>9. CASE Costs!ShowEstimate
  <2> DEFINE costs == Costs!CostBreakdown(v7.plan, v2)
             total == BasePrice + Costs!Total(costs)
  <2>1. v7 # Nothing /\ v7.page # "invoice"
        /\ v7' = [v7 EXCEPT !.at = "shown", !.costs = costs]
        /\ v8' = IF total > v8 THEN total ELSE v8
    BY <1>9 DEF Costs!ShowEstimate, Costs!DashboardKPIs, Costs!BillingSummaryCards
  <2>2. PICK listed \in SUBSET Names : v7 \in Costs!Views(listed)
    BY <1>3, <2>1
  <2>3. v7.plan \in SUBSET Names /\ v7.plan \subseteq v3
    BY <1>3, <2>1, <2>2 DEF Costs!Views
  <2>4. Costs!Total(costs) \in Nat /\ total <= Costs!InvoiceAmount(v3, v2)
    BY <1>1, <2>3, BillsGrow
  <2>5. costs \in [Costs!RowsOf(v2) -> Nat] /\ Costs!RowsOf(v2) \in SUBSET Names
    BY <1>1, <2>3, Listed
  <2> HIDE DEF costs
  <2>6. v7' \in Costs!Views(Costs!RowsOf(v2)) /\ v7'.plan = v7.plan /\ v7'.page # "invoice"
    BY <2>1, <2>2, <2>5 DEF Costs!Views
  <2>7. v8' \in Nat /\ (v4 \/ v8' <= Costs!InvoiceAmount(v3, v2))
    BY <1>1, <1>5, <2>1, <2>4, TermsOK
  <2> QED BY <1>4, <2>3, <2>5, <2>6, <2>7
<1>10. CASE Costs!OpenInvoice
  <2>1. v6 # Nothing /\ v7' = [page |-> "invoice", at |-> "usage", plan |-> v3, costs |-> Costs!NoFigures] /\ UNCHANGED v8
    BY <1>10 DEF Costs!OpenInvoice
  <2>2. v7' \in Costs!Views({}) /\ v7'.plan = v3 /\ v7'.page = "invoice" /\ v7'.at = "usage"
    BY <1>1, <1>6, <2>1 DEF Costs!Views, Costs!Pages
  <2>3. v4 \/ v6.amount <= Costs!InvoiceAmount(v3, v2)
    BY <2>1 DEF Costs!IInv, Costs!InvoiceStands
  <2> QED BY <1>1, <1>4, <1>5, <2>1, <2>2, <2>3
<1>11. CASE Costs!ShowInvoice
  <2> DEFINE rows == Costs!BreakdownRows(v7.plan, v2)
  <2>1. v7 # Nothing /\ v7.at = "usage" /\ v7.page = "invoice" /\ UNCHANGED v8
        /\ v7' = [v7 EXCEPT !.at = "shown", !.costs = rows]
    BY <1>11 DEF Costs!ShowInvoice
  <2>2. PICK listed \in SUBSET Names : v7 \in Costs!Views(listed)
    BY <1>3, <2>1
  <2>3. v6 # Nothing /\ (v4 \/ v6.amount <= Costs!InvoiceAmount(v7.plan, v2)) /\ v7.plan \subseteq v3
    BY <1>3, <2>1
  <2>4. Costs!InvoiceAmount(v7.plan, v2) = Costs!InvoiceBreakdown(rows)
    BY DEF Costs!InvoiceAmount, Costs!InvoiceBreakdown, Costs!BreakdownRows
  <2>5. rows \in [(Costs!RowsOf(v2) \cap v7.plan) -> Nat] /\ Costs!RowsOf(v2) \cap v7.plan \in SUBSET Names
    BY <1>1, <2>2, Listed DEF Costs!Views
  <2> HIDE DEF rows
  <2>6. /\ v7' \in Costs!Views(Costs!RowsOf(v2) \cap v7.plan)
        /\ v7'.plan = v7.plan /\ v7'.page = "invoice" /\ v7'.at = "shown" /\ v7'.costs = rows
    BY <2>1, <2>2, <2>5 DEF Costs!Views
  <2> QED BY <1>1, <1>4, <1>5, <2>1, <2>3, <2>4, <2>5, <2>6
<1>12. CASE Costs!ClosePage
  BY <1>1, <1>4, <1>5, <1>12 DEF Costs!ClosePage
<1> QED BY <1>7, <1>8, <1>9, <1>10, <1>11, <1>12

LEMMA CostsStep ==
    ASSUME Costs!IInv, [Costs!Next]_(Costs!vars)
    PROVE  Costs!IInv'
<1>0. Costs!TypeOK
  BY DEF Costs!IInv
<1>1. v2 \in [Names -> 0..MaxUsage] /\ v3 \in SUBSET Names /\ v1 \in {"ACTIVE", "CANCELED"}
  BY <1>0 DEF Costs!TypeOK
<1>2. \A m \in Names : v2[m] <= v2[m]
  BY <1>1, BoundsOK
<1>3. CASE UNCHANGED Costs!vars
  <2>1. UNCHANGED <<v1, v2, v3, v4, v5, v6, v7, v8>>
    BY <1>3 DEF Costs!vars
  <2> QED BY <1>1, <1>2, <2>1, WorldStep
<1>4. ASSUME NEW m \in Names, Costs!Aggregate(m) PROVE Costs!IInv'
  <2>1. PICK total \in v2[m] + 1 .. MaxUsage : v2' = [v2 EXCEPT ![m] = total]
    BY <1>4 DEF Costs!Aggregate
  <2>2. v2' \in [Names -> 0..MaxUsage] /\ \A n \in Names : v2[n] <= v2'[n]
    BY <1>1, <1>2, <2>1, BoundsOK
  <2> QED BY <1>1, <1>4, <2>2, WorldStep DEF Costs!Aggregate
<1>5. ASSUME NEW m \in Names, Costs!Correct(m) PROVE Costs!IInv'
  <2>1. v2' = [v2 EXCEPT ![m] = v2[m] - 1] /\ v2[m] > 0
    BY <1>1, <1>5 DEF Costs!Correct
  <2>2. v2' \in [Names -> 0..MaxUsage]
    BY <1>1, <2>1, BoundsOK
  <2> QED BY <1>1, <1>5, <2>2, WorldStep DEF Costs!Correct
<1>6. ASSUME NEW m \in Names, Costs!AddMetricToPlan(m) PROVE Costs!IInv'
  BY <1>1, <1>2, <1>6, WorldStep DEF Costs!AddMetricToPlan
<1>7. CASE Costs!Replace
  BY <1>1, <1>2, <1>7, WorldStep DEF Costs!Replace
<1> QED BY <1>3, <1>4, <1>5, <1>6, <1>7, JobSteps, PageSteps DEF Costs!Next

LEMMA CostsInvariant == FrontSpec => [](focus = "figures" => Costs!IInv)
<1> DEFINE Inv == focus = "figures" => Costs!IInv
<1>1. FrontInit => Inv
  <2> SUFFICES ASSUME Costs!Init PROVE Costs!IInv
    BY DEF FrontInit
  <2>1. Costs!TypeOK
    <3>1. 0 \in 0..MaxUsage
      BY BoundsOK
    <3>2. v1 = "ACTIVE" /\ v2 = [m \in Names |-> 0] /\ v3 = {} /\ v4 = FALSE
      BY DEF Costs!Init
    <3>3. v5 = Costs!Rested /\ v6 = Nothing /\ v7 = Nothing /\ v8 = 0
      BY DEF Costs!Init
    <3>4. v2 \in [Names -> 0..MaxUsage]
      BY <3>1, <3>2
    <3>5. v3 \in SUBSET Names
      BY <3>2
    <3> QED BY <3>2, <3>3, <3>4, <3>5 DEF Costs!TypeOK, Costs!Amounts
  <2>2. Costs!InvoiceAmount(v3, v2) \in Nat /\ v8 = 0
    BY <2>1, FigureTypes DEF Now, Costs!Init
  <2>3. Costs!EstimatesStand
    BY <2>2 DEF Costs!EstimatesStand
  <2> QED BY <2>1, <2>3 DEF Costs!Init, Costs!IInv, Costs!JobStands, Costs!InvoiceStands, Costs!ViewStands
<1>2. Inv /\ [FrontNext]_frontVars => Inv'
  <2> SUFFICES ASSUME Inv, [FrontNext]_frontVars, focus' = "figures" PROVE Costs!IInv'
    OBVIOUS
  <2>1. focus = "figures" /\ [Costs!Next]_(Costs!vars)
    BY DEF FrontNext, frontVars, Costs!vars, five, two
  <2> QED BY <2>1, CostsStep
<1> QED BY <1>1, <1>2, PTL DEF FrontSpec

\* The three copies of the formula (getCostBreakdown, processInvoice and the page
\* of an invoice): an invoice is at least every estimate shown before it, unless a
\* total was corrected downwards, and the figures of a page add up.
THEOREM NobodyPaysLessThanShown == FrontSpec => []FiguresAgree
<1>1. (focus = "figures" => Costs!IInv) => FiguresAgree
  <2> SUFFICES ASSUME Costs!IInv PROVE Costs!FiguresAgree
    BY DEF FiguresAgree
  <2>1. v6 # Nothing => (v4 \/ v6.amount >= v6.floor)
    <3>1. v6 # Nothing => (v6.amount \in Nat /\ v6.floor \in Nat)
      BY DEF Costs!IInv, Costs!TypeOK, Costs!Amounts
    <3> QED BY <3>1 DEF Costs!IInv, Costs!InvoiceStands
  <2>2. ASSUME v7 # Nothing, v7.at = "shown"
        PROVE  CASE v7.page = "dashboard" ->
                      Costs!DashboardKPIs(v7.costs).total = BasePrice + Costs!CostBreakdownCard(v7.costs)
                 [] v7.page = "billing" ->
                      Costs!BillingSummaryCards(v7.costs).total = BasePrice + Costs!BillingBreakdown(v7.costs)
                 [] v7.page = "invoice" -> v4 \/ Costs!InvoiceBreakdown(v7.costs) >= v6.amount
    <3>1. v7.page \in Costs!Pages
      BY <2>2 DEF Costs!IInv, Costs!TypeOK
    <3>2. CASE v7.page = "dashboard"
      BY <3>2 DEF Costs!DashboardKPIs, Costs!CostBreakdownCard
    <3>3. CASE v7.page = "billing"
      BY <3>3 DEF Costs!BillingSummaryCards, Costs!BillingBreakdown
    <3>4. CASE v7.page = "invoice"
      <4>1. v6 # Nothing /\ (v4 \/ v6.amount <= Costs!InvoiceBreakdown(v7.costs))
        BY <2>2, <3>4 DEF Costs!IInv, Costs!ViewStands
      <4>2. v6.amount \in Nat
        BY <4>1 DEF Costs!IInv, Costs!TypeOK, Costs!Amounts
      <4>3. PICK listed \in SUBSET Names : v7 \in Costs!Views(listed)
        BY <2>2 DEF Costs!IInv, Costs!ViewStands
      <4>4. Summable(v7.costs)
        <5>1. v7.costs \in [listed -> Nat]
          BY <4>3 DEF Costs!Views
        <5>2. IsFiniteSet(listed)
          BY PlansAreFinite
        <5> QED BY <5>1, <5>2 DEF Summable
      <4>5. Costs!InvoiceBreakdown(v7.costs) \in Nat
        BY <4>4, Totals, TermsOK DEF Costs!InvoiceBreakdown
      <4> QED BY <3>4, <4>1, <4>2, <4>5
    <3> QED BY <3>1, <3>2, <3>3, <3>4 DEF Costs!Pages
  <2> QED BY <2>1, <2>2 DEF Costs!FiguresAgree
<1> QED BY <1>1, CostsInvariant, PTL

-----------------------------------------------------------------------------
(* Showcase: v1 phase, v2 attempt, v3 chapter, v4 dialog, v5 typed,         *)
(* v6 inputError, v7 clock, v8 event, v9 retries, v10 processed, v11 rating,*)
(* v12 ratingError, v13 finalization, v14 finalizationError, v15 delivery.  *)

Rounding == INSTANCE MoneyProofs

LEMMA DemoAmounts ==
    ASSUME NEW q \in Nat
    PROVE  /\ Demo!Amount(q) \in Nat
           /\ Demo!Amount(q) % Demo!Thousandths(Demo!Digits) = 0
           /\ Demo!HalfUp(Demo!Amount(q) \div Demo!Thousandths(Demo!Digits), Demo!UnitMicros, q, Demo!Digits)
<1> DEFINE m == Rounding!Minor(2500, q, 2)
<1>1. 2 \in Rounding!Scales
  BY DEF Rounding!Scales
<1>2. m \in Nat /\ Rounding!HalfUp(m, 2500, q, 2)
  BY <1>1, Rounding!MinorIsHalfUp
<1>3. Demo!Amount(q) = m * 10
  BY DEF Demo!Amount, Demo!Persisted, Demo!Minor, Demo!Digits, Demo!UnitMicros, Demo!Thousandths,
         Demo!Divisor, Rounding!Minor, Rounding!Divisor
<1>4. Demo!HalfUp(m, 2500, q, 2)
  BY <1>2 DEF Demo!HalfUp, Rounding!HalfUp, Demo!Divisor, Rounding!Divisor
<1>5. Demo!Thousandths(Demo!Digits) = 10 /\ Demo!UnitMicros = 2500 /\ Demo!Digits = 2
  BY DEF Demo!Thousandths, Demo!Digits, Demo!UnitMicros
<1> HIDE DEF m
<1>6. m * 10 \in Nat /\ (m * 10) % 10 = 0 /\ (m * 10) \div 10 = m
  BY <1>2
<1> QED BY <1>3, <1>4, <1>5, <1>6

Quantity == Quantities \cup {Initial, 6000, 4000}

LEMMA DemoSource ==
    ASSUME NEW q \in Quantity, NEW a \in Nat \cup {Nothing}
    PROVE  q \in Nat /\ [quantity |-> q, amount |-> a] \in Demo!Source
<1>1. Demo!Range(<<6000, 4000>>) = {6000, 4000}
  BY DEF Demo!Range
<1>2. q \in Quantities \cup {Initial} \cup Demo!Range(<<6000, 4000>>)
  BY <1>1 DEF Quantity
<1> QED BY <1>2, QuantitiesOK DEF Demo!Source, Quantity

LEMMA DemoBaseline ==
    LET base == Demo!BaselineSources
    IN  /\ base \in Seq(Demo!Source) /\ Len(base) = 2
        /\ base[1] = [quantity |-> 6000, amount |-> Demo!Amount(6000)]
        /\ base[2] = [quantity |-> 4000, amount |-> Demo!Amount(4000)]
<1> DEFINE s1 == [quantity |-> 6000, amount |-> Demo!Amount(6000)]
           s2 == [quantity |-> 4000, amount |-> Demo!Amount(4000)]
<1>1. s1 \in Demo!Source /\ s2 \in Demo!Source
  BY DemoSource, DemoAmounts DEF Quantity
<1>2. Demo!BaselineSources = [i \in 1..2 |-> IF i = 1 THEN s1 ELSE s2]
  <2>1. Demo!BaselineSources = [i \in 1..2 |-> [quantity |-> <<6000, 4000>>[i], amount |-> Demo!Amount(<<6000, 4000>>[i])]]
    BY DEF Demo!BaselineSources
  <2>2. \A i \in 1..2 : <<6000, 4000>>[i] = IF i = 1 THEN 6000 ELSE 4000
    OBVIOUS
  <2> QED BY <2>1, <2>2
<1> HIDE DEF s1, s2
<1>3. [i \in 1..2 |-> IF i = 1 THEN s1 ELSE s2] \in Seq(Demo!Source)
  BY <1>1
<1>4. Len([i \in 1..2 |-> IF i = 1 THEN s1 ELSE s2]) = 2
  OBVIOUS
<1>5. 1 \in 1..2 /\ 2 \in 1..2
  OBVIOUS
<1> QED BY <1>2, <1>3, <1>4, <1>5 DEF s1, s2

\* Types of what the month is made of.
EventOK ==
    /\ v8 \in Quantities \cup {Initial, Nothing}
    /\ v11 \in Nat \cup {Nothing}
    /\ v8 = Nothing => v11 = Nothing

LEMMA ThirdOfThree ==
    ASSUME NEW S, NEW s \in Seq(S), Len(s) = 2, NEW e \in S
    PROVE  /\ s \o <<e>> \in Seq(S) /\ Len(s \o <<e>>) = 3
           /\ (s \o <<e>>)[1] = s[1] /\ (s \o <<e>>)[2] = s[2] /\ (s \o <<e>>)[3] = e
<1>1. <<e>> \in Seq(S) /\ Len(<<e>>) = 1 /\ <<e>>[1] = e
  OBVIOUS
<1>2. /\ s \o <<e>> \in Seq(S)
      /\ Len(s \o <<e>>) = Len(s) + Len(<<e>>)
      /\ \A i \in 1..(Len(s) + Len(<<e>>)) : (s \o <<e>>)[i] = IF i <= Len(s) THEN s[i] ELSE <<e>>[i - Len(s)]
  BY <1>1, ConcatProperties
<1> QED BY <1>1, <1>2

LEMMA DemoSources ==
    ASSUME EventOK
    PROVE  LET sources == Demo!Sources
           IN  /\ sources \in Seq(Demo!Source)
               /\ v8 = Nothing => sources = Demo!BaselineSources
               /\ v8 # Nothing => /\ Len(sources) = 3
                                  /\ sources[3] = [quantity |-> v8, amount |-> v11]
               /\ Len(sources) \in {2, 3}
               /\ sources[1] = [quantity |-> 6000, amount |-> Demo!Amount(6000)]
               /\ sources[2] = [quantity |-> 4000, amount |-> Demo!Amount(4000)]
<1> DEFINE base == Demo!BaselineSources
           last == [quantity |-> v8, amount |-> v11]
<1>1. /\ base \in Seq(Demo!Source) /\ Len(base) = 2
      /\ base[1] = [quantity |-> 6000, amount |-> Demo!Amount(6000)]
      /\ base[2] = [quantity |-> 4000, amount |-> Demo!Amount(4000)]
  BY DemoBaseline
<1>2. CASE v8 = Nothing
  <2>1. Demo!Sources = base \o <<>>
    BY <1>2 DEF Demo!Sources
  <2>2. base \o <<>> = base
    BY <1>1, ConcatEmptySeq
  <2> QED BY <1>1, <1>2, <2>1, <2>2
<1>3. CASE v8 # Nothing
  <2>1. Demo!Sources = base \o <<last>>
    BY <1>3 DEF Demo!Sources
  <2>2. last \in Demo!Source
    BY <1>3, DemoSource DEF EventOK, Quantity
  <2>3. base \in Seq(Demo!Source) /\ Len(base) = 2
    BY <1>1
  <2> HIDE DEF base, last
  <2>4. /\ base \o <<last>> \in Seq(Demo!Source) /\ Len(base \o <<last>>) = 3
        /\ (base \o <<last>>)[1] = base[1] /\ (base \o <<last>>)[2] = base[2]
        /\ (base \o <<last>>)[3] = last
    BY <2>2, <2>3, ThirdOfThree
  <2> QED BY <1>1, <1>3, <2>1, <2>4 DEF base, last
<1> QED BY <1>2, <1>3

LEMMA SumIsNat ==
    ASSUME NEW n \in Nat, NEW amounts \in [1..n -> Nat]
    PROVE  Demo!SumPersisted(amounts) \in Nat
<1>1. Demo!SumPersisted(amounts) = Summed(amounts)[DOMAIN amounts]
  BY DEF Demo!SumPersisted, Demo!FoldSeq, Demo!FoldFunction, Demo!FoldFunctionOnSet,
         Demo!MapThenFoldSet, Summed, Sums, Some
<1>2. Summable(amounts)
  <2>1. DOMAIN amounts = 1..n /\ \A i \in 1..n : amounts[i] \in Nat
    OBVIOUS
  <2>2. IsFiniteSet(1..n)
    BY FS_Interval
  <2> QED BY <2>1, <2>2 DEF Summable
<1> QED BY <1>1, <1>2, SummedNat

\* What is frozen when the month may be approved.
LEMMA DemoFreeze ==
    ASSUME EventOK, Demo!Reconciled
    PROVE  LET frozen == Demo!FreezeFinalization
           IN  /\ frozen \in Demo!Frozen
               /\ frozen.sources = Demo!Sources
               /\ frozen.total = Demo!PricingTotal
               /\ \A i \in 1..Len(frozen.sources) :
                    LET s == frozen.sources[i]
                    IN  /\ s.amount # Nothing /\ s.amount % Demo!Thousandths(Demo!Digits) = 0
                        /\ Demo!HalfUp(s.amount \div Demo!Thousandths(Demo!Digits),
                                       Demo!UnitMicros, s.quantity, Demo!Digits)
<1> DEFINE sources == Demo!Sources
           base == Demo!BaselineSources
<1>1. /\ sources \in Seq(Demo!Source)
      /\ v8 = Nothing => sources = base
      /\ v8 # Nothing => Len(sources) = 3 /\ sources[3] = [quantity |-> v8, amount |-> v11]
      /\ Len(sources) \in {2, 3}
      /\ sources[1] = [quantity |-> 6000, amount |-> Demo!Amount(6000)]
      /\ sources[2] = [quantity |-> 4000, amount |-> Demo!Amount(4000)]
  BY DemoSources
<1>2. /\ base \in Seq(Demo!Source) /\ Len(base) = 2
      /\ base[1] = [quantity |-> 6000, amount |-> Demo!Amount(6000)]
      /\ base[2] = [quantity |-> 4000, amount |-> Demo!Amount(4000)]
  BY DemoBaseline
<1>3. /\ Len(Demo!Rated) = Len(sources)
      /\ \A i \in 1..Len(sources) : sources[i].amount = Demo!Amount(sources[i].quantity)
  BY DEF Demo!Reconciled
<1>4. Demo!Rated = sources /\ (v8 # Nothing => v11 # Nothing)
  <2>1. CASE v8 # Nothing /\ v11 = Nothing
    <3>1. Demo!Rated = base
      BY <2>1 DEF Demo!Rated
    <3>2. Len(sources) = 3 /\ Len(base) = 2 /\ Len(Demo!Rated) = Len(sources)
      BY <2>1, <1>1, <1>2, <1>3
    <3> QED BY <3>1, <3>2
  <2>2. CASE ~(v8 # Nothing /\ v11 = Nothing)
    BY <2>2 DEF Demo!Rated
  <2> QED BY <2>1, <2>2
<1>5. \A i \in 1..Len(sources) : sources[i].quantity \in Nat /\ sources[i].amount \in Nat
  <2> SUFFICES ASSUME NEW i \in 1..Len(sources)
               PROVE  sources[i].quantity \in Nat /\ sources[i].amount \in Nat
    OBVIOUS
  <2>1. sources[i].quantity \in Nat
    <3>1. CASE i = 1 BY <3>1, <1>1
    <3>2. CASE i = 2 BY <3>2, <1>1
    <3>3. CASE i = 3
      <4>1. v8 # Nothing /\ sources[3].quantity = v8
        <5>1. 3 \in 1..Len(sources)
          BY <3>3
        <5>2. v8 = Nothing => Len(sources) = 2
          BY <1>1, <1>2
        <5>3. v8 # Nothing
          <6> DEFINE n == Len(sources)
          <6>1. 3 \in 1..n /\ (v8 = Nothing => n = 2)
            BY <5>1, <5>2
          <6> HIDE DEF n
          <6> QED BY <6>1
        <5> QED BY <5>3, <1>1
      <4> QED BY <3>3, <4>1, QuantitiesOK DEF EventOK
    <3> QED BY <3>1, <3>2, <3>3, <1>1
  <2>2. sources[i].amount = Demo!Amount(sources[i].quantity)
    BY <1>3
  <2> QED BY <2>1, <2>2, DemoAmounts
<1>6. \A i \in 1..Len(sources) :
        /\ sources[i].amount # Nothing
        /\ sources[i].amount % Demo!Thousandths(Demo!Digits) = 0
        /\ Demo!HalfUp(sources[i].amount \div Demo!Thousandths(Demo!Digits),
                       Demo!UnitMicros, sources[i].quantity, Demo!Digits)
  BY <1>3, <1>5, DemoAmounts, NotRatedOK
<1>7. Demo!FreezeFinalization = [sources |-> sources, total |-> Demo!SumPersisted(Demo!Amounts(sources))]
  BY <1>4 DEF Demo!FreezeFinalization
<1>8. Demo!SumPersisted(Demo!Amounts(sources)) \in Nat
  <2>1. Len(sources) \in Nat
    BY <1>1
  <2>2. Demo!Amounts(sources) \in [1..Len(sources) -> Nat]
    BY <1>5 DEF Demo!Amounts
  <2> HIDE DEF sources
  <2> QED BY <2>1, <2>2, SumIsNat
<1>9. Demo!SumPersisted(Demo!Amounts(sources)) = Demo!PricingTotal
  <2> DEFINE own == IF v11 = Nothing THEN <<>> ELSE <<v11>>
  <2>1. Demo!Amounts(base) = [i \in 1..2 |-> base[i].amount]
    BY <1>2 DEF Demo!Amounts
  <2>2. Demo!Amounts(base) \in Seq(Nat) /\ Len(Demo!Amounts(base)) = 2
    <3>1. base[1].amount \in Nat /\ base[2].amount \in Nat
      BY <1>2, DemoAmounts
    <3>2. \A i \in 1..2 : base[i].amount \in Nat
      BY <3>1
    <3> HIDE DEF base
    <3> QED BY <2>1, <3>2
  <2>3. Demo!Amounts(sources) = Demo!Amounts(base) \o own
    <3>1. CASE v8 = Nothing
      <4>1. own = <<>> /\ sources = base
        BY <3>1, <1>1 DEF EventOK
      <4> HIDE DEF own, sources, base
      <4> QED BY <4>1, <2>2, ConcatEmptySeq
    <3>2. CASE v8 # Nothing
      <4>1. own = <<v11>> /\ v11 \in Nat
        BY <3>2, <1>4 DEF EventOK
      <4>2. Demo!Amounts(sources) = [i \in 1..3 |-> sources[i].amount]
        <5>1. Len(sources) = 3
          BY <3>2, <1>1
        <5> HIDE DEF sources
        <5> QED BY <5>1 DEF Demo!Amounts
      <4>3. sources[1].amount = base[1].amount /\ sources[2].amount = base[2].amount /\ sources[3].amount = v11
        BY <3>2, <1>1, <1>2
      <4> DEFINE s == Demo!Amounts(sources)
                 t == Demo!Amounts(base)
      <4>4. \A i \in 1..3 : sources[i].amount \in Nat
        <5>1. Len(sources) = 3 /\ \A i \in 1..Len(sources) : sources[i].amount \in Nat
          BY <3>2, <1>1, <1>5
        <5> HIDE DEF sources
        <5> QED BY <5>1
      <4>5. s \in Seq(Nat) /\ Len(s) = 3 /\ s[1] = base[1].amount /\ s[2] = base[2].amount /\ s[3] = v11
        <5> HIDE DEF sources, base
        <5> QED BY <4>2, <4>3, <4>4
      <4>6. t[1] = base[1].amount /\ t[2] = base[2].amount
        <5> HIDE DEF base
        <5> QED BY <2>1
      <4> HIDE DEF s, t, own, sources, base
      <4>7. t \in Seq(Nat) /\ Len(t) = 2
        BY <2>2 DEF t
      <4>8. /\ t \o <<v11>> \in Seq(Nat) /\ Len(t \o <<v11>>) = 3
            /\ (t \o <<v11>>)[1] = t[1] /\ (t \o <<v11>>)[2] = t[2] /\ (t \o <<v11>>)[3] = v11
        BY <4>1, <4>7, ThirdOfThree
      <4>9. \A i \in 1..Len(s) : s[i] = (t \o <<v11>>)[i]
        <5> SUFFICES ASSUME NEW i \in 1..Len(s) PROVE s[i] = (t \o <<v11>>)[i]
          OBVIOUS
        <5>1. i = 1 \/ i = 2 \/ i = 3
          BY <4>5
        <5> QED BY <5>1, <4>5, <4>6, <4>8
      <4>10. s = t \o <<v11>>
        BY <4>5, <4>8, <4>9, SeqEqual
      <4> QED BY <4>1, <4>10 DEF s, t
    <3> QED BY <3>1, <3>2
  <2> QED BY <2>3 DEF Demo!PricingTotal
<1>10. Demo!FreezeFinalization \in Demo!Frozen
  BY <1>1, <1>7, <1>8 DEF Demo!Frozen
<1>11. Demo!FreezeFinalization.sources = sources /\ Demo!FreezeFinalization.total = Demo!PricingTotal
  BY <1>7, <1>9
<1> HIDE DEF sources
<1>12. \A i \in 1..Len(Demo!FreezeFinalization.sources) : Demo!FreezeFinalization.sources[i] = sources[i] /\ i \in 1..Len(sources)
  BY <1>11
<1> QED BY <1>6, <1>10, <1>11, <1>12 DEF sources

LEMMA DemoTypes ==
    ASSUME Demo!TypeOK
    PROVE  /\ v1 \in {"loading", "ready", "error"} /\ v2 \in 0..MaxRecoveries
           /\ v3 \in 0..3 /\ v4 \in {"none", "reset", "approve"}
           /\ v5 \in Quantities \cup {Initial, Garbage} /\ v7 \in {"initial", "afterClose"}
           /\ v8 \in Quantities \cup {Initial, Nothing} /\ v9 \in 0..MaxRetries
           /\ v11 \in Nat \cup {Nothing}
           /\ v6 \in BOOLEAN /\ v10 \in BOOLEAN /\ v12 \in BOOLEAN /\ v14 \in BOOLEAN
           /\ v13 \in Demo!Frozen \cup {Nothing} /\ v15 \in Demo!Frozen \cup {Nothing}
  BY DEF Demo!TypeOK

LEMMA MonthKept ==
    ASSUME Demo!VersionIsTheMonth, UNCHANGED <<v7, v8, v11, v13, v15>>
    PROVE  Demo!VersionIsTheMonth'
  BY DEF Demo!VersionIsTheMonth, Demo!Sources, Demo!PricingTotal

LEMMA NoMonthYet ==
    ASSUME Demo!VersionIsTheMonth, v13 = Nothing, UNCHANGED <<v13, v15>>
    PROVE  Demo!VersionIsTheMonth'
  BY DEF Demo!VersionIsTheMonth

LEMMA StaysReconciled ==
    ASSUME Demo!Reconciled, UNCHANGED <<v8, v10, v11>>
    PROVE  Demo!Reconciled'
  BY DEF Demo!Reconciled, Demo!Sources, Demo!Rated

LEMMA DemoFresh ==
    ASSUME Demo!Fresh, v4' = "none", v1' \in {"loading", "ready", "error"}, v2' \in 0..MaxRecoveries
    PROVE  Demo!IInv'
<1>1. /\ v3' = 0 /\ v5' = Initial /\ v6' = FALSE /\ v7' = "initial" /\ v8' = Nothing
      /\ v9' = 0 /\ v10' = FALSE /\ v11' = Nothing /\ v12' = FALSE
      /\ v13' = Nothing /\ v14' = FALSE /\ v15' = Nothing
  BY DEF Demo!Fresh
<1>2. Demo!TypeOK'
  <2>1. v9' \in 0..MaxRetries /\ v3' \in 0..3
    BY <1>1, QuantitiesOK
  <2>2. {v6', v10', v12', v14'} \subseteq BOOLEAN /\ {v13', v15'} \subseteq Demo!Frozen \cup {Nothing}
    BY <1>1
  <2>3. v5' \in Quantities \cup {Initial, Garbage} /\ v7' \in {"initial", "afterClose"}
        /\ v8' \in Quantities \cup {Initial, Nothing} /\ v11' \in Nat \cup {Nothing}
        /\ v4' \in {"none", "reset", "approve"}
    BY <1>1
  <2> QED BY <2>1, <2>2, <2>3 DEF Demo!TypeOK
<1>3. Demo!VersionIsTheMonth'
  BY <1>1 DEF Demo!VersionIsTheMonth
<1>4. Demo!DialogStands'
  BY DEF Demo!DialogStands
<1> QED BY <1>1, <1>2, <1>3, <1>4 DEF Demo!IInv

\* The actions that change nothing of the month's evidence.
LEMMA ScreenStep ==
    ASSUME Demo!IInv, UNCHANGED <<v7, v8, v10, v11, v13, v15>>,
           v1' \in {"loading", "ready", "error"}, v2' \in 0..MaxRecoveries,
           v3' \in 0..3, v5' \in Quantities \cup {Initial, Garbage},
           v9' \in 0..MaxRetries, v6' \in BOOLEAN, v12' \in BOOLEAN, v14' \in BOOLEAN,
           v4' \in {"none", "reset", "approve"},
           v4' = "reset" => v1' = "ready",
           v4' = "approve" => v1' = "ready" /\ Demo!Reconciled /\ v7 = "afterClose" /\ v13 = Nothing
    PROVE  Demo!IInv'
<1>1. Demo!TypeOK'
  <2>1. Demo!TypeOK
    BY DEF Demo!IInv
  <2> QED BY <2>1 DEF Demo!TypeOK
<1>2. Demo!VersionIsTheMonth'
  BY MonthKept DEF Demo!IInv
<1>3. Demo!DialogStands'
  BY StaysReconciled DEF Demo!DialogStands
<1>4. v8' = Nothing => v11' = Nothing
  BY DEF Demo!IInv
<1> QED BY <1>1, <1>2, <1>3, <1>4 DEF Demo!IInv

LEMMA DemoStep ==
    ASSUME Demo!IInv, [Demo!Next]_(Demo!vars)
    PROVE  Demo!IInv'
<1>0. /\ v1 \in {"loading", "ready", "error"} /\ v2 \in 0..MaxRecoveries
      /\ v3 \in 0..3 /\ v4 \in {"none", "reset", "approve"}
      /\ v5 \in Quantities \cup {Initial, Garbage} /\ v7 \in {"initial", "afterClose"}
      /\ v8 \in Quantities \cup {Initial, Nothing} /\ v9 \in 0..MaxRetries
      /\ v11 \in Nat \cup {Nothing}
      /\ v6 \in BOOLEAN /\ v10 \in BOOLEAN /\ v12 \in BOOLEAN /\ v14 \in BOOLEAN
      /\ v13 \in Demo!Frozen \cup {Nothing} /\ v15 \in Demo!Frozen \cup {Nothing}
  BY DemoTypes DEF Demo!IInv
<1>1. /\ v4 # "none" => v1 = "ready"
      /\ v4 = "approve" => Demo!Reconciled /\ v7 = "afterClose" /\ v13 = Nothing
      /\ v8 = Nothing => v11 = Nothing
      /\ Demo!TypeOK /\ Demo!VersionIsTheMonth
  BY DEF Demo!IInv, Demo!DialogStands
<1>2. EventOK
  BY <1>0, <1>1 DEF EventOK
<1>3. CASE Demo!Settle
  <2>1. v1 = "loading" /\ v1' \in {"ready", "error"}
        /\ UNCHANGED <<v2, v3, v4, v5, v6, v7, v8, v9, v10, v11, v12, v13, v14, v15>>
    BY <1>3 DEF Demo!Settle, Demo!screen, Demo!evidence
  <2>2. v4 = "none"
    BY <1>1, <2>1
  <2> QED BY <1>0, <2>1, <2>2, ScreenStep
<1>4. CASE Demo!Recover
  <2>1. Demo!Fresh /\ v4' = "none" /\ v1' = "loading" /\ v2' = v2 + 1 /\ v2 < MaxRecoveries
    BY <1>4 DEF Demo!Recover
  <2>2. v2' \in 0..MaxRecoveries
    BY <1>0, <2>1, QuantitiesOK
  <2> QED BY <2>1, <2>2, DemoFresh
<1>5. CASE Demo!OpenReset
  <2>1. v1 = "ready" /\ v4' = "reset"
        /\ UNCHANGED <<v1, v2, v3, v5, v6, v7, v8, v9, v10, v11, v12, v13, v14, v15>>
    BY <1>5 DEF Demo!OpenReset, Demo!Ready, Demo!evidence
  <2> QED BY <1>0, <2>1, ScreenStep
<1>6. CASE Demo!StartFresh
  <2>1. Demo!Fresh /\ v4' = "none" /\ UNCHANGED <<v1, v2>>
    BY <1>6 DEF Demo!StartFresh
  <2> QED BY <1>0, <2>1, DemoFresh
<1>7. CASE Demo!CloseDialog
  <2>1. v4' = "none" /\ UNCHANGED <<v1, v2, v3, v5, v6, v7, v8, v9, v10, v11, v12, v13, v14, v15>>
    BY <1>7 DEF Demo!CloseDialog, Demo!evidence
  <2> QED BY <1>0, <2>1, ScreenStep
<1>8. ASSUME NEW c \in 0..3, Demo!SelectChapter(c) PROVE Demo!IInv'
  <2>1. v4 = "none" /\ v3' = c /\ UNCHANGED <<v1, v2, v4, v5, v6, v7, v8, v9, v10, v11, v12, v13, v14, v15>>
    BY <1>8 DEF Demo!SelectChapter, Demo!Ready, Demo!evidence
  <2> QED BY <1>0, <2>1, ScreenStep
<1>9. ASSUME NEW q \in Quantities \cup {Garbage}, Demo!TypeQuantity(q) PROVE Demo!IInv'
  <2>1. v4 = "none" /\ v5' = q /\ v6' = FALSE
        /\ UNCHANGED <<v1, v2, v3, v4, v7, v8, v9, v10, v11, v12, v13, v14, v15>>
    BY <1>9 DEF Demo!TypeQuantity, Demo!Ready, Demo!evidence, Demo!screen
  <2>2. v5' \in Quantities \cup {Initial, Garbage}
    BY <2>1
  <2> QED BY <1>0, <2>1, <2>2, ScreenStep
<1>10. CASE Demo!Accept
  <2>1. /\ v4 = "none" /\ v8 = Nothing /\ v13 = Nothing
        /\ v6' = (v5 = Garbage) /\ v8' = IF v5 = Garbage THEN Nothing ELSE v5
        /\ UNCHANGED <<v1, v2, v3, v4, v5, v7, v9, v10, v11, v12, v13, v14, v15>>
    BY <1>10 DEF Demo!Accept, Demo!Ready, Demo!MayAccept, Demo!screen
  <2>2. v8' \in Quantities \cup {Initial, Nothing} /\ v6' \in BOOLEAN
    BY <1>0, <2>1
  <2>3. Demo!TypeOK'
    BY <1>1, <2>1, <2>2 DEF Demo!TypeOK
  <2>4. Demo!VersionIsTheMonth'
    BY <1>1, <2>1, NoMonthYet
  <2>5. v11' = Nothing /\ Demo!DialogStands'
    BY <1>1, <2>1 DEF Demo!DialogStands
  <2> QED BY <2>3, <2>4, <2>5 DEF Demo!IInv
<1>11. CASE Demo!Retry
  <2>1. v4 = "none" /\ v9 < MaxRetries /\ v9' = v9 + 1
        /\ UNCHANGED <<v1, v2, v3, v4, v5, v6, v7, v8, v10, v11, v12, v13, v14, v15>>
    BY <1>11 DEF Demo!Retry, Demo!Ready, Demo!screen
  <2>2. v9' \in 0..MaxRetries
    BY <1>0, <2>1, QuantitiesOK
  <2> QED BY <1>0, <2>1, <2>2, ScreenStep
<1>12. CASE Demo!Rate
  <2>1. /\ v4 = "none" /\ v8 # Nothing /\ v13 = Nothing
        /\ UNCHANGED <<v1, v2, v3, v4, v5, v6, v7, v8, v9, v13, v14, v15>>
        /\ \/ v10' = TRUE /\ v11' = Demo!Amount(v8) /\ v12' = FALSE
           \/ v12' = TRUE /\ UNCHANGED <<v10, v11>>
    BY <1>12 DEF Demo!Rate, Demo!Ready, Demo!screen
  <2>2. v8 \in Nat
    BY <1>0, <2>1, QuantitiesOK
  <2>3. v10' \in BOOLEAN /\ v11' \in Nat \cup {Nothing} /\ v12' \in BOOLEAN
    BY <1>0, <2>1, <2>2, DemoAmounts
  <2>4. Demo!TypeOK'
    BY <1>1, <2>1, <2>3 DEF Demo!TypeOK
  <2>5. Demo!VersionIsTheMonth'
    BY <1>1, <2>1, NoMonthYet
  <2>6. v8' # Nothing /\ Demo!DialogStands'
    BY <2>1 DEF Demo!DialogStands
  <2> QED BY <2>4, <2>5, <2>6 DEF Demo!IInv
<1>13. CASE Demo!AdvanceTime
  <2>1. /\ v4 = "none" /\ v13 = Nothing /\ v7' = "afterClose"
        /\ UNCHANGED <<v1, v2, v3, v4, v5, v6, v8, v9, v10, v11, v12, v13, v14, v15>>
    BY <1>13 DEF Demo!AdvanceTime, Demo!Ready, Demo!screen
  <2>2. Demo!TypeOK'
    BY <1>1, <2>1 DEF Demo!TypeOK
  <2>3. Demo!VersionIsTheMonth'
    BY <1>1, <2>1, NoMonthYet
  <2>4. Demo!DialogStands'
    BY <2>1 DEF Demo!DialogStands
  <2>5. v8' = Nothing => v11' = Nothing
    BY <1>1, <2>1
  <2> QED BY <2>2, <2>3, <2>4, <2>5 DEF Demo!IInv
<1>14. CASE Demo!OpenApproval
  <2>1. /\ v1 = "ready" /\ v4' = "approve" /\ v13 = Nothing /\ Demo!DraftState = "READY_FOR_REVIEW"
        /\ UNCHANGED <<v1, v2, v3, v5, v6, v7, v8, v9, v10, v11, v12, v13, v14, v15>>
    BY <1>14 DEF Demo!OpenApproval, Demo!Ready, Demo!evidence
  <2>2. Demo!Reconciled /\ v7 = "afterClose"
    BY <1>0, <2>1 DEF Demo!DraftState
  <2> QED BY <1>0, <2>1, <2>2, ScreenStep
<1>15. CASE Demo!Finalize
  <2>1. /\ v4 = "approve" /\ v4' = "none"
        /\ UNCHANGED <<v1, v2, v3, v5, v6, v7, v8, v9, v10, v11, v12, v15>>
        /\ \/ v13' = Demo!FreezeFinalization /\ v14' = FALSE
           \/ v14' = TRUE /\ UNCHANGED v13
    BY <1>15 DEF Demo!Finalize
  <2>2. Demo!Reconciled /\ v7 = "afterClose" /\ v13 = Nothing
    BY <1>1, <2>1
  <2>3. CASE v14' = TRUE /\ UNCHANGED v13
    BY <1>0, <2>1, <2>3, ScreenStep
  <2>4. CASE v13' = Demo!FreezeFinalization /\ v14' = FALSE
    <3> DEFINE f == Demo!FreezeFinalization
    <3>1. /\ f \in Demo!Frozen
          /\ f.sources = Demo!Sources
          /\ f.total = Demo!PricingTotal
          /\ \A i \in 1..Len(f.sources) :
               LET s == f.sources[i]
               IN  /\ s.amount # Nothing /\ s.amount % Demo!Thousandths(Demo!Digits) = 0
                   /\ Demo!HalfUp(s.amount \div Demo!Thousandths(Demo!Digits),
                                  Demo!UnitMicros, s.quantity, Demo!Digits)
      BY <1>2, <2>2, DemoFreeze
    <3> HIDE DEF f
    <3>2. v13' = f
      BY <2>4 DEF f
    <3>3. Demo!Sources' = Demo!Sources /\ Demo!PricingTotal' = Demo!PricingTotal
      BY <2>1 DEF Demo!Sources, Demo!PricingTotal
    <3>4. v15' = Nothing
      BY <1>1, <2>1, <2>2 DEF Demo!VersionIsTheMonth
    <3>5. Demo!VersionIsTheMonth'
      BY <2>1, <2>2, <3>1, <3>2, <3>3, <3>4 DEF Demo!VersionIsTheMonth
    <3>6. Demo!TypeOK'
      BY <1>1, <2>1, <2>4, <3>1, <3>2 DEF Demo!TypeOK
    <3>7. Demo!DialogStands' /\ (v8' = Nothing => v11' = Nothing)
      BY <1>1, <2>1 DEF Demo!DialogStands
    <3> QED BY <3>5, <3>6, <3>7 DEF Demo!IInv
  <2> QED BY <2>1, <2>3, <2>4
<1>16. CASE Demo!Deliver
  <2>1. /\ v4 = "none" /\ v13 # Nothing /\ v15 = Nothing /\ v15' = v13
        /\ UNCHANGED <<v1, v2, v3, v4, v5, v6, v7, v8, v9, v10, v11, v12, v13, v14>>
    BY <1>16 DEF Demo!Deliver, Demo!Ready, Demo!screen
  <2>2. Demo!TypeOK'
    BY <1>1, <2>1 DEF Demo!TypeOK
  <2>3. Demo!VersionIsTheMonth'
    BY <1>1, <2>1 DEF Demo!VersionIsTheMonth, Demo!Sources, Demo!PricingTotal
  <2>4. Demo!DialogStands' /\ (v8' = Nothing => v11' = Nothing)
    BY <1>1, <2>1 DEF Demo!DialogStands
  <2> QED BY <2>2, <2>3, <2>4 DEF Demo!IInv
<1>17. CASE UNCHANGED Demo!vars
  <2>1. UNCHANGED <<v1, v2, v3, v4, v5, v6, v7, v8, v9, v10, v11, v12, v13, v14, v15>>
    BY <1>17 DEF Demo!vars, Demo!screen, Demo!evidence
  <2> QED BY <1>0, <1>1, <2>1, ScreenStep
<1> QED BY <1>3, <1>4, <1>5, <1>6, <1>7, <1>8, <1>9, <1>10, <1>11, <1>12, <1>13, <1>14,
           <1>15, <1>16, <1>17 DEF Demo!Next

LEMMA DemoInvariant == FrontSpec => [](focus = "demo" => Demo!IInv)
<1> DEFINE Inv == focus = "demo" => Demo!IInv
<1>1. FrontInit => Inv
  <2> SUFFICES ASSUME Demo!Init PROVE Demo!IInv
    BY DEF FrontInit
  <2>1. /\ v1 = "loading" /\ v2 = 0 /\ v3 = 0 /\ v4 = "none"
        /\ v5 = Initial /\ v6 = FALSE /\ v7 = "initial" /\ v8 = Nothing
        /\ v9 = 0 /\ v10 = FALSE /\ v11 = Nothing /\ v12 = FALSE
        /\ v13 = Nothing /\ v14 = FALSE /\ v15 = Nothing
    BY DEF Demo!Init
  <2>2. v2 \in 0..MaxRecoveries /\ v9 \in 0..MaxRetries /\ v3 \in 0..3
    BY <2>1, QuantitiesOK
  <2>3. {v6, v10, v12, v14} \subseteq BOOLEAN /\ {v13, v15} \subseteq Demo!Frozen \cup {Nothing}
    BY <2>1
  <2>4. Demo!TypeOK
    BY <2>1, <2>2, <2>3 DEF Demo!TypeOK
  <2>5. Demo!VersionIsTheMonth /\ Demo!DialogStands
    BY <2>1 DEF Demo!VersionIsTheMonth, Demo!DialogStands
  <2> QED BY <2>1, <2>4, <2>5 DEF Demo!IInv
<1>2. Inv /\ [FrontNext]_frontVars => Inv'
  <2> SUFFICES ASSUME Inv, [FrontNext]_frontVars, focus' = "demo" PROVE Demo!IInv'
    OBVIOUS
  <2>1. focus = "demo" /\ [Demo!Next]_(Demo!vars)
    BY DEF FrontNext, frontVars, Demo!vars, Demo!screen, Demo!evidence, five, two, seven
  <2> QED BY <2>1, DemoStep
<1> QED BY <1>1, <1>2, PTL DEF FrontSpec

\* showcase/app/run.ts: what was approved is the whole month, each event at the
\* half-up amount of its own quantity, and stays so whatever is clicked later.
THEOREM VersionsAreTheMonth == FrontSpec => []VersionIsTheMonth
<1>1. (focus = "demo" => Demo!IInv) => VersionIsTheMonth
  BY DEF Demo!IInv, VersionIsTheMonth
<1> QED BY <1>1, DemoInvariant, PTL

-----------------------------------------------------------------------------
(* EvidenceLocks: v1 tx, v2 moved.  Approvals is the same module with the   *)
(* theorems that EvidenceLocksProofs has about it.                          *)

Approvals == INSTANCE EvidenceLocksProofs WITH tx <- v1, moved <- v2

LEMMA SamePrograms ==
    /\ Locks!Program = Approvals!Program /\ Locks!Kinds = Approvals!Kinds /\ Locks!Idle = Approvals!Idle
    /\ Locks!Items = Approvals!Items
<1>1. Locks!Program = Approvals!Program
BY DEF Locks!Program, Locks!Finalize, Locks!Revise, Locks!Calculate, Locks!Accept, Locks!Claim, Locks!Project,
       Locks!RecordFailure, Locks!Rate, Locks!MarkRetry, Locks!Correct, Locks!Publish, Locks!Join, Locks!AddCustomer,
       Locks!Write, Locks!Share, Locks!Hold, Locks!Read, Locks!Marks,
       Approvals!Program, Approvals!Finalize, Approvals!Revise, Approvals!Calculate, Approvals!Accept, Approvals!Claim, Approvals!Project,
       Approvals!RecordFailure, Approvals!Rate, Approvals!MarkRetry, Approvals!Correct, Approvals!Publish, Approvals!Join, Approvals!AddCustomer,
       Approvals!Write, Approvals!Share, Approvals!Hold, Approvals!Read, Approvals!Marks
<1> QED BY <1>1 DEF Locks!Kinds, Approvals!Kinds, Locks!Idle, Approvals!Idle, Locks!Items, Approvals!Items, Locks!Marks, Approvals!Marks

LEMMA SameStatements ==
    ASSUME NEW s, NEW u, NEW action
    PROVE  /\ Locks!Running(s) <=> Approvals!Running(s)
           /\ Locks!Ended(s) <=> Approvals!Ended(s)
           /\ Locks!NextItem(s) = Approvals!NextItem(s)
           /\ Locks!Of(s, action) = Approvals!Of(s, action)
           /\ Locks!Blocks(s, u) <=> Approvals!Blocks(s, u)
           /\ Locks!Started(s) = Approvals!Started(s)
BY SamePrograms DEF Locks!Running, Locks!Ended, Locks!NextItem, Locks!Of, Locks!Blocks, Locks!Conflicts, Locks!Started,
     Approvals!Running, Approvals!Ended, Approvals!NextItem, Approvals!Of, Approvals!Blocks, Approvals!Conflicts, Approvals!Started

LEMMA SameDeadlocks ==
    ASSUME NEW D PROVE Locks!Deadlocked(D) <=> Approvals!Deadlocked(D)
BY SameStatements DEF Locks!Deadlocked, Approvals!Deadlocked

LEMMA SameAfterAbort ==
    ASSUME NEW kind PROVE Locks!AfterAbort(kind) = Approvals!AfterAbort(kind)
BY SameStatements, SamePrograms DEF Locks!AfterAbort, Approvals!AfterAbort

LEMMA SameInit == Locks!Init => Approvals!Init
BY SamePrograms DEF Locks!Init, Approvals!Init

LEMMA SameStep == Locks!Next => Approvals!Next
<1> SUFFICES ASSUME NEW s \in Sessions,
                    \/ \E kind \in Locks!Kinds : Locks!Begin(s, kind)
                    \/ Locks!Advance(s) \/ Locks!Commit(s) \/ Locks!RollBack(s) \/ Locks!BreakDeadlock(s)
             PROVE  Approvals!Next
  BY DEF Locks!Next
<1>1. ASSUME NEW kind \in Locks!Kinds, Locks!Begin(s, kind) PROVE Approvals!Next
  BY <1>1, SamePrograms, SameStatements DEF Locks!Begin, Approvals!Next, Approvals!Begin
<1>2. CASE Locks!Advance(s)
  BY <1>2, SameStatements DEF Locks!Advance, Approvals!Next, Approvals!Advance
<1>3. CASE Locks!Commit(s)
  BY <1>3, SamePrograms, SameStatements DEF Locks!Commit, Approvals!Next, Approvals!Commit
<1>4. CASE Locks!RollBack(s)
  BY <1>4, SamePrograms, SameStatements DEF Locks!RollBack, Approvals!Next, Approvals!RollBack
<1>5. CASE Locks!BreakDeadlock(s)
  BY <1>5, SameDeadlocks, SameAfterAbort DEF Locks!BreakDeadlock, Approvals!Next, Approvals!BreakDeadlock
<1> QED BY <1>1, <1>2, <1>3, <1>4, <1>5

LEMMA LocksInvariant == FrontSpec => [](focus = "locks" => Approvals!IInv)
<1> DEFINE Inv == focus = "locks" => Approvals!IInv
<1>1. FrontInit => Inv
  BY SameInit, Approvals!InitOK DEF FrontInit
<1>2. Inv /\ [FrontNext]_frontVars => Inv'
  <2> SUFFICES ASSUME Inv, [FrontNext]_frontVars, focus' = "locks" PROVE Approvals!IInv'
    OBVIOUS
  <2>1. focus = "locks" /\ [Approvals!Next]_(Approvals!vars)
    BY SameStep DEF FrontNext, frontVars, Approvals!vars, five, two
  <2> QED BY <2>1, Approvals!NextOK
<1> QED BY <1>1, <1>2, PTL DEF FrontSpec

\* lib/billing-record-finalization.ts:13: what an approval reads stands still until
\* it commits, and every deadlock of the ledger's transactions has an approval in
\* it, and else only the five kinds that write against the order of its locks.
THEOREM ApprovalsHold == FrontSpec => []ApprovalsHoldTheLedger
<1>1. (focus = "locks" => Approvals!IInv) => ApprovalsHoldTheLedger
  <2> SUFFICES ASSUME Approvals!IInv PROVE Locks!EvidenceStandsStill /\ Locks!DeadlocksNeedAnApproval
    BY DEF ApprovalsHoldTheLedger
  <2>1. Approvals!EvidenceStandsStill /\ Approvals!DeadlocksNeedAnApproval
    BY Approvals!OnlyAgainstApprovals DEF Approvals!IInv
  <2> QED BY <2>1, SameDeadlocks DEF Locks!EvidenceStandsStill, Locks!DeadlocksNeedAnApproval, Locks!Circle,
        Approvals!EvidenceStandsStill, Approvals!DeadlocksNeedAnApproval, Approvals!Circle
<1> QED BY <1>1, LocksInvariant, PTL

-----------------------------------------------------------------------------
(* All of them.                                                             *)

LEMMA LockTypes == Approvals!IInv => Locks!TypeOK
<1> SUFFICES ASSUME Approvals!IInv PROVE Locks!TypeOK
  OBVIOUS
<1>1. /\ v1 \in [Sessions -> [kind : Approvals!Kinds \cup {"none"}, past : SUBSET Approvals!Statements,
                              rest : Seq(Approvals!Statements)]]
      /\ v2 \in [Sessions -> SUBSET Approvals!Items]
  BY DEF Approvals!IInv, Approvals!Shape
<1>2. ASSUME NEW s \in Sessions
      PROVE  v1[s].kind \in Approvals!Kinds \cup {"none"} /\ \A item \in v1[s].past : item.of \subseteq Approvals!Items
  <2>1. v1[s].kind \in Approvals!Kinds \cup {"none"} /\ v1[s].past \in SUBSET Approvals!Statements
    BY <1>1
  <2>2. \A item \in Approvals!Statements : item.of \subseteq Approvals!Items
    BY DEF Approvals!Statements
  <2> QED BY <2>1, <2>2
<1> QED BY <1>1, <1>2, SamePrograms DEF Locks!TypeOK

\* Every variable of every component has its type, so that no handler, job, page
\* or form meets a row, a step or a reference that its code does not know.
THEOREM TypesCorrect == FrontSpec => []TypesOK
<1> DEFINE All ==
      /\ TypeOK
      /\ focus = "aggregation" => Aggregation!IInv
      /\ focus = "invoicing" => Invoicing!IInv
      /\ focus = "hooks" => Hooks!IInv
      /\ focus = "members" => Members!IInv
      /\ focus = "rotation" => Rotation!IInv
      /\ focus = "export" => Export!IInv
      /\ focus = "demo" => Demo!IInv
      /\ focus = "dashboard" => Dashboard!IInv
      /\ focus = "pages" => Site!IInv
      /\ focus = "figures" => Costs!IInv
      /\ focus = "locks" => Approvals!IInv
<1>1. All => TypesOK
  BY LockTypes DEF TypesOK, Aggregation!IInv, Invoicing!IInv, Hooks!IInv, Members!IInv, Rotation!IInv,
     Export!IInv, Demo!IInv, Dashboard!IInv, Site!IInv, Costs!IInv
<1>2. FrontSpec => []All
  BY AcceptanceFollowed, TypeCorrect, AggregationInvariant, InvoicingInvariant, HooksInvariant,
     MembersInvariant, RotationInvariant, ExportInvariant, DemoInvariant, DashboardInvariant,
     SiteSafe, CostsInvariant, LocksInvariant, PTL
<1> QED BY <1>1, <1>2, PTL
=============================================================================
