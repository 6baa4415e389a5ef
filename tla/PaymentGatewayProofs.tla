------------------------- MODULE PaymentGatewayProofs -------------------------
(***************************************************************************)
(* What PaymentGateway keeps, for any calls, keys and outcomes.  The gist: *)
(* what a call has found out about its key cannot change under it in one   *)
(* respect, whether the key is rejected; in the other, whether the key has *)
(* a result and the counter is where it was, only while no two calls       *)
(* overlap.                                                                *)
(***************************************************************************)
EXTENDS PaymentGateway, TLAPS

\* A call past its lookup knows its key, its outcome, and a counter that has counted.
PlacesHold ==
  \A c \in Calls :
    /\ pc[c] # "idle" => key[c] \in Keys
    /\ pc[c] = "found" => results[key[c]] # None
    /\ pc[c] = "decline" => key[c] \in Rejected
    /\ pc[c] \in {"approve", "count", "refer", "store"} => key[c] \notin Rejected
    /\ pc[c] = "count" => local[c] \in Nat
    /\ pc[c] = "refer" => counter > 0
    /\ pc[c] = "store" => local[c] \in Nat \ {0}
    /\ pc[c] = "returned" =>
         answer[c] \in Authorization /\ (answer[c].approved <=> key[c] \notin Rejected)

\* A result is the outcome of its key.
ResultsHold == \A k \in Keys : results[k] # None => (results[k].approved <=> k \notin Rejected)

IInv == TypeOK /\ PlacesHold /\ ResultsHold

\* The initial state satisfies the invariant.
LEMMA InitHolds == Init => IInv
<1> SUFFICES ASSUME Init PROVE IInv
  OBVIOUS
<1>1. TypeOK
  BY DEF Init, TypeOK
<1>2. PlacesHold
  BY DEF Init, PlacesHold
<1>3. ResultsHold
  BY DEF Init, ResultsHold
<1> QED BY <1>1, <1>2, <1>3 DEF IInv

\* Every step keeps it.
LEMMA StepHolds == IInv /\ [Next]_vars => IInv'
<1> SUFFICES ASSUME IInv, [Next]_vars PROVE IInv'
  OBVIOUS
<1> USE DEF IInv, TypeOK, PlacesHold, ResultsHold, Goto, Return
<1>1. ASSUME NEW c \in Calls, Call(c) PROVE IInv'
  BY <1>1 DEF Call
<1>2. ASSUME NEW c \in Calls, Find(c) \/ Replay(c) PROVE IInv'
  <2>1. CASE Find(c)
    BY <2>1 DEF Find, Known
  <2>2. CASE Replay(c)
    <3>1. key[c] \in Keys /\ results[key[c]] \in Authorization
      BY <2>2 DEF Replay
    <3> QED BY <2>2, <3>1 DEF Replay
  <2> QED BY <1>2, <2>1, <2>2
<1>3. ASSUME NEW c \in Calls, Decline(c) PROVE IInv'
  BY <1>3 DEF Decline, Outcome
<1>4. ASSUME NEW c \in Calls, StoreDeclined(c) PROVE IInv'
  <2>1. Declined \in Authorization /\ ~Declined.approved /\ key[c] \in Rejected
    BY <1>4 DEF StoreDeclined, Declined, Authorization
  <2>2. key[c] \in Keys
    BY <1>4 DEF StoreDeclined
  <2> QED BY <1>4, <2>1, <2>2, NoneAssumption DEF StoreDeclined
<1>5. ASSUME NEW c \in Calls, Approve(c) \/ CountRead(c) PROVE IInv'
  <2>1. CASE Approve(c)
    BY <2>1 DEF Approve, Outcome
  <2>2. CASE CountRead(c)
    BY <2>2 DEF CountRead
  <2> QED BY <1>5, <2>1, <2>2
<1>6. ASSUME NEW c \in Calls, CountWrite(c) PROVE IInv'
  <2>1. local[c] \in Nat
    BY <1>6 DEF CountWrite
  <2> QED BY <1>6, <2>1 DEF CountWrite
<1>7. ASSUME NEW c \in Calls, Refer(c) PROVE IInv'
  BY <1>7 DEF Refer
<1>8. ASSUME NEW c \in Calls, Store(c) PROVE IInv'
  <2> DEFINE a == Approved(local[c])
  <2>1. a \in Authorization /\ a.approved /\ key[c] \notin Rejected /\ key[c] \in Keys
    BY <1>8 DEF Store, Approved, Authorization
  <2> QED BY <1>8, <2>1, NoneAssumption DEF Store
<1>9. CASE UNCHANGED vars
  BY <1>9 DEF vars
<1> QED BY <1>1, <1>2, <1>3, <1>4, <1>5, <1>6, <1>7, <1>8, <1>9 DEF Next, Step

\* The invariant holds in every reachable state.
LEMMA Invariant == Spec => []IInv
BY InitHolds, StepHolds, PTL DEF Spec

\* Every reachable state of the gateway has its types: no approval without a reference from
\* the counter, no refusal with one.
THEOREM TypeCorrect == Spec => []TypeOK
<1>1. IInv => TypeOK
  BY DEF IInv
<1> QED BY <1>1, Invariant, PTL

-----------------------------------------------------------------------------
(* Calls that do not overlap *)

\* Every reference given so far is below the counter.
CounterAhead ==
  \A k \in Keys : results[k] # None /\ results[k].approved => results[k].reference < counter

\* One call at a time finds its key and the counter as it left them.
AloneHolds ==
  /\ \A c, d \in Calls : InFlight(c) /\ InFlight(d) => c = d
  /\ \A c \in Calls :
       /\ pc[c] \in {"decline", "approve", "count", "refer", "store"} => results[key[c]] = None
       /\ pc[c] = "count" => local[c] = counter
       /\ pc[c] = "refer" => CounterAhead
       /\ pc[c] = "store" => local[c] = counter /\ CounterAhead
       /\ pc[c] = "returned" => results[key[c]] = answer[c]

AInv == IInv /\ OneReferenceEach /\ (~overlapped => AloneHolds)

\* The initial state satisfies the invariant.
LEMMA InitAlone == Init => AInv
<1> SUFFICES ASSUME Init PROVE AInv
  OBVIOUS
<1>1. AloneHolds
  BY DEF Init, AloneHolds, InFlight
<1>2. OneReferenceEach
  BY DEF Init, OneReferenceEach
<1> QED BY <1>1, <1>2, InitHolds DEF AInv

\* Every step keeps it.  A call that is made while another is in flight sets overlapped;
\* otherwise the call of the step is the only one in flight.
LEMMA StepAlone == AInv /\ [Next]_vars => AInv'
<1> SUFFICES ASSUME AInv, [Next]_vars PROVE AInv'
  OBVIOUS
<1>0. IInv' /\ IInv
  BY StepHolds DEF AInv
<1>a. overlapped \in BOOLEAN /\ overlapped' \in BOOLEAN
  BY <1>0 DEF IInv, TypeOK
<1> SUFFICES ASSUME ~overlapped' PROVE AloneHolds' /\ OneReferenceEach'
  BY <1>0 DEF AInv, OneReferenceEach
<1>b. overlapped' = overlapped => AloneHolds /\ OneReferenceEach /\ ~overlapped
  BY DEF AInv
<1> USE DEF Goto, Return
<1>1. ASSUME NEW c \in Calls, Call(c) PROVE AloneHolds' /\ OneReferenceEach'
  <2>1. ~overlapped /\ \A d \in Calls : ~InFlight(d)
    BY <1>1, <1>a DEF Call
  <2>2. AloneHolds /\ OneReferenceEach
    BY <2>1 DEF AInv
  <2>3. results' = results /\ counter' = counter /\ CounterAhead' = CounterAhead
    BY <1>1 DEF Call, CounterAhead
  <2>4. \A d \in Calls : d # c =>
          pc'[d] = pc[d] /\ key'[d] = key[d] /\ pc[d] \in {"idle", "returned"}
    BY <1>0, <1>1, <2>1 DEF Call, InFlight, IInv, TypeOK
  <2>5. pc'[c] = "lookup"
    BY <1>0, <1>1 DEF Call, IInv, TypeOK
  <2>6. AloneHolds'
    BY <1>1, <2>2, <2>3, <2>4, <2>5 DEF Call, AloneHolds, InFlight
  <2> QED BY <2>1, <2>2, <2>3, <2>6 DEF OneReferenceEach
<1>2. ASSUME NEW c \in Calls, Step(c) PROVE AloneHolds' /\ OneReferenceEach'
  <2>1. overlapped' = overlapped
    BY <1>2 DEF Step, Find, Replay, Decline, StoreDeclined, Approve, CountRead,
               CountWrite, Refer, Store
  <2>2. AloneHolds /\ OneReferenceEach /\ ~overlapped
    BY <1>b, <2>1
  <2>3. InFlight(c)
    BY <1>2 DEF InFlight, Step, Find, Replay, Decline, StoreDeclined, Approve, CountRead,
               CountWrite, Refer, Store
  <2>4. \A d \in Calls : d # c => pc[d] \in {"idle", "returned"}
    BY <1>0, <2>2, <2>3 DEF AloneHolds, InFlight, IInv, TypeOK
  <2>5. key[c] \in Keys /\ key' = key
    BY <1>0, <1>2, <2>3 DEF IInv, PlacesHold, InFlight, Step, Find, Replay, Decline,
               StoreDeclined, Approve, CountRead, CountWrite, Refer, Store
  <2> USE <1>0, <2>2, <2>4, <2>5 DEF IInv, TypeOK
  <2>6. CASE Find(c) \/ Replay(c)
    BY <2>6 DEF Find, Replay, AloneHolds, OneReferenceEach, InFlight
  <2>7. CASE Decline(c)
    BY <2>7 DEF Decline, AloneHolds, OneReferenceEach, InFlight, Known
  <2>8. CASE StoreDeclined(c)
    <3>1. Declined \in Authorization /\ ~Declined.approved /\ Declined.reference = None
      BY DEF Declined, Authorization
    <3>2. \A k \in Keys : results'[k] = IF k = key[c] THEN Declined ELSE results[k]
      BY <2>8 DEF StoreDeclined
    <3>3. \A d \in Calls : pc[d] = "returned" => key[d] \in Keys /\ key[d] # key[c]
      BY <2>8, NoneAssumption DEF StoreDeclined, AloneHolds, PlacesHold
    <3>4. AloneHolds'
      BY <2>8, <3>2, <3>3 DEF StoreDeclined, AloneHolds, InFlight
    <3>5. OneReferenceEach'
      <4>1. \A j \in Keys : results[j] # None /\ results[j].approved => results[j].reference # None
        BY KeysAssumption DEF Authorization
      <4> QED BY <2>8, <3>1, <3>2, <4>1 DEF StoreDeclined, OneReferenceEach
    <3> QED BY <3>4, <3>5
  <2>9. CASE Approve(c) \/ CountRead(c)
    BY <2>9 DEF Approve, CountRead, AloneHolds, OneReferenceEach, InFlight, Known
  <2>10. CASE CountWrite(c)
    <3>1. counter' = counter + 1 /\ results' = results
      BY <2>10 DEF CountWrite, AloneHolds
    <3>2. \A k \in Keys : results[k] # None /\ results[k].approved => results[k].reference \in Nat
      BY DEF Authorization
    <3>3. CounterAhead'
      BY <2>2, <3>1, <3>2 DEF CounterAhead, OneReferenceEach
    <3>4. AloneHolds'
      BY <2>10, <3>1, <3>3 DEF CountWrite, AloneHolds, InFlight
    <3>5. OneReferenceEach'
      BY <3>1, <3>2 DEF OneReferenceEach
    <3> QED BY <3>4, <3>5
  <2>11. CASE Refer(c)
    <3>1. CounterAhead' = CounterAhead
      BY <2>11 DEF Refer, CounterAhead
    <3> QED BY <2>11, <3>1 DEF Refer, AloneHolds, OneReferenceEach, InFlight
  <2>12. CASE Store(c)
    <3> DEFINE a == Approved(local[c])
    <3>1. a \in Authorization /\ a.approved /\ a.reference = counter
      BY <2>12 DEF Store, Approved, Authorization, AloneHolds, PlacesHold
    <3>2. \A k \in Keys : results'[k] = IF k = key[c] THEN a ELSE results[k]
      BY <2>12 DEF Store
    <3>3. \A d \in Calls : pc[d] = "returned" => key[d] \in Keys /\ key[d] # key[c]
      BY <2>12, NoneAssumption DEF Store, AloneHolds, PlacesHold
    <3>4. AloneHolds'
      BY <2>12, <3>2, <3>3 DEF Store, AloneHolds, InFlight
    <3>5. OneReferenceEach'
      <4>1. CounterAhead /\ counter' = counter
        BY <2>12 DEF Store, AloneHolds
      <4>2. \A k \in Keys : results[k] # None => results[k].reference # counter
        <5> SUFFICES ASSUME NEW k \in Keys, results[k] # None
                     PROVE  results[k].reference # counter
          OBVIOUS
        <5>1. CASE results[k].approved
          <6>1. results[k].reference \in Nat
            BY <5>1 DEF Authorization
          <6> QED BY <4>1, <5>1, <6>1 DEF CounterAhead
        <5>2. CASE ~results[k].approved
          <6>1. results[k].reference = None
            BY <5>2 DEF Authorization
          <6> QED BY <6>1, KeysAssumption
        <5> QED BY <5>1, <5>2
      <4> QED BY <3>1, <3>2, <4>1, <4>2 DEF OneReferenceEach
    <3> QED BY <3>4, <3>5
  <2> QED BY <1>2, <2>6, <2>7, <2>8, <2>9, <2>10, <2>11, <2>12 DEF Step
<1>3. CASE UNCHANGED vars
  BY <1>3, <1>b DEF vars, AloneHolds, OneReferenceEach, CounterAhead, InFlight
<1> QED BY <1>1, <1>2, <1>3 DEF Next

\* The invariant holds in every reachable state.
LEMMA InvariantAlone == Spec => []AInv
BY InitAlone, StepAlone, PTL DEF Spec

\* RN-20: calls with one key agree, on their approval always, on all of the authorization
\* when no two calls overlapped.
THEOREM KeysAreIdempotent == Spec => []Idempotent
<1>1. AInv => Idempotent
  <2> SUFFICES ASSUME AInv, NEW c \in Calls, NEW d \in Calls,
                      pc[c] = "returned", pc[d] = "returned", key[c] = key[d]
               PROVE  /\ answer[c].approved = answer[d].approved
                      /\ ~overlapped => answer[c] = answer[d] /\ answer[c] = results[key[c]]
    BY DEF Idempotent
  <2>1. answer[c] \in Authorization /\ (answer[c].approved <=> key[c] \notin Rejected)
    BY DEF AInv, IInv, PlacesHold
  <2>2. answer[d] \in Authorization /\ (answer[d].approved <=> key[d] \notin Rejected)
    BY DEF AInv, IInv, PlacesHold
  <2>3. answer[c].approved \in BOOLEAN /\ answer[d].approved \in BOOLEAN
    BY <2>1, <2>2 DEF Authorization
  <2>4. ~overlapped => answer[c] = answer[d] /\ answer[c] = results[key[c]]
    BY DEF AInv, AloneHolds
  <2> QED BY <2>1, <2>2, <2>3, <2>4
<1> QED BY <1>1, InvariantAlone, PTL

\* RN-20: authorizations of two keys have two references when no two calls overlapped.
THEOREM ReferencesAreDistinct == Spec => []OneReferenceEach
<1>1. AInv => OneReferenceEach
  BY DEF AInv
<1> QED BY <1>1, InvariantAlone, PTL
=============================================================================
