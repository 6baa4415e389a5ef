---------------------------- MODULE PaymentGateway ----------------------------
(***************************************************************************)
(* FakePaymentGateway, the gateway the server runs with, as its threads    *)
(* call it: one call of authorize per request, no lock, and two pieces of  *)
(* state behind it, the counter of references and the results by           *)
(* idempotency key.  RentalThreads has authorize as one step that approves *)
(* or declines; here it is taken apart.                                    *)
(*                                                                         *)
(* CreateRental calls it once per key.  The port promises more, that a key *)
(* may be asked again (RN-20), and so here calls choose any key.  The list *)
(* of calls, which only tests read, is left out.                           *)
(***************************************************************************)
EXTENDS Naturals

CONSTANTS
  Calls,      \* the calls of authorize, each made once: bounds how many
  Keys,       \* the idempotency keys
  Rejected,   \* the keys whose outcome is 'reject': per_key, or the default
  None

ASSUME KeysAssumption == Rejected \subseteq Keys /\ None \notin Keys \cup Nat

VARIABLES
  counter,     \* FakePaymentGateway._counter
  results,     \* FakePaymentGateway._results
  key,         \* the key of each call, None before it is made
  pc,          \* where the call is
  local,       \* the counter it has read and not written yet
  answer,      \* the PaymentAuthorization it returned
  overlapped   \* history: a call was made while another was in flight

vars == <<counter, results, key, pc, local, answer, overlapped>>

Authorization == [approved : {TRUE}, reference : Nat \ {0}]
                   \cup [approved : {FALSE}, reference : {None}]

ASSUME NoneAssumption == None \notin Authorization

Approved(reference) == [approved |-> TRUE, reference |-> reference]

\* Faulty variant: a refusal carries the last reference.
DeclinedWithReference == [approved |-> FALSE, reference |-> counter]

Declined == [approved |-> FALSE, reference |-> None]

InFlight(c) == pc[c] \notin {"idle", "returned"}

Init ==
  /\ counter = 0
  /\ results = [k \in Keys |-> None]
  /\ key = [c \in Calls |-> None]
  /\ pc = [c \in Calls |-> "idle"]
  /\ local = [c \in Calls |-> None]
  /\ answer = [c \in Calls |-> None]
  /\ overlapped = FALSE

-----------------------------------------------------------------------------

Goto(c, from, to) == pc[c] = from /\ pc' = [pc EXCEPT ![c] = to]

Return(c, authorization) == answer' = [answer EXCEPT ![c] = authorization]

\* A request asks for a charge.
Call(c) ==
  /\ Goto(c, "idle", "lookup")
  /\ \E k \in Keys : key' = [key EXCEPT ![c] = k]
  /\ overlapped' = (overlapped \/ \E d \in Calls : InFlight(d))
  /\ UNCHANGED <<counter, results, local, answer>>

\* Faulty variant: only a refusal is remembered.
KnownDeclined(k) == results[k] # None /\ ~results[k].approved

\* The key has a result.
Known(k) == results[k] # None

\* A key that has a result, once found, ...
Find(c) ==
  /\ Goto(c, "lookup", "found")
  /\ Known(key[c])
  /\ UNCHANGED <<counter, results, key, local, answer, overlapped>>

\* ... gets the result it has by then.
Replay(c) ==
  /\ Goto(c, "found", "returned")
  /\ Return(c, results[key[c]])
  /\ UNCHANGED <<counter, results, key, local, overlapped>>

\* per_key.get(key, default).
Outcome(k) == IF k \in Rejected THEN "reject" ELSE "authorize"

\* A new key is declined, ...
Decline(c) ==
  /\ Goto(c, "lookup", "decline")
  /\ ~Known(key[c])
  /\ Outcome(key[c]) = "reject"
  /\ UNCHANGED <<counter, results, key, local, answer, overlapped>>

StoreDeclined(c) ==
  /\ Goto(c, "decline", "returned")
  /\ results' = [results EXCEPT ![key[c]] = Declined]
  /\ Return(c, Declined)
  /\ UNCHANGED <<counter, key, local, overlapped>>

\* ... or approved: ...
Approve(c) ==
  /\ Goto(c, "lookup", "approve")
  /\ ~Known(key[c])
  /\ Outcome(key[c]) = "authorize"
  /\ UNCHANGED <<counter, results, key, local, answer, overlapped>>

\* ... the reading half of the counter's +=, ...
CountRead(c) ==
  /\ Goto(c, "approve", "count")
  /\ local' = [local EXCEPT ![c] = counter]
  /\ UNCHANGED <<counter, results, key, answer, overlapped>>

\* Faulty variant: the counter is set, not counted up.
CountWriteOne(c) ==
  /\ Goto(c, "count", "refer")
  /\ counter' = 1
  /\ local' = [local EXCEPT ![c] = None]
  /\ UNCHANGED <<results, key, answer, overlapped>>

\* ... the writing half, ...
CountWrite(c) ==
  /\ Goto(c, "count", "refer")
  /\ counter' = local[c] + 1
  /\ local' = [local EXCEPT ![c] = None]
  /\ UNCHANGED <<results, key, answer, overlapped>>

\* ... the counter read again for the reference, ...
Refer(c) ==
  /\ Goto(c, "refer", "store")
  /\ local' = [local EXCEPT ![c] = counter]
  /\ UNCHANGED <<counter, results, key, answer, overlapped>>

\* ... and the result remembered and returned.
Store(c) ==
  /\ Goto(c, "store", "returned")
  /\ results' = [results EXCEPT ![key[c]] = Approved(local[c])]
  /\ Return(c, Approved(local[c]))
  /\ local' = [local EXCEPT ![c] = None]
  /\ UNCHANGED <<counter, key, overlapped>>

Step(c) ==
  \/ Find(c) \/ Replay(c)
  \/ Decline(c) \/ StoreDeclined(c)
  \/ Approve(c) \/ CountRead(c) \/ CountWrite(c) \/ Refer(c) \/ Store(c)

Next == \E c \in Calls : Call(c) \/ Step(c)

Spec == Init /\ [][Next]_vars

-----------------------------------------------------------------------------
(* Invariants *)

TypeOK ==
  /\ counter \in Nat
  /\ results \in [Keys -> Authorization \cup {None}]
  /\ key \in [Calls -> Keys \cup {None}]
  /\ pc \in [Calls -> {"idle", "lookup", "found", "decline", "approve", "count", "refer",
                      "store", "returned"}]
  /\ local \in [Calls -> Nat \cup {None}]
  /\ answer \in [Calls -> Authorization \cup {None}]
  /\ overlapped \in BOOLEAN

\* RN-20, a key asked again: whatever the interleaving, either all its calls are approved or
\* none; and they return one authorization, the one remembered, unless two calls overlapped.
Idempotent ==
  \A c, d \in Calls : pc[c] = "returned" /\ pc[d] = "returned" /\ key[c] = key[d] =>
    /\ answer[c].approved = answer[d].approved
    /\ ~overlapped => answer[c] = answer[d] /\ answer[c] = results[key[c]]

\* RN-20, two keys: their authorizations have references of their own, and the counter has
\* counted them, unless two calls overlapped.
OneReferenceEach ==
  ~overlapped =>
    \A j, k \in Keys : results[j] # None /\ results[k] # None /\ results[j].approved =>
      /\ results[j].reference <= counter
      /\ results[j].reference = results[k].reference => j = k
=============================================================================
