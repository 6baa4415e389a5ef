----------------------------- MODULE RentalViews -----------------------------
(***************************************************************************)
(* What clients are shown of one rental while it is returned: GET          *)
(* /rentals/{id} and the answer of POST /rentals/{id}/returns read the     *)
(* stored rental field by field, on threads of their own, while returns    *)
(* write it field by field.  RentalThreads has the same returns with one   *)
(* word for an item; here an item is its four fields, and a view is what a *)
(* client was shown of each.                                               *)
(*                                                                         *)
(* The fields a return computes (the instant, the minutes, the amount) are *)
(* all functions of the instant it read and of what never changes, so the  *)
(* instant stands for each of them.  What the rest of a return checks, the *)
(* station and the bicycles, depends on requests for other rentals: here   *)
(* it passes or not.                                                       *)
(***************************************************************************)
EXTENDS Integers, SequencesExt

CONSTANTS
  Items,     \* the bicycles of the rental's items, in the order of the list
  Header,    \* the header of the rental, as an owner of fields
  Returns,   \* the return requests, each handled once: bounds how many
  Gets,      \* the GET requests, each handled once
  Threads,   \* how many requests are handled at a time
  Instants,  \* the readings of the clock
  None

Bicycles == Range(Items)
Requests == Returns \cup Gets

\* Rental.__post_init__ refuses a rental without items.
ASSUME ItemsAssumption ==
  /\ Items \in Seq(Bicycles) /\ Items # <<>> /\ IsInjective(Items)
  /\ Header \notin Bicycles

ASSUME InstantsAssumption == Instants \subseteq Nat /\ None \notin Instants

ASSUME RequestsAssumption == Returns \cap Gets = {}

VARIABLES
  record,      \* the stored rental: the value of each of its fields
  now,         \* the last reading of the clock
  pc,          \* where each request is
  todo,        \* the bicycles whose items it has still to go through, the present one first
  at,          \* which field of the present item comes next, in the order of its walk
  stamp,       \* the instant a return has read
  derived,     \* the status a return has derived
  seen,        \* the view of the request, as far as it has read
  told,        \* history: the bicycles whose return has been answered
  known,       \* history: what was told when the request arrived, and what it returns
  overlapped   \* history: a return began while another was in flight

histories == <<told, known, overlapped>>
vars == <<record, now, pc, todo, at, stamp, derived, seen, histories>>

-----------------------------------------------------------------------------
(* Fields, and the order in which the code goes through them *)

ReturnFields == {"returned_at", "usage_minutes", "final_amount"}

Cells == {<<Header, "status">>, <<Header, "closed_at">>}
           \cup (Bicycles \X ({"status"} \cup ReturnFields))

\* Faulty variant: the amount is written first.
MarkOrderAmountFirst == <<"final_amount", "status", "returned_at", "usage_minutes">>

\* The order in which RentalItem.mark_returned assigns the fields of an item, ...
MarkOrder == <<"status", "returned_at", "usage_minutes", "final_amount">>

\* ... and that in which _rental_item_view reads them.  (It looks at final_amount twice; the
\* view has what one of the two reads found, for an amount once set is never None again.)
ReadOrder == <<"status", "final_amount", "usage_minutes", "returned_at">>

\* A view nothing has been read for.
Blank == [c \in Cells \ {<<Header, "closed_at">>} |-> None]

\* A return names each bicycle once, and one at least, or step 1 refuses it.
BikeLists == {l \in UNION {[1 .. n -> Bicycles] : n \in DOMAIN Items} : IsInjective(l)}

OpenStatuses == {"activa", "parcialmente_devuelta"}

\* Faulty variant: a rental without active items counts as one without items.
DeriveStatusFailed ==
  LET statuses == {record[<<b, "status">>] : b \in Bicycles}
  IN  IF "activo" \notin statuses THEN "fallida"
      ELSE IF "devuelto" \in statuses THEN "parcialmente_devuelta"
      ELSE "activa"

\* Rental.derive_status.  The code reads the items one by one; they only go from activo
\* to devuelto, so what it finds is what was true at one moment of the walk.
DeriveStatus ==
  LET statuses == {record[<<b, "status">>] : b \in Bicycles}
  IN  IF statuses = {"devuelto"} THEN "completada"
      ELSE IF "devuelto" \in statuses THEN "parcialmente_devuelta"
      ELSE "activa"

Outcomes == {"ok", "refused", "crashed"}

InFlight(q) == pc[q] \notin Outcomes \cup {"idle"}

NoReturnInFlight == \A p \in Returns : ~InFlight(p)

\* Where the rental starts: confirmed, all its bicycles out.
Init ==
  /\ record = [c \in Cells |-> CASE c = <<Header, "status">> -> "activa"
                                 [] c[2] = "status" /\ c[1] # Header -> "activo"
                                 [] OTHER -> None]
  /\ now \in Instants
  /\ pc = [q \in Requests |-> "idle"]
  /\ todo = [q \in Requests |-> <<>>]
  /\ at = [q \in Requests |-> 1]
  /\ stamp = [q \in Requests |-> None]
  /\ derived = [q \in Requests |-> None]
  /\ seen = [q \in Requests |-> Blank]
  /\ told = {}
  /\ known = [q \in Requests |-> {}]
  /\ overlapped = FALSE

-----------------------------------------------------------------------------
(* Requests *)

\* Request q goes from one place to another.
Goto(q, from, to) == pc[q] = from /\ pc' = [pc EXCEPT ![q] = to]

\* Request q goes on to the next field of its item, from the last one to the next item.
Advance(q) ==
  /\ at' = [at EXCEPT ![q] = IF @ = 4 THEN 1 ELSE @ + 1]
  /\ todo' = [todo EXCEPT ![q] = IF at[q] = 4 THEN Tail(@) ELSE @]

\* The item request q is at has no further field, and no item follows.
LastField(q) == at[q] = 4 /\ Tail(todo[q]) = <<>>

\* A thread of the pool takes request q, which is to go through some items.
Begin(q, to, list, bikes) ==
  /\ Cardinality({p \in Requests : InFlight(p)}) < Threads
  /\ Goto(q, "idle", to)
  /\ todo' = [todo EXCEPT ![q] = list]
  /\ known' = [known EXCEPT ![q] = told \cup bikes]
  /\ UNCHANGED <<at, told>>

\* Request q ends, and its locals are gone.
End(q, from, outcome) ==
  /\ Goto(q, from, outcome)
  /\ todo' = [todo EXCEPT ![q] = <<>>]
  /\ stamp' = [stamp EXCEPT ![q] = None]
  /\ seen' = [seen EXCEPT ![q] = Blank]
  /\ known' = [known EXCEPT ![q] = {}]
  /\ UNCHANGED <<at, derived, overlapped>>

-----------------------------------------------------------------------------
(* Returns *)

\* Steps 2 and 3 of ReturnBicycles: the rental is open and the bicycles are active items
\* of it, or the request is refused.
ReturnLoad(p) ==
  /\ \E list \in BikeLists :
       IF /\ record[<<Header, "status">>] \in OpenStatuses
          /\ \A b \in Range(list) : record[<<b, "status">>] = "activo"
       THEN Begin(p, "check", list, Range(list))
       ELSE Begin(p, "refused", <<>>, {})
  /\ overlapped' = (overlapped \/ ~NoReturnInFlight)
  /\ UNCHANGED <<record, now, stamp, derived, seen>>

\* Steps 4 and 5: the station or a bicycle makes it refuse, ...
ReturnRefused(p) ==
  /\ End(p, "check", "refused")
  /\ UNCHANGED <<record, now, told>>

\* ... or step 6 reads the clock, here one that is not set back.
ReturnStamp(p) ==
  /\ Goto(p, "check", "apply")
  /\ \E t \in Instants : t >= now /\ now' = t /\ stamp' = [stamp EXCEPT ![p] = t]
  /\ UNCHANGED <<record, todo, at, derived, seen, histories>>

\* Step 7a, Rental.apply_return: the guard on the header, ...
ReturnApply(p) ==
  /\ record[<<Header, "status">>] \in OpenStatuses
  /\ Goto(p, "apply", "mark")
  /\ UNCHANGED <<record, now, todo, at, stamp, derived, seen, histories>>

ReturnApplyRaises(p) ==
  /\ record[<<Header, "status">>] \notin OpenStatuses
  /\ End(p, "apply", "crashed")
  /\ UNCHANGED <<record, now, told>>

\* ... for each item the guard of mark_returned, ...
ReturnMark(p) ==
  /\ Goto(p, "mark", "mark_write")
  /\ record[<<Head(todo[p]), "status">>] = "activo"
  /\ UNCHANGED <<record, now, todo, at, stamp, derived, seen, histories>>

ReturnMarkRaises(p) ==
  /\ End(p, "mark", "crashed")
  /\ record[<<Head(todo[p]), "status">>] # "activo"
  /\ UNCHANGED <<record, now, told>>

\* ... and its fields one after the other; ...
ReturnMarkWrite(p) ==
  LET field == MarkOrder[at[p]]
  IN  /\ Goto(p, "mark_write", IF LastField(p) THEN "derive"
                               ELSE IF at[p] = 4 THEN "mark" ELSE "mark_write")
      /\ record' = [record EXCEPT ![<<Head(todo[p]), field>>] =
                      IF field = "status" THEN "devuelto" ELSE stamp[p]]
      /\ Advance(p)
      /\ UNCHANGED <<now, stamp, derived, seen, histories>>

\* ... the status derived, ...
ReturnDerive(p) ==
  /\ Goto(p, "derive", "derived")
  /\ derived' = [derived EXCEPT ![p] = DeriveStatus]
  /\ UNCHANGED <<record, now, todo, at, stamp, seen, histories>>

\* Faulty variant: the header keeps the status it had.
ReturnDerivedForgotten(p) ==
  /\ Goto(p, "derived", "close")
  /\ derived' = [derived EXCEPT ![p] = None]
  /\ UNCHANGED <<record, now, todo, at, stamp, seen, histories>>

\* ... and written, ...
ReturnDerived(p) ==
  /\ Goto(p, "derived", "close")
  /\ record' = [record EXCEPT ![<<Header, "status">>] = derived[p]]
  /\ derived' = [derived EXCEPT ![p] = None]
  /\ UNCHANGED <<now, todo, at, stamp, seen, histories>>

\* Faulty variant: forgets the condition on the header.
CompleteAndOpenAnyStatus == record[<<Header, "closed_at">>] = None

\* The rental is complete for the first time.
CompleteAndOpen ==
  /\ record[<<Header, "status">>] = "completada"
  /\ record[<<Header, "closed_at">>] = None

\* ... and the rental closed, if it is complete for the first time.
ReturnClose(p) ==
  /\ Goto(p, "close", IF CompleteAndOpen THEN "close_write" ELSE "commit")
  /\ UNCHANGED <<record, now, todo, at, stamp, derived, seen, histories>>

ReturnCloseWrite(p) ==
  /\ Goto(p, "close_write", "commit")
  /\ record' = [record EXCEPT ![<<Header, "closed_at">>] = stamp[p]]
  /\ UNCHANGED <<now, todo, at, stamp, derived, seen, histories>>

\* Steps 7b to 7d: a bicycle or the station raises, when another request interfered, ...
ReturnCrashed(p) ==
  /\ End(p, "commit", "crashed")
  /\ UNCHANGED <<record, now, told>>

\* ... or the return is done, and its answer will be a view of the stored rental.
ReturnDone(p) ==
  /\ Goto(p, "commit", "view")
  /\ todo' = [todo EXCEPT ![p] = Items]
  /\ stamp' = [stamp EXCEPT ![p] = None]
  /\ UNCHANGED <<record, now, at, derived, seen, histories>>

-----------------------------------------------------------------------------
(* Views *)

\* GET /rentals/{id} of the rental, which is stored.
Get(g) ==
  /\ Begin(g, "view", Items, {})
  /\ UNCHANGED <<record, now, stamp, derived, seen, overlapped>>

\* _rental_view reads the header's status first, ...
ViewHeader(q) ==
  /\ Goto(q, "view", "view_item")
  /\ seen' = [seen EXCEPT ![q][<<Header, "status">>] = record[<<Header, "status">>]]
  /\ UNCHANGED <<record, now, todo, at, stamp, derived, histories>>

\* Faulty variant: reads the header again with every field.
ViewItemAndHeader(q) ==
  LET cell == <<Head(todo[q]), ReadOrder[at[q]]>>
  IN  /\ Goto(q, "view_item", IF LastField(q) THEN "answer" ELSE "view_item")
      /\ seen' = [seen EXCEPT ![q][cell] = record[cell],
                              ![q][<<Header, "status">>] = record[<<Header, "status">>]]
      /\ Advance(q)
      /\ UNCHANGED <<record, now, stamp, derived, histories>>

\* ... and then each item's fields.
ViewItem(q) ==
  LET cell == <<Head(todo[q]), ReadOrder[at[q]]>>
  IN  /\ Goto(q, "view_item", IF LastField(q) THEN "answer" ELSE "view_item")
      /\ seen' = [seen EXCEPT ![q][cell] = record[cell]]
      /\ Advance(q)
      /\ UNCHANGED <<record, now, stamp, derived, histories>>

\* The client has its answer.
Answer(q) ==
  /\ End(q, "answer", "ok")
  /\ told' = told \cup known[q]
  /\ UNCHANGED <<record, now>>

ReturnStep(p) ==
  \/ ReturnRefused(p) \/ ReturnStamp(p)
  \/ ReturnApply(p) \/ ReturnApplyRaises(p)
  \/ ReturnMark(p) \/ ReturnMarkRaises(p) \/ ReturnMarkWrite(p)
  \/ ReturnDerive(p) \/ ReturnDerived(p) \/ ReturnClose(p) \/ ReturnCloseWrite(p)
  \/ ReturnCrashed(p) \/ ReturnDone(p)

Next ==
  \/ \E p \in Returns : ReturnLoad(p) \/ ReturnStep(p)
  \/ \E g \in Gets : Get(g)
  \/ \E q \in Requests : ViewHeader(q) \/ ViewItem(q) \/ Answer(q)

Spec == Init /\ [][Next]_vars

-----------------------------------------------------------------------------
(* Invariants *)

TypeOK ==
  /\ \A c \in Cells :
       record[c] \in CASE c = <<Header, "status">> -> OpenStatuses \cup {"completada"}
                       [] c[2] = "status" /\ c[1] # Header -> {"activo", "devuelto"}
                       [] OTHER -> Instants \cup {None}
  /\ now \in Instants
  /\ \A q \in Requests : pc[q] \in Outcomes \cup
       {"idle", "check", "apply", "mark", "mark_write", "derive", "derived", "close",
        "close_write", "commit", "view", "view_item", "answer"}
  /\ \A q \in Requests : stamp[q] \in Instants \cup {None}
  /\ \A q \in Requests : derived[q] \in OpenStatuses \cup {"completada", None}
  /\ told \subseteq Bicycles /\ \A q \in Requests : known[q] \subseteq Bicycles
  /\ overlapped \in BOOLEAN

\* The status of item b in the view of q, and what the view has of its return.
Status(q, b) == seen[q][<<b, "status">>]
Shown(q, b) == {seen[q][<<b, f>>] : f \in ReturnFields}

OneValue(values) == Cardinality(values) = 1

\* A view is never ahead of the bicycles: when it says that the rental is complete it
\* shows every bicycle returned, and when it says that it is partly returned, one.
ViewNotAhead ==
  \A q \in Requests : pc[q] = "answer" =>
    /\ seen[q][<<Header, "status">>] = "completada" =>
         \A b \in Bicycles : Status(q, b) = "devuelto"
    /\ seen[q][<<Header, "status">>] = "parcialmente_devuelta" =>
         \E b \in Bicycles : Status(q, b) = "devuelto"

\* A view that shows what a bicycle is billed shows what it is billed for: the minutes and
\* the instant of its return; of one return, unless two overlapped.
ViewAmountDated ==
  \A q \in Requests, b \in Bicycles :
    pc[q] = "answer" /\ seen[q][<<b, "final_amount">>] # None =>
      /\ None \notin Shown(q, b)
      /\ ~overlapped => OneValue(Shown(q, b))

\* Clients see the returns they were told of: the view of a return, and every view asked
\* for once it was answered, shows its bicycles returned and billed and the rental no longer
\* whole; complete when all its bicycles were, unless two returns overlapped.
AnsweredReturnsSeen ==
  \A q \in Requests : pc[q] = "answer" =>
    /\ \A b \in known[q] : Status(q, b) = "devuelto" /\ None \notin Shown(q, b)
    /\ known[q] # {} => seen[q][<<Header, "status">>] # "activa"
    /\ known[q] = Bicycles /\ ~overlapped => seen[q][<<Header, "status">>] = "completada"

\* What returns that did not overlap leave behind, the refused and the crashed included:
\* each item has the instant, the minutes and the amount of one return or none of them,
\* the header is the one the items derive, and the rental is closed exactly when it is
\* complete, at the instant its last bicycle came back.
SettledRecord ==
  NoReturnInFlight /\ ~overlapped =>
    /\ \A b \in Bicycles :
         LET values == {record[<<b, f>>] : f \in ReturnFields}
         IN  /\ OneValue(values)
             /\ record[<<b, "status">>] = "devuelto" <=> None \notin values
    /\ record[<<Header, "status">>] = DeriveStatus
    /\ IF record[<<Header, "status">>] = "completada"
       THEN record[<<Header, "closed_at">>] =
              Max({record[<<b, "returned_at">>] : b \in Bicycles})
       ELSE record[<<Header, "closed_at">>] = None

\* schemas.py: the fields of the return "son nulos mientras el ítem está activo y se
\* rellenan al devolverlo", in every view a client is shown.
ItemViewWhole ==
  \A q \in Requests, b \in Bicycles : pc[q] = "answer" =>
    IF Status(q, b) = "activo" THEN Shown(q, b) = {None} ELSE None \notin Shown(q, b)
=============================================================================
