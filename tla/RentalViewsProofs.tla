------------------------- MODULE RentalViewsProofs -------------------------
(***************************************************************************)
(* Proofs about RentalViews, for any list of items, any number of returns, *)
(* GETs and threads, and any clock that is not set back.  Two invariants   *)
(* carry them: what holds however returns overlap, because fields are only *)
(* ever filled in and each walk reads or writes them in a known order; and *)
(* what holds as long as none have.                                        *)
(***************************************************************************)
EXTENDS RentalViews, SequenceTheorems, FiniteSetTheorems, TLAPS

\* A field that is not filled in is told from one that is (Python's None).
Statuses == OpenStatuses \cup {"completada"}

Values == Statuses \cup {"activo", "devuelto"} \cup Instants \cup {None}

ViewCells == Cells \ {<<Header, "closed_at">>}

\* What a return does once it has read the clock; before that it is at "check".
Writing == {"apply", "mark", "mark_write", "derive", "derived", "close", "close_write",
            "commit"}

Marking == {"check", "apply", "mark", "mark_write"}

Viewing == {"view", "view_item", "answer"}

Labels == Outcomes \cup {"idle", "check"} \cup Writing \cup Viewing

HeaderStatus == record[<<Header, "status">>]
ClosedAt == record[<<Header, "closed_at">>]
ItemStatus(b) == record[<<b, "status">>]
Instant(b) == record[<<b, "returned_at">>]
Minutes(b) == record[<<b, "usage_minutes">>]
Amount(b) == record[<<b, "final_amount">>]

SeenHeader(q) == seen[q][<<Header, "status">>]
SeenInstant(q, b) == seen[q][<<b, "returned_at">>]
SeenMinutes(q, b) == seen[q][<<b, "usage_minutes">>]
SeenAmount(q, b) == seen[q][<<b, "final_amount">>]

-----------------------------------------------------------------------------
(* The invariant, whatever the interleaving *)

DataTypes ==
  /\ record \in [Cells -> Values]
  /\ HeaderStatus \in Statuses /\ ClosedAt \in Instants \cup {None}
  /\ \A b \in Bicycles :
       /\ ItemStatus(b) \in {"activo", "devuelto"}
       /\ Instant(b) \in Instants \cup {None}
       /\ Minutes(b) \in Instants \cup {None}
       /\ Amount(b) \in Instants \cup {None}
  /\ now \in Instants
  /\ pc \in [Requests -> Labels]
  /\ todo \in [Requests -> Seq(Bicycles)]
  /\ at \in [Requests -> 1 .. 4]
  /\ stamp \in [Requests -> Instants \cup {None}]
  /\ derived \in [Requests -> Statuses \cup {None}]
  /\ seen \in [Requests -> [ViewCells -> Values]]
  /\ told \in SUBSET Bicycles
  /\ known \in [Requests -> SUBSET Bicycles]
  /\ overlapped \in BOOLEAN

\* Which locals of a request mean something where it is.
Locals(q) ==
  /\ pc[q] \in {"check"} \cup Writing => q \in Returns
  /\ pc[q] \in Writing => stamp[q] \in Instants
  /\ pc[q] \in Marking \cup {"view_item"} => todo[q] # <<>>
  /\ pc[q] = "view" => todo[q] = Items
  /\ pc[q] = "answer" => todo[q] = <<>>
  /\ pc[q] \notin {"mark_write", "view_item"} => at[q] = 1
  /\ \A i, j \in 1 .. Len(todo[q]) : todo[q][i] = todo[q][j] => i = j
  /\ pc[q] = "derived" => derived[q] \in {"parcialmente_devuelta", "completada"}

Returned(b) ==
  ItemStatus(b) = "devuelto" /\ Instant(b) # None /\ Minutes(b) # None /\ Amount(b) # None

\* The fields of an item are filled in from the first to the last, and the header is never
\* ahead of the items; what clients were told is so.
RecordOrder ==
  /\ \A b \in Bicycles :
       /\ Amount(b) # None => Minutes(b) # None
       /\ Minutes(b) # None => Instant(b) # None
       /\ Instant(b) # None => ItemStatus(b) = "devuelto" /\ Instant(b) <= now
  /\ HeaderStatus = "completada" => \A b \in Bicycles : ItemStatus(b) = "devuelto"
  /\ HeaderStatus = "parcialmente_devuelta" => \E b \in Bicycles : ItemStatus(b) = "devuelto"
  /\ \A b \in told : Returned(b)
  /\ told # {} => HeaderStatus # "activa"
  /\ \A g \in Gets : known[g] \subseteq told

\* How far a return is with the items it marks, and with the header.
Place(q) ==
  /\ pc[q] \in Writing => stamp[q] <= now
  /\ pc[q] = "mark_write" =>
       /\ at[q] > 1 => ItemStatus(Head(todo[q])) = "devuelto"
       /\ at[q] > 2 => Instant(Head(todo[q])) # None
       /\ at[q] > 3 => Minutes(Head(todo[q])) # None
  /\ pc[q] \in Marking => \A b \in known[q] : Returned(b) \/ b \in Range(todo[q])
  /\ pc[q] \in (Writing \ Marking) \cup Viewing => \A b \in known[q] : Returned(b)
  /\ pc[q] \in Marking \cup Writing => known[q] # {}
  /\ pc[q] \in {"derive", "derived"} => \E b \in Bicycles : ItemStatus(b) = "devuelto"
  /\ pc[q] = "derived" /\ derived[q] = "completada" =>
       \A b \in Bicycles : ItemStatus(b) = "devuelto"
  /\ pc[q] \in {"close", "close_write", "commit"} => HeaderStatus # "activa"
  /\ pc[q] \in Viewing /\ known[q] # {} => HeaderStatus # "activa"

\* The view has field number k of item b.
Read(q, b, k) == b \in Range(todo[q]) => b = Head(todo[q]) /\ k < at[q]

\* What a view has of each field that has been read.
Shows(q) ==
  pc[q] \in {"view_item", "answer"} =>
    /\ SeenHeader(q) \in Statuses
    /\ SeenHeader(q) = "completada" =>
         \A b \in Bicycles : /\ ItemStatus(b) = "devuelto"
                             /\ Read(q, b, 1) => Status(q, b) = "devuelto"
    /\ SeenHeader(q) = "parcialmente_devuelta" =>
         \E b \in Bicycles : /\ ItemStatus(b) = "devuelto"
                             /\ Read(q, b, 1) => Status(q, b) = "devuelto"
    /\ known[q] # {} => SeenHeader(q) # "activa"
    /\ \A b \in Bicycles : Read(q, b, 2) /\ SeenAmount(q, b) # None =>
         /\ Minutes(b) # None /\ Instant(b) # None
         /\ Read(q, b, 3) => SeenMinutes(q, b) # None
         /\ Read(q, b, 4) => SeenInstant(q, b) # None
    /\ \A b \in known[q] :
         /\ Read(q, b, 1) => Status(q, b) = "devuelto"
         /\ Read(q, b, 2) => SeenAmount(q, b) # None
         /\ Read(q, b, 3) => SeenMinutes(q, b) # None
         /\ Read(q, b, 4) => SeenInstant(q, b) # None

Inv ==
  /\ DataTypes /\ RecordOrder
  /\ \A q \in Requests : Locals(q) /\ Place(q) /\ Shows(q)

-----------------------------------------------------------------------------
(* The invariant as long as no two returns have overlapped *)

Fresh(b) ==
  ItemStatus(b) = "activo" /\ Instant(b) = None /\ Minutes(b) = None /\ Amount(b) = None

Dated(b) ==
  /\ ItemStatus(b) = "devuelto" /\ Instant(b) # None
  /\ Minutes(b) = Instant(b) /\ Amount(b) = Instant(b)

\* Item b with its first k - 1 fields written.
PartlyDated(b, k, t) ==
  /\ ItemStatus(b) = IF k > 1 THEN "devuelto" ELSE "activo"
  /\ Instant(b) = IF k > 2 THEN t ELSE None
  /\ Minutes(b) = IF k > 3 THEN t ELSE None
  /\ Amount(b) = None

\* A return is writing item b.
IsMarked(b) == \E p \in Returns : pc[p] = "mark_write" /\ at[p] > 1 /\ b = Head(todo[p])

LastReturn(t) ==
  /\ \E b \in Bicycles : Instant(b) = t
  /\ \A b \in Bicycles : Instant(b) # None => Instant(b) <= t

\* Where a return has the header behind the items, or not closed yet.
BehindAt == {"mark", "mark_write", "derive", "derived"}
ClosingAt == BehindAt \cup {"close", "close_write"}

Behind == \E p \in Returns : pc[p] \in BehindAt
Closing == \E p \in Returns : pc[p] \in ClosingAt

SerialRecord ==
  /\ \A p, r \in Returns : InFlight(p) /\ InFlight(r) => p = r
  /\ \A b \in Bicycles : Fresh(b) \/ Dated(b) \/ IsMarked(b)
  /\ ~Behind => HeaderStatus = DeriveStatus
  /\ ~Closing => IF HeaderStatus = "completada" THEN LastReturn(ClosedAt) ELSE ClosedAt = None

SerialPlace(p) ==
  /\ pc[p] \in Writing => stamp[p] = now
  /\ pc[p] \in Marking =>
       \A i \in 1 .. Len(todo[p]) : Fresh(todo[p][i]) \/ (i = 1 /\ pc[p] = "mark_write")
  /\ pc[p] = "mark_write" => PartlyDated(Head(todo[p]), at[p], stamp[p])
  /\ pc[p] \in BehindAt =>
       HeaderStatus \in OpenStatuses /\ ClosedAt = None
  /\ pc[p] = "derived" => derived[p] = DeriveStatus
  /\ pc[p] \in {"close", "close_write"} => ClosedAt = None
  /\ pc[p] = "close_write" => HeaderStatus = "completada"
  /\ pc[p] \in {"derive", "derived", "close", "close_write"} => LastReturn(stamp[p])
  /\ pc[p] \in {"check"} \cup Writing => \E b \in known[p] : b \notin told

SerialShows(q) ==
  /\ pc[q] \in Viewing /\ known[q] = Bicycles => HeaderStatus = "completada"
  /\ pc[q] \in {"view_item", "answer"} /\ known[q] = Bicycles => SeenHeader(q) = "completada"
  /\ pc[q] \in {"view_item", "answer"} =>
       \A b \in Bicycles : Read(q, b, 2) /\ SeenAmount(q, b) # None =>
         /\ SeenAmount(q, b) = Amount(b)
         /\ Read(q, b, 3) => SeenMinutes(q, b) = Amount(b)
         /\ Read(q, b, 4) => SeenInstant(q, b) = Amount(b)

SerialInv ==
  ~overlapped =>
    /\ SerialRecord
    /\ \A p \in Returns : SerialPlace(p)
    /\ \A q \in Requests : SerialShows(q)

IInv == Inv /\ SerialInv

-----------------------------------------------------------------------------
(* Cells, lists and steps *)

LEMMA CellsHere ==
  /\ <<Header, "status">> \in ViewCells /\ <<Header, "closed_at">> \in Cells
  /\ ViewCells \subseteq Cells
  /\ \A b \in Bicycles :
       /\ b # Header
       /\ <<b, "status">> \in ViewCells /\ <<b, "returned_at">> \in ViewCells
       /\ <<b, "usage_minutes">> \in ViewCells /\ <<b, "final_amount">> \in ViewCells
<1>1. Header \notin Bicycles
  BY ItemsAssumption
<1>. QED  BY <1>1 DEF ViewCells, Cells, ReturnFields

LEMMA Orders ==
  /\ MarkOrder[1] = "status" /\ MarkOrder[2] = "returned_at"
  /\ MarkOrder[3] = "usage_minutes" /\ MarkOrder[4] = "final_amount"
  /\ ReadOrder[1] = "status" /\ ReadOrder[2] = "final_amount"
  /\ ReadOrder[3] = "usage_minutes" /\ ReadOrder[4] = "returned_at"
BY DEF MarkOrder, ReadOrder

\* The head of a list without repetitions is in it, and its tail has the others.
LEMMA ListParts ==
  ASSUME NEW list \in Seq(Bicycles), list # <<>>,
         \A i, j \in 1 .. Len(list) : list[i] = list[j] => i = j
  PROVE  /\ Head(list) = list[1] /\ Head(list) \in Bicycles /\ Head(list) \in Range(list)
         /\ 1 \in 1 .. Len(list)
         /\ Tail(list) \in Seq(Bicycles) /\ Len(Tail(list)) = Len(list) - 1
         /\ \A i \in 1 .. Len(Tail(list)) : Tail(list)[i] = list[i + 1] /\ i + 1 \in 1 .. Len(list)
         /\ \A i, j \in 1 .. Len(Tail(list)) : Tail(list)[i] = Tail(list)[j] => i = j
         /\ Range(Tail(list)) = Range(list) \ {Head(list)}
<1>1. Len(list) \in Nat /\ Len(list) > 0 /\ DOMAIN list = 1 .. Len(list)
  BY EmptySeq
<1>2. Head(list) = list[1] /\ 1 \in 1 .. Len(list) /\ Head(list) \in Bicycles
  BY <1>1
<1>3. /\ Tail(list) \in Seq(Bicycles) /\ Len(Tail(list)) = Len(list) - 1
      /\ \A i \in 1 .. Len(Tail(list)) : Tail(list)[i] = list[i + 1]
  BY HeadTailProperties
<1>4. DOMAIN Tail(list) = 1 .. (Len(list) - 1)
  BY <1>3
<1>5. \A i \in 1 .. Len(Tail(list)) : i + 1 \in 1 .. Len(list)
  BY <1>1, <1>3
<1>6. \A i, j \in 1 .. Len(Tail(list)) : Tail(list)[i] = Tail(list)[j] => i = j
  BY <1>3, <1>5
<1>7. Head(list) \in Range(list)
  BY <1>1, <1>2 DEF Range
<1>8. ASSUME NEW x \in Range(Tail(list)) PROVE x \in Range(list) \ {Head(list)}
  <2>1. PICK i \in 1 .. Len(Tail(list)) : x = Tail(list)[i]
    BY <1>3, <1>4 DEF Range
  <2>2. x = list[i + 1] /\ i + 1 \in 1 .. Len(list) /\ i + 1 # 1
    BY <1>3, <1>5, <2>1
  <2>. QED  BY <1>1, <1>2, <2>2 DEF Range
<1>9. ASSUME NEW x \in Range(list) \ {Head(list)} PROVE x \in Range(Tail(list))
  <2>1. PICK i \in 1 .. Len(list) : x = list[i]
    BY <1>1 DEF Range
  <2>2. i # 1
    BY <1>2, <1>9, <2>1
  <2>3. i - 1 \in 1 .. (Len(list) - 1) /\ (i - 1) + 1 = i
    BY <1>1, <2>2
  <2>4. Tail(list)[i - 1] = list[(i - 1) + 1]
    BY <1>3, <2>3
  <2>. QED  BY <1>4, <2>1, <2>3, <2>4 DEF Range
<1>. QED  BY <1>2, <1>3, <1>5, <1>6, <1>7, <1>8, <1>9

LEMMA NoBikes == <<>> \in Seq(Bicycles) /\ Len(<<>>) = 0 /\ Range(<<>>) = {}
BY DEF Range

\* The list a return names.
LEMMA NamedList ==
  ASSUME NEW list \in BikeLists
  PROVE  /\ list \in Seq(Bicycles) /\ list # <<>>
         /\ \A i, j \in 1 .. Len(list) : list[i] = list[j] => i = j
         /\ Range(list) \subseteq Bicycles /\ Range(list) # {}
         /\ \A i \in 1 .. Len(list) : list[i] \in Range(list)
<1>1. PICK n \in DOMAIN Items : list \in [1 .. n -> Bicycles]
  BY DEF BikeLists
<1>2. IsInjective(list)
  BY DEF BikeLists
<1>3. n \in Nat /\ n > 0
  BY <1>1, ItemsAssumption
<1>4. list \in Seq(Bicycles) /\ Len(list) = n /\ DOMAIN list = 1 .. n
  BY <1>1, <1>3
<1>5. 1 \in 1 .. n /\ list # <<>>
  BY <1>3, <1>4
<1>6. \A i \in 1 .. n : list[i] \in Range(list) /\ list[i] \in Bicycles
  BY <1>1, <1>4 DEF Range
<1>. QED  BY <1>1, <1>2, <1>4, <1>5, <1>6 DEF IsInjective, Range

LEMMA AllItems ==
  /\ Items \in Seq(Bicycles) /\ Items # <<>>
  /\ \A i, j \in 1 .. Len(Items) : Items[i] = Items[j] => i = j
  /\ Range(Items) = Bicycles
<1>1. DOMAIN Items = 1 .. Len(Items)
  BY ItemsAssumption
<1>. QED  BY <1>1, ItemsAssumption DEF IsInjective, Bicycles

\* What request q does next.
StepOf(q) ==
  \/ q \in Returns /\ (ReturnLoad(q) \/ ReturnStep(q))
  \/ q \in Gets /\ Get(q)
  \/ ViewHeader(q) \/ ViewItem(q) \/ Answer(q)

LEMMA StepsOf == [Next]_vars => UNCHANGED vars \/ \E q \in Requests : StepOf(q)
BY DEF Next, StepOf, Requests

\* The three kinds of moves: a request begins, goes on, or ends.
LEMMA BeginMove ==
  ASSUME DataTypes, NEW q \in Requests, NEW to \in Labels, NEW list \in Seq(Bicycles),
         NEW bikes \in SUBSET Bicycles, Begin(q, to, list, bikes)
  PROVE  /\ pc[q] = "idle"
         /\ pc' \in [Requests -> Labels] /\ todo' \in [Requests -> Seq(Bicycles)]
         /\ known' \in [Requests -> SUBSET Bicycles] /\ at' = at /\ told' = told
         /\ pc'[q] = to /\ todo'[q] = list /\ known'[q] = told \cup bikes
         /\ \A r \in Requests \ {q} :
              pc'[r] = pc[r] /\ todo'[r] = todo[r] /\ known'[r] = known[r]
<1>1. told \cup bikes \in SUBSET Bicycles
  BY DEF DataTypes
<1>. QED  BY <1>1 DEF Begin, Goto, DataTypes

LEMMA GotoMove ==
  ASSUME DataTypes, NEW q \in Requests, NEW from, NEW to \in Labels, Goto(q, from, to)
  PROVE  /\ pc[q] = from /\ pc' \in [Requests -> Labels] /\ pc'[q] = to
         /\ \A r \in Requests \ {q} : pc'[r] = pc[r]
BY DEF Goto, DataTypes

LEMMA BlankView == Blank \in [ViewCells -> Values]
BY DEF Blank, ViewCells, Values

LEMMA EndMove ==
  ASSUME DataTypes, NEW q \in Requests, NEW from, NEW outcome \in Labels,
         End(q, from, outcome)
  PROVE  /\ pc[q] = from /\ pc' \in [Requests -> Labels]
         /\ todo' \in [Requests -> Seq(Bicycles)]
         /\ stamp' \in [Requests -> Instants \cup {None}]
         /\ seen' \in [Requests -> [ViewCells -> Values]]
         /\ known' \in [Requests -> SUBSET Bicycles]
         /\ at' = at /\ derived' = derived /\ overlapped' = overlapped
         /\ pc'[q] = outcome /\ todo'[q] = <<>> /\ known'[q] = {}
         /\ \A r \in Requests \ {q} :
              /\ pc'[r] = pc[r] /\ todo'[r] = todo[r] /\ stamp'[r] = stamp[r]
              /\ seen'[r] = seen[r] /\ known'[r] = known[r]
<1>1. pc[q] = from /\ pc' \in [Requests -> Labels] /\ pc'[q] = outcome
        /\ \A r \in Requests \ {q} : pc'[r] = pc[r]
  BY GotoMove DEF End
<1>2. <<>> \in Seq(Bicycles)
  BY NoBikes
<1>3. todo' \in [Requests -> Seq(Bicycles)] /\ todo'[q] = <<>>
        /\ \A r \in Requests \ {q} : todo'[r] = todo[r]
  BY <1>2 DEF End, DataTypes
<1>4. stamp' \in [Requests -> Instants \cup {None}]
        /\ \A r \in Requests \ {q} : stamp'[r] = stamp[r]
  BY DEF End, DataTypes
<1>5. seen' \in [Requests -> [ViewCells -> Values]]
        /\ \A r \in Requests \ {q} : seen'[r] = seen[r]
  BY BlankView DEF End, DataTypes
<1>6. known' \in [Requests -> SUBSET Bicycles] /\ known'[q] = {}
        /\ \A r \in Requests \ {q} : known'[r] = known[r]
  BY DEF End, DataTypes
<1>. QED  BY <1>1, <1>3, <1>4, <1>5, <1>6 DEF End

LEMMA AdvanceMove ==
  ASSUME DataTypes, NEW q \in Requests, Locals(q), todo[q] # <<>>, Advance(q)
  PROVE  /\ at' \in [Requests -> 1 .. 4] /\ todo' \in [Requests -> Seq(Bicycles)]
         /\ at'[q] = IF at[q] = 4 THEN 1 ELSE at[q] + 1
         /\ todo'[q] = IF at[q] = 4 THEN Tail(todo[q]) ELSE todo[q]
         /\ \A i, j \in 1 .. Len(todo'[q]) : todo'[q][i] = todo'[q][j] => i = j
         /\ Head(todo[q]) \in Bicycles /\ Head(todo[q]) \in Range(todo[q])
         /\ at[q] \in 1 .. 4
         /\ \A r \in Requests \ {q} : at'[r] = at[r] /\ todo'[r] = todo[r]
<1>1. todo[q] \in Seq(Bicycles) /\ \A i, j \in 1 .. Len(todo[q]) : todo[q][i] = todo[q][j] => i = j
  BY DEF DataTypes, Locals
<1>2. /\ Tail(todo[q]) \in Seq(Bicycles)
      /\ \A i, j \in 1 .. Len(Tail(todo[q])) : Tail(todo[q])[i] = Tail(todo[q])[j] => i = j
      /\ Head(todo[q]) \in Bicycles /\ Head(todo[q]) \in Range(todo[q])
  BY <1>1, ListParts
<1>3. at[q] \in 1 .. 4
  BY DEF DataTypes
<1>4. /\ at' \in [Requests -> 1 .. 4] /\ at'[q] = IF at[q] = 4 THEN 1 ELSE at[q] + 1
      /\ \A r \in Requests \ {q} : at'[r] = at[r]
  BY <1>3 DEF Advance, DataTypes
<1>5. /\ todo' \in [Requests -> Seq(Bicycles)]
      /\ todo'[q] = IF at[q] = 4 THEN Tail(todo[q]) ELSE todo[q]
      /\ \A r \in Requests \ {q} : todo'[r] = todo[r]
  BY <1>2 DEF Advance, DataTypes
<1>. QED  BY <1>1, <1>2, <1>3, <1>4, <1>5

\* A step of q leaves the locals of the other requests alone.
Stays(r) ==
  /\ pc'[r] = pc[r] /\ todo'[r] = todo[r] /\ at'[r] = at[r] /\ stamp'[r] = stamp[r]
  /\ derived'[r] = derived[r] /\ seen'[r] = seen[r] /\ known'[r] = known[r]

LEMMA OthersStay ==
  ASSUME DataTypes, NEW q \in Requests, StepOf(q), NEW r \in Requests, r # q
  PROVE  Stays(r)
<1>1. ASSUME NEW from, NEW to, Goto(q, from, to) PROVE pc'[r] = pc[r]
  BY <1>1 DEF Goto, DataTypes
<1>2. ASSUME NEW to, NEW list, NEW bikes, Begin(q, to, list, bikes)
      PROVE  pc'[r] = pc[r] /\ todo'[r] = todo[r] /\ known'[r] = known[r] /\ at' = at
  BY <1>2 DEF Begin, Goto, DataTypes
<1>3. ASSUME NEW from, NEW outcome, End(q, from, outcome)
      PROVE  Stays(r)
  BY <1>3 DEF End, Goto, DataTypes, Stays
<1>4. Advance(q) => at'[r] = at[r] /\ todo'[r] = todo[r]
  BY DEF Advance, DataTypes
<1>5. ReturnLoad(q) => Stays(r)
  BY <1>2 DEF ReturnLoad, Stays
<1>6. ReturnRefused(q) \/ ReturnApplyRaises(q) \/ ReturnMarkRaises(q) \/ ReturnCrashed(q)
        \/ Answer(q) => Stays(r)
  BY <1>3 DEF ReturnRefused, ReturnApplyRaises, ReturnMarkRaises, ReturnCrashed, Answer
<1>7. ReturnStamp(q) => Stays(r)
  BY <1>1 DEF ReturnStamp, Stays, DataTypes, histories
<1>8. ReturnApply(q) \/ ReturnMark(q) \/ ReturnClose(q) \/ ReturnCloseWrite(q) => Stays(r)
  BY <1>1 DEF ReturnApply, ReturnMark, ReturnClose, ReturnCloseWrite, Stays, histories
<1>9. ReturnMarkWrite(q) => Stays(r)
  BY <1>1, <1>4 DEF ReturnMarkWrite, Stays, histories
<1>10. ReturnDerive(q) \/ ReturnDerived(q) => Stays(r)
  BY <1>1 DEF ReturnDerive, ReturnDerived, Stays, DataTypes, histories
<1>11. ReturnDone(q) => Stays(r)
  BY <1>1 DEF ReturnDone, Stays, DataTypes, histories
<1>12. Get(q) => Stays(r)
  BY <1>2 DEF Get, Stays
<1>13. ViewHeader(q) => Stays(r)
  BY <1>1 DEF ViewHeader, Stays, DataTypes, histories
<1>14. ViewItem(q) => Stays(r)
  BY <1>1, <1>4 DEF ViewItem, Stays, DataTypes, histories
<1>. QED  BY <1>5, <1>6, <1>7, <1>8, <1>9, <1>10, <1>11, <1>12, <1>13, <1>14
          DEF StepOf, ReturnStep

\* The locals of q are those of a request without any.
LEMMA EndedLocals ==
  ASSUME NEW q \in Requests, pc'[q] \in Outcomes, at'[q] = 1, todo'[q] = <<>>
  PROVE  Locals(q)'
<1>1. pc'[q] \notin {"check", "answer", "mark_write", "derived"} \cup Writing \cup Viewing \cup Marking
  BY DEF Outcomes, Writing, Viewing, Marking
<1>2. \A i, j \in 1 .. Len(todo'[q]) : todo'[q][i] = todo'[q][j] => i = j
  BY NoBikes
<1>. QED  BY <1>1, <1>2 DEF Locals, Viewing

-----------------------------------------------------------------------------
(* Types *)

\* The names of fields are notation.
USE DEF HeaderStatus, ClosedAt, ItemStatus, Instant, Minutes, Amount,
        Status, SeenHeader, SeenInstant, SeenMinutes, SeenAmount

\* What marking an item does to the record: one field of one item.
LEMMA MarkWrites ==
  ASSUME DataTypes, NEW p \in Returns, Locals(p), ReturnMarkWrite(p)
  PROVE  /\ record' \in [Cells -> Values]
         /\ stamp[p] \in Instants /\ Head(todo[p]) \in Bicycles /\ at[p] \in 1 .. 4
         /\ HeaderStatus' = HeaderStatus /\ ClosedAt' = ClosedAt
         /\ \A x \in Bicycles :
              /\ ItemStatus(x)' = IF x = Head(todo[p]) /\ at[p] = 1 THEN "devuelto"
                                  ELSE ItemStatus(x)
              /\ Instant(x)' = IF x = Head(todo[p]) /\ at[p] = 2 THEN stamp[p] ELSE Instant(x)
              /\ Minutes(x)' = IF x = Head(todo[p]) /\ at[p] = 3 THEN stamp[p] ELSE Minutes(x)
              /\ Amount(x)' = IF x = Head(todo[p]) /\ at[p] = 4 THEN stamp[p] ELSE Amount(x)
<1>1. p \in Requests /\ pc[p] = "mark_write" /\ Advance(p)
  BY DEF ReturnMarkWrite, Goto, Requests
<1>2. todo[p] # <<>> /\ stamp[p] \in Instants
  BY <1>1 DEF Locals, Marking, Writing
<1>3. Head(todo[p]) \in Bicycles /\ at[p] \in 1 .. 4
  BY <1>1, <1>2, AdvanceMove
<1>. DEFINE b == Head(todo[p])
            cell == <<b, MarkOrder[at[p]]>>
<1>4. cell \in Cells
  <2>1. MarkOrder[at[p]] \in {"status", "returned_at", "usage_minutes", "final_amount"}
    BY <1>3, Orders
  <2>. QED  BY <1>3, <2>1, CellsHere
<1>5. record' = [record EXCEPT ![cell] = IF MarkOrder[at[p]] = "status" THEN "devuelto"
                                         ELSE stamp[p]]
  BY DEF ReturnMarkWrite
<1>6. (IF MarkOrder[at[p]] = "status" THEN "devuelto" ELSE stamp[p]) \in Values
  BY <1>2 DEF Values
<1>7. record' \in [Cells -> Values]
  BY <1>5, <1>6 DEF DataTypes
<1>8. \A c \in Cells : record'[c] = IF c = cell
                                    THEN IF MarkOrder[at[p]] = "status" THEN "devuelto"
                                         ELSE stamp[p]
                                    ELSE record[c]
  BY <1>4, <1>5 DEF DataTypes
<1>9. cell # <<Header, "status">> /\ cell # <<Header, "closed_at">>
  BY <1>3, CellsHere
<1>10. HeaderStatus' = HeaderStatus /\ ClosedAt' = ClosedAt
  BY <1>8, <1>9, CellsHere
<1>11. ASSUME NEW x \in Bicycles
       PROVE  /\ ItemStatus(x)' = IF x = b /\ at[p] = 1 THEN "devuelto" ELSE ItemStatus(x)
              /\ Instant(x)' = IF x = b /\ at[p] = 2 THEN stamp[p] ELSE Instant(x)
              /\ Minutes(x)' = IF x = b /\ at[p] = 3 THEN stamp[p] ELSE Minutes(x)
              /\ Amount(x)' = IF x = b /\ at[p] = 4 THEN stamp[p] ELSE Amount(x)
  <2>1. <<x, "status">> \in Cells /\ <<x, "returned_at">> \in Cells
          /\ <<x, "usage_minutes">> \in Cells /\ <<x, "final_amount">> \in Cells
    BY CellsHere
  <2>2. at[p] = 1 \/ at[p] = 2 \/ at[p] = 3 \/ at[p] = 4
    BY <1>3
  <2>3. CASE at[p] = 1
    BY <1>8, <2>1, <2>3, Orders
  <2>4. CASE at[p] = 2
    BY <1>8, <2>1, <2>4, Orders
  <2>5. CASE at[p] = 3
    BY <1>8, <2>1, <2>5, Orders
  <2>6. CASE at[p] = 4
    BY <1>8, <2>1, <2>6, Orders
  <2>. QED  BY <2>2, <2>3, <2>4, <2>5, <2>6
<1>. QED  BY <1>2, <1>3, <1>7, <1>10, <1>11

\* The header's status, ...
LEMMA DerivedWrites ==
  ASSUME DataTypes, NEW p \in Returns, Locals(p), ReturnDerived(p)
  PROVE  /\ record' \in [Cells -> Values]
         /\ pc[p] = "derived" /\ derived[p] \in {"parcialmente_devuelta", "completada"}
         /\ HeaderStatus' = derived[p] /\ ClosedAt' = ClosedAt
         /\ \A x \in Bicycles :
              /\ ItemStatus(x)' = ItemStatus(x) /\ Instant(x)' = Instant(x)
              /\ Minutes(x)' = Minutes(x) /\ Amount(x)' = Amount(x)
<1>1. pc[p] = "derived" /\ derived[p] \in {"parcialmente_devuelta", "completada"}
  BY DEF ReturnDerived, Goto, Locals
<1>2. derived[p] \in Values
  BY <1>1 DEF Values, Statuses, OpenStatuses
<1>3. record' = [record EXCEPT ![<<Header, "status">>] = derived[p]]
  BY DEF ReturnDerived
<1>4. /\ record' \in [Cells -> Values]
      /\ \A c \in Cells : record'[c] = IF c = <<Header, "status">> THEN derived[p] ELSE record[c]
  BY <1>2, <1>3 DEF DataTypes
<1>. QED  BY <1>1, <1>4, CellsHere

\* ... and its closing.
LEMMA CloseWrites ==
  ASSUME DataTypes, NEW p \in Returns, Locals(p), ReturnCloseWrite(p)
  PROVE  /\ record' \in [Cells -> Values]
         /\ pc[p] = "close_write" /\ stamp[p] \in Instants
         /\ HeaderStatus' = HeaderStatus /\ ClosedAt' = stamp[p]
         /\ \A x \in Bicycles :
              /\ ItemStatus(x)' = ItemStatus(x) /\ Instant(x)' = Instant(x)
              /\ Minutes(x)' = Minutes(x) /\ Amount(x)' = Amount(x)
<1>1. pc[p] = "close_write" /\ stamp[p] \in Instants
  BY DEF ReturnCloseWrite, Goto, Locals, Writing
<1>2. stamp[p] \in Values
  BY <1>1 DEF Values
<1>3. record' = [record EXCEPT ![<<Header, "closed_at">>] = stamp[p]]
  BY DEF ReturnCloseWrite
<1>4. /\ record' \in [Cells -> Values]
      /\ \A c \in Cells : record'[c] = IF c = <<Header, "closed_at">> THEN stamp[p] ELSE record[c]
  BY <1>2, <1>3 DEF DataTypes
<1>. QED  BY <1>1, <1>4, CellsHere

\* Rental.derive_status.
LEMMA Derives ==
  ASSUME DataTypes
  PROVE  /\ DeriveStatus \in Statuses
         /\ DeriveStatus = "completada" <=> \A b \in Bicycles : ItemStatus(b) = "devuelto"
         /\ DeriveStatus = "activa" <=> \A b \in Bicycles : ItemStatus(b) = "activo"
<1>. DEFINE statuses == {record[<<b, "status">>] : b \in Bicycles}
<1>1. DeriveStatus = IF statuses = {"devuelto"} THEN "completada"
                     ELSE IF "devuelto" \in statuses THEN "parcialmente_devuelta"
                     ELSE "activa"
  BY DEF DeriveStatus
<1>2. Bicycles # {}
  <2>1. 1 \in DOMAIN Items
    BY ItemsAssumption
  <2>. QED  BY <2>1 DEF Bicycles, Range
<1>3. statuses # {} /\ statuses \subseteq {"activo", "devuelto"}
  BY <1>2 DEF DataTypes
<1>4. statuses = {"devuelto"} <=> \A b \in Bicycles : ItemStatus(b) = "devuelto"
  BY <1>2
<1>5. "devuelto" \notin statuses <=> \A b \in Bicycles : ItemStatus(b) = "activo"
  BY DEF DataTypes
<1>. HIDE DEF statuses
<1>. QED  BY <1>1, <1>3, <1>4, <1>5 DEF Statuses, OpenStatuses

\* What a view reads next: one field of the present item.
LEMMA SeenNext ==
  ASSUME DataTypes, NEW q \in Requests, Locals(q), ViewItem(q)
  PROVE  /\ seen' \in [Requests -> [ViewCells -> Values]]
         /\ SeenHeader(q)' = SeenHeader(q)
         /\ \A x \in Bicycles :
              /\ Status(q, x)' = IF x = Head(todo[q]) /\ at[q] = 1 THEN ItemStatus(x)
                                  ELSE Status(q, x)
              /\ SeenAmount(q, x)' = IF x = Head(todo[q]) /\ at[q] = 2 THEN Amount(x)
                                      ELSE SeenAmount(q, x)
              /\ SeenMinutes(q, x)' = IF x = Head(todo[q]) /\ at[q] = 3 THEN Minutes(x)
                                       ELSE SeenMinutes(q, x)
              /\ SeenInstant(q, x)' = IF x = Head(todo[q]) /\ at[q] = 4 THEN Instant(x)
                                       ELSE SeenInstant(q, x)
<1>1. pc[q] = "view_item" /\ Advance(q)
  BY DEF ViewItem, Goto
<1>2. todo[q] # <<>>
  BY <1>1 DEF Locals
<1>3. Head(todo[q]) \in Bicycles /\ at[q] \in 1 .. 4
  BY <1>1, <1>2, AdvanceMove
<1>. DEFINE b == Head(todo[q])
            cell == <<b, ReadOrder[at[q]]>>
<1>4. cell \in ViewCells /\ cell \in Cells
  <2>1. ReadOrder[at[q]] \in {"status", "returned_at", "usage_minutes", "final_amount"}
    BY <1>3, Orders
  <2>. QED  BY <1>3, <2>1, CellsHere
<1>5. seen' = [seen EXCEPT ![q][cell] = record[cell]]
  BY DEF ViewItem
<1>6. record[cell] \in Values /\ seen[q] \in [ViewCells -> Values]
  BY <1>4 DEF DataTypes
<1>7. seen' \in [Requests -> [ViewCells -> Values]]
  BY <1>5, <1>6 DEF DataTypes
<1>8. \A c \in ViewCells : seen'[q][c] = IF c = cell THEN record[c] ELSE seen[q][c]
  BY <1>4, <1>5, <1>6 DEF DataTypes
<1>9. cell # <<Header, "status">>
  BY <1>3, CellsHere
<1>10. SeenHeader(q)' = SeenHeader(q)
  BY <1>8, <1>9, CellsHere
<1>11. ASSUME NEW x \in Bicycles
       PROVE  /\ Status(q, x)' = IF x = b /\ at[q] = 1 THEN ItemStatus(x) ELSE Status(q, x)
              /\ SeenAmount(q, x)' = IF x = b /\ at[q] = 2 THEN Amount(x) ELSE SeenAmount(q, x)
              /\ SeenMinutes(q, x)' = IF x = b /\ at[q] = 3 THEN Minutes(x)
                                       ELSE SeenMinutes(q, x)
              /\ SeenInstant(q, x)' = IF x = b /\ at[q] = 4 THEN Instant(x)
                                       ELSE SeenInstant(q, x)
  <2>1. <<x, "status">> \in ViewCells /\ <<x, "returned_at">> \in ViewCells
          /\ <<x, "usage_minutes">> \in ViewCells /\ <<x, "final_amount">> \in ViewCells
    BY CellsHere
  <2>2. at[q] = 1 \/ at[q] = 2 \/ at[q] = 3 \/ at[q] = 4
    BY <1>3
  <2>3. CASE at[q] = 1
    BY <1>8, <2>1, <2>3, Orders
  <2>4. CASE at[q] = 2
    BY <1>8, <2>1, <2>4, Orders
  <2>5. CASE at[q] = 3
    BY <1>8, <2>1, <2>5, Orders
  <2>6. CASE at[q] = 4
    BY <1>8, <2>1, <2>6, Orders
  <2>. QED  BY <2>2, <2>3, <2>4, <2>5, <2>6
<1>. QED  BY <1>7, <1>10, <1>11

LEMMA TypesPreserved ==
  ASSUME DataTypes, NEW q \in Requests, Locals(q), Place(q), StepOf(q)
  PROVE  DataTypes' /\ Locals(q)'
<1>0. /\ {"idle", "check"} \cup Outcomes \cup Writing \cup Viewing \subseteq Labels
      /\ pc[q] \in Labels /\ at[q] \in 1 .. 4 /\ stamp[q] \in Instants \cup {None}
  BY DEF Labels, DataTypes
<1>1. CASE q \in Returns /\ ReturnLoad(q)
  <2>1. PICK list \in BikeLists :
          \/ Begin(q, "check", list, Range(list)) \/ Begin(q, "refused", <<>>, {})
    BY <1>1 DEF ReturnLoad
  <2>2. /\ record' = record /\ now' = now /\ stamp' = stamp /\ derived' = derived /\ seen' = seen
        /\ overlapped' \in BOOLEAN
    BY <1>1 DEF ReturnLoad, DataTypes
  <2>3. CASE Begin(q, "check", list, Range(list))
    <3>1. list \in Seq(Bicycles) /\ Range(list) \in SUBSET Bicycles /\ list # <<>>
            /\ \A i, j \in 1 .. Len(list) : list[i] = list[j] => i = j
      BY NamedList
    <3>2. /\ pc[q] = "idle" /\ pc'[q] = "check" /\ todo'[q] = list /\ at' = at /\ told' = told
          /\ pc' \in [Requests -> Labels] /\ todo' \in [Requests -> Seq(Bicycles)]
          /\ known' \in [Requests -> SUBSET Bicycles]
      BY <1>0, <2>3, <3>1, BeginMove
    <3>3. DataTypes'
      BY <2>2, <3>2 DEF DataTypes
    <3>. QED  BY <1>1, <3>1, <3>2, <3>3 DEF Locals, Writing
  <2>4. CASE Begin(q, "refused", <<>>, {})
    <3>1. "refused" \in Labels /\ <<>> \in Seq(Bicycles) /\ {} \in SUBSET Bicycles
      BY <1>0, NoBikes DEF Outcomes
    <3>2. /\ pc[q] = "idle" /\ pc'[q] = "refused" /\ todo'[q] = <<>> /\ at' = at /\ told' = told
          /\ pc' \in [Requests -> Labels] /\ todo' \in [Requests -> Seq(Bicycles)]
          /\ known' \in [Requests -> SUBSET Bicycles]
      BY <2>4, <3>1, BeginMove
    <3>3. DataTypes'
      BY <2>2, <3>2 DEF DataTypes
    <3>4. at'[q] = 1
      BY <3>2 DEF Locals
    <3>. QED  BY <3>2, <3>3, <3>4, EndedLocals DEF Outcomes
  <2>. QED  BY <2>1, <2>3, <2>4
<1>2. ASSUME NEW from, from \notin {"mark_write", "view_item"}, NEW outcome \in Outcomes,
             End(q, from, outcome), UNCHANGED <<record, now>>,
             told' = told \/ told' = told \cup known[q]
      PROVE  DataTypes' /\ Locals(q)'
  <2>1. outcome \in Labels
    BY <1>0
  <2>2. told' \in SUBSET Bicycles
    BY <1>2 DEF DataTypes
  <2>3. DataTypes'
    BY <1>2, <2>1, <2>2, EndMove DEF DataTypes
  <2>4. pc[q] = from /\ pc'[q] = outcome /\ todo'[q] = <<>> /\ at' = at
    BY <1>2, <2>1, EndMove
  <2>5. at'[q] = 1
    BY <1>2, <2>4 DEF Locals
  <2>. QED  BY <2>3, <2>4, <2>5, EndedLocals
<1>3. CASE ReturnRefused(q) \/ ReturnApplyRaises(q) \/ ReturnMarkRaises(q) \/ ReturnCrashed(q)
             \/ Answer(q)
  <2>1. UNCHANGED <<record, now>> /\ (told' = told \/ told' = told \cup known[q])
    BY <1>3 DEF ReturnRefused, ReturnApplyRaises, ReturnMarkRaises, ReturnCrashed, Answer
  <2>2. PICK from \in {"check", "apply", "mark", "commit", "answer"}, outcome \in Outcomes :
          End(q, from, outcome)
    BY <1>3 DEF ReturnRefused, ReturnApplyRaises, ReturnMarkRaises, ReturnCrashed, Answer,
                Outcomes
  <2>. QED  BY <1>2, <2>1, <2>2
<1>4. CASE q \in Returns /\ ReturnStamp(q)
  <2>1. PICK t \in Instants : now' = t /\ stamp' = [stamp EXCEPT ![q] = t]
    BY <1>4 DEF ReturnStamp
  <2>2. /\ pc[q] = "check" /\ pc' \in [Requests -> Labels] /\ pc'[q] = "apply"
    BY <1>0, <1>4, GotoMove DEF ReturnStamp, Writing
  <2>3. stamp' \in [Requests -> Instants \cup {None}] /\ stamp'[q] \in Instants
    BY <2>1 DEF DataTypes
  <2>4. /\ record' = record /\ todo' = todo /\ at' = at /\ derived' = derived /\ seen' = seen
        /\ told' = told /\ known' = known /\ overlapped' = overlapped
    BY <1>4 DEF ReturnStamp, histories
  <2>5. DataTypes'
    BY <2>1, <2>2, <2>3, <2>4 DEF DataTypes
  <2>. QED  BY <1>4, <2>2, <2>3, <2>4, <2>5 DEF Locals, Marking
<1>5. ASSUME q \in Returns, NEW from \in Writing, NEW to \in Writing, Goto(q, from, to),
             from # "mark_write", to # "derived", to \in Marking => from \in Marking,
             UNCHANGED <<record, now, todo, at, stamp, derived, seen, histories>>
      PROVE  DataTypes' /\ Locals(q)'
  <2>1. pc[q] = from /\ pc' \in [Requests -> Labels] /\ pc'[q] = to
    BY <1>0, <1>5, GotoMove
  <2>2. /\ record' = record /\ now' = now /\ todo' = todo /\ at' = at /\ stamp' = stamp
        /\ derived' = derived /\ seen' = seen
        /\ told' = told /\ known' = known /\ overlapped' = overlapped
    BY <1>5 DEF histories
  <2>3. DataTypes'
    BY <2>1, <2>2 DEF DataTypes
  <2>4. at[q] = 1 /\ stamp[q] \in Instants
    BY <1>5, <2>1 DEF Locals, Writing
  <2>. QED  BY <1>5, <2>1, <2>2, <2>3, <2>4 DEF Locals, Writing, Marking
<1>6. CASE q \in Returns /\ (ReturnApply(q) \/ ReturnMark(q) \/ ReturnClose(q))
  BY <1>5, <1>6 DEF ReturnApply, ReturnMark, ReturnClose, Writing, Marking
<1>7. CASE q \in Returns /\ ReturnMarkWrite(q)
  <2>1. /\ pc[q] = "mark_write" /\ Advance(q) /\ stamp' = stamp
        /\ now' = now /\ derived' = derived /\ seen' = seen
        /\ told' = told /\ known' = known /\ overlapped' = overlapped
    BY <1>7 DEF ReturnMarkWrite, Goto, histories
  <2>2. /\ pc' \in [Requests -> Labels]
        /\ pc'[q] = IF LastField(q) THEN "derive" ELSE IF at[q] = 4 THEN "mark" ELSE "mark_write"
    BY <1>0, <1>7, GotoMove DEF ReturnMarkWrite, Writing
  <2>3. todo[q] # <<>> /\ stamp[q] \in Instants
    BY <2>1 DEF Locals, Marking, Writing
  <2>4. /\ at' \in [Requests -> 1 .. 4] /\ todo' \in [Requests -> Seq(Bicycles)]
        /\ at'[q] = IF at[q] = 4 THEN 1 ELSE at[q] + 1
        /\ todo'[q] = IF at[q] = 4 THEN Tail(todo[q]) ELSE todo[q]
        /\ \A i, j \in 1 .. Len(todo'[q]) : todo'[q][i] = todo'[q][j] => i = j
    BY <2>1, <2>3, AdvanceMove
  <2>5. DataTypes'
    BY <1>7, <2>1, <2>2, <2>4, MarkWrites DEF DataTypes
  <2>. QED  BY <1>7, <2>1, <2>2, <2>3, <2>4, <2>5
            DEF Locals, LastField, Marking, Writing
<1>8. CASE q \in Returns /\ ReturnDerive(q)
  <2>1. /\ pc[q] = "derive" /\ pc' \in [Requests -> Labels] /\ pc'[q] = "derived"
    BY <1>0, <1>8, GotoMove DEF ReturnDerive, Writing
  <2>2. /\ record' = record /\ now' = now /\ todo' = todo /\ at' = at /\ stamp' = stamp
        /\ seen' = seen /\ told' = told /\ known' = known /\ overlapped' = overlapped
    BY <1>8 DEF ReturnDerive, histories
  <2>3. derived' \in [Requests -> Statuses \cup {None}] /\ derived'[q] = DeriveStatus
    BY <1>8, Derives DEF ReturnDerive, DataTypes
  <2>4. DeriveStatus # "activa"
    BY <2>1, Derives DEF Place
  <2>5. DataTypes'
    BY <2>1, <2>2, <2>3 DEF DataTypes
  <2>. QED  BY <1>8, <2>1, <2>2, <2>3, <2>4, <2>5, Derives
            DEF Locals, Writing, Marking, Statuses, OpenStatuses
<1>9. CASE q \in Returns /\ ReturnDerived(q)
  <2>1. /\ pc[q] = "derived" /\ pc' \in [Requests -> Labels] /\ pc'[q] = "close"
    BY <1>0, <1>9, GotoMove DEF ReturnDerived, Writing
  <2>2. /\ now' = now /\ todo' = todo /\ at' = at /\ stamp' = stamp
        /\ seen' = seen /\ told' = told /\ known' = known /\ overlapped' = overlapped
    BY <1>9 DEF ReturnDerived, histories
  <2>3. derived' \in [Requests -> Statuses \cup {None}]
    BY <1>9 DEF ReturnDerived, DataTypes
  <2>4. /\ record' \in [Cells -> Values] /\ HeaderStatus' \in Statuses /\ ClosedAt' = ClosedAt
        /\ \A x \in Bicycles :
             /\ ItemStatus(x)' = ItemStatus(x) /\ Instant(x)' = Instant(x)
             /\ Minutes(x)' = Minutes(x) /\ Amount(x)' = Amount(x)
    BY <1>9, DerivedWrites DEF Statuses, OpenStatuses
  <2>5. DataTypes'
    BY <2>1, <2>2, <2>3, <2>4 DEF DataTypes
  <2>. QED  BY <1>9, <2>1, <2>2, <2>5 DEF Locals, Writing, Marking
<1>10. CASE q \in Returns /\ ReturnCloseWrite(q)
  <2>1. /\ pc[q] = "close_write" /\ pc' \in [Requests -> Labels] /\ pc'[q] = "commit"
    BY <1>0, <1>10, GotoMove DEF ReturnCloseWrite, Writing
  <2>2. /\ now' = now /\ todo' = todo /\ at' = at /\ stamp' = stamp /\ derived' = derived
        /\ seen' = seen /\ told' = told /\ known' = known /\ overlapped' = overlapped
    BY <1>10 DEF ReturnCloseWrite, histories
  <2>3. /\ record' \in [Cells -> Values] /\ HeaderStatus' = HeaderStatus
        /\ ClosedAt' \in Instants
        /\ \A x \in Bicycles :
             /\ ItemStatus(x)' = ItemStatus(x) /\ Instant(x)' = Instant(x)
             /\ Minutes(x)' = Minutes(x) /\ Amount(x)' = Amount(x)
    BY <1>10, CloseWrites
  <2>4. DataTypes'
    BY <2>1, <2>2, <2>3 DEF DataTypes
  <2>. QED  BY <1>10, <2>1, <2>2, <2>4 DEF Locals, Writing, Marking
<1>11. CASE q \in Returns /\ ReturnDone(q)
  <2>1. /\ pc[q] = "commit" /\ pc' \in [Requests -> Labels] /\ pc'[q] = "view"
    BY <1>0, <1>11, GotoMove DEF ReturnDone, Viewing
  <2>2. /\ record' = record /\ now' = now /\ at' = at /\ derived' = derived
        /\ seen' = seen /\ told' = told /\ known' = known /\ overlapped' = overlapped
    BY <1>11 DEF ReturnDone, histories
  <2>3. /\ todo' \in [Requests -> Seq(Bicycles)] /\ todo'[q] = Items
        /\ stamp' \in [Requests -> Instants \cup {None}]
    BY <1>11, AllItems DEF ReturnDone, DataTypes
  <2>4. DataTypes'
    BY <2>1, <2>2, <2>3 DEF DataTypes
  <2>. QED  BY <2>1, <2>2, <2>3, <2>4, AllItems DEF Locals, Writing, Marking
<1>12. CASE q \in Gets /\ Get(q)
  <2>1. "view" \in Labels /\ Items \in Seq(Bicycles) /\ {} \in SUBSET Bicycles
    BY <1>0, AllItems DEF Viewing
  <2>2. /\ pc[q] = "idle" /\ pc'[q] = "view" /\ todo'[q] = Items /\ at' = at /\ told' = told
        /\ pc' \in [Requests -> Labels] /\ todo' \in [Requests -> Seq(Bicycles)]
        /\ known' \in [Requests -> SUBSET Bicycles]
    BY <1>12, <2>1, BeginMove DEF Get
  <2>3. /\ record' = record /\ now' = now /\ stamp' = stamp /\ derived' = derived
        /\ seen' = seen /\ overlapped' = overlapped
    BY <1>12 DEF Get
  <2>4. DataTypes'
    BY <2>2, <2>3 DEF DataTypes
  <2>. QED  BY <2>2, <2>3, <2>4, AllItems DEF Locals, Writing, Marking
<1>13. CASE ViewHeader(q)
  <2>1. /\ pc[q] = "view" /\ pc' \in [Requests -> Labels] /\ pc'[q] = "view_item"
    BY <1>0, <1>13, GotoMove DEF ViewHeader, Viewing
  <2>2. /\ record' = record /\ now' = now /\ todo' = todo /\ at' = at /\ stamp' = stamp
        /\ derived' = derived /\ told' = told /\ known' = known /\ overlapped' = overlapped
    BY <1>13 DEF ViewHeader, histories
  <2>3. record[<<Header, "status">>] \in Values
    BY CellsHere DEF DataTypes
  <2>4. seen' \in [Requests -> [ViewCells -> Values]]
    BY <1>13, <2>3 DEF ViewHeader, DataTypes
  <2>5. DataTypes'
    BY <2>1, <2>2, <2>4 DEF DataTypes
  <2>. QED  BY <2>1, <2>2, <2>5, AllItems DEF Locals, Writing, Marking
<1>14. CASE ViewItem(q)
  <2>1. /\ pc[q] = "view_item" /\ Advance(q)
        /\ record' = record /\ now' = now /\ stamp' = stamp
        /\ derived' = derived /\ told' = told /\ known' = known /\ overlapped' = overlapped
    BY <1>14 DEF ViewItem, Goto, histories
  <2>2. /\ pc' \in [Requests -> Labels]
        /\ pc'[q] = IF LastField(q) THEN "answer" ELSE "view_item"
    BY <1>0, <1>14, GotoMove DEF ViewItem, Viewing
  <2>3. todo[q] # <<>>
    BY <2>1 DEF Locals
  <2>4. /\ at' \in [Requests -> 1 .. 4] /\ todo' \in [Requests -> Seq(Bicycles)]
        /\ at'[q] = IF at[q] = 4 THEN 1 ELSE at[q] + 1
        /\ todo'[q] = IF at[q] = 4 THEN Tail(todo[q]) ELSE todo[q]
        /\ \A i, j \in 1 .. Len(todo'[q]) : todo'[q][i] = todo'[q][j] => i = j
    BY <2>1, <2>3, AdvanceMove
  <2>5. seen' \in [Requests -> [ViewCells -> Values]]
    BY <1>14, <2>3, SeenNext
  <2>6. DataTypes'
    BY <2>1, <2>2, <2>4, <2>5 DEF DataTypes
  <2>. QED  BY <2>1, <2>2, <2>3, <2>4, <2>6 DEF Locals, LastField, Marking, Writing
<1>. QED  BY <1>1, <1>3, <1>4, <1>6, <1>7, <1>8, <1>9, <1>10, <1>11, <1>12, <1>13, <1>14
          DEF StepOf, ReturnStep

-----------------------------------------------------------------------------
(* What every step does to the record, and to what other requests rely on *)

\* Only three steps write the record.
LEMMA Writers ==
  ASSUME NEW q \in Requests, StepOf(q)
  PROVE  \/ q \in Returns /\ ReturnMarkWrite(q)
         \/ q \in Returns /\ ReturnDerived(q)
         \/ q \in Returns /\ ReturnCloseWrite(q)
         \/ record' = record
BY DEF StepOf, ReturnStep, ReturnLoad, ReturnRefused, ReturnStamp, ReturnApply,
       ReturnApplyRaises, ReturnMark, ReturnMarkRaises, ReturnDerive, ReturnClose,
       ReturnCrashed, ReturnDone, Get, ViewHeader, ViewItem, Answer

LEMMA ClockForward ==
  ASSUME DataTypes, NEW q \in Requests, StepOf(q)
  PROVE  now' = now \/ (ReturnStamp(q) /\ now' \in Instants /\ now <= now')
<1>1. ReturnStamp(q) => now' \in Instants /\ now <= now'
  BY InstantsAssumption DEF ReturnStamp, DataTypes
<1>. QED  BY <1>1
     DEF StepOf, ReturnStep, ReturnLoad, ReturnRefused, ReturnApply,
         ReturnApplyRaises, ReturnMark, ReturnMarkRaises, ReturnDerive, ReturnClose,
         ReturnMarkWrite, ReturnDerived, ReturnCloseWrite,
         ReturnCrashed, ReturnDone, Get, ViewHeader, ViewItem, Answer

\* What is filled in stays so, and a header that is no longer 'activa' never is again.
Grows ==
  /\ \A b \in Bicycles :
       /\ ItemStatus(b) = "devuelto" => ItemStatus(b)' = "devuelto"
       /\ Instant(b) # None => Instant(b)' # None
       /\ Minutes(b) # None => Minutes(b)' # None
       /\ Amount(b) # None => Amount(b)' # None
  /\ HeaderStatus # "activa" => HeaderStatus' # "activa"
  /\ now \in Nat /\ now' \in Nat /\ now <= now'

LEMMA StepGrows ==
  ASSUME DataTypes, NEW q \in Requests, Locals(q), StepOf(q)
  PROVE  Grows
<1>1. now \in Nat /\ now' \in Nat /\ now <= now'
  <2>1. now \in Nat
    BY InstantsAssumption DEF DataTypes
  <2>2. now' = now \/ (now' \in Instants /\ now <= now')
    BY ClockForward
  <2>3. now' \in Nat
    BY <2>1, <2>2, InstantsAssumption
  <2>. QED  BY <2>1, <2>2, <2>3
<1>2. CASE q \in Returns /\ ReturnMarkWrite(q)
  BY <1>1, <1>2, MarkWrites, InstantsAssumption DEF Grows
<1>3. CASE q \in Returns /\ ReturnDerived(q)
  BY <1>1, <1>3, DerivedWrites DEF Grows
<1>4. CASE q \in Returns /\ ReturnCloseWrite(q)
  BY <1>1, <1>4, CloseWrites DEF Grows
<1>5. CASE record' = record
  BY <1>1, <1>5 DEF Grows
<1>. QED  BY <1>2, <1>3, <1>4, <1>5, Writers

\* The histories.
LEMMA ToldGrows ==
  ASSUME DataTypes, NEW q \in Requests, StepOf(q)
  PROVE  /\ told' = told \/ (Answer(q) /\ told' = told \cup known[q])
         /\ \/ known'[q] = known[q] \/ known'[q] = {}
            \/ q \in Gets /\ known'[q] = told
            \/ q \in Returns /\ ReturnLoad(q)
<1>1. CASE Answer(q)
  BY <1>1 DEF Answer, End, DataTypes
<1>2. CASE q \in Gets /\ Get(q)
  BY <1>2 DEF Get, Begin, DataTypes
<1>3. CASE q \in Returns /\ ReturnLoad(q)
  BY <1>3 DEF ReturnLoad, Begin
<1>4. CASE ReturnRefused(q) \/ ReturnApplyRaises(q) \/ ReturnMarkRaises(q) \/ ReturnCrashed(q)
  BY <1>4 DEF ReturnRefused, ReturnApplyRaises, ReturnMarkRaises, ReturnCrashed, End, DataTypes
<1>5. CASE UNCHANGED histories
  BY <1>5 DEF histories
<1>. QED  BY <1>1, <1>2, <1>3, <1>4, <1>5
          DEF StepOf, ReturnStep, ReturnStamp, ReturnApply, ReturnMark, ReturnMarkWrite,
              ReturnDerive, ReturnDerived, ReturnClose, ReturnCloseWrite, ReturnDone,
              ViewHeader, ViewItem

LEMMA OthersPlace ==
  ASSUME DataTypes, Grows, NEW r \in Requests, Locals(r), Place(r), Shows(r), Stays(r)
  PROVE  Locals(r)' /\ Place(r)' /\ Shows(r)'
<1>1. known[r] \subseteq Bicycles /\ (stamp[r] # None => stamp[r] \in Nat)
        /\ (pc[r] \in {"mark_write", "view_item"} => Head(todo[r]) \in Bicycles)
  <2>1. pc[r] \in {"mark_write", "view_item"} => todo[r] # <<>> /\ todo[r] \in Seq(Bicycles)
    BY DEF Locals, Marking, DataTypes
  <2>2. pc[r] \in {"mark_write", "view_item"} => Head(todo[r]) \in Bicycles
    BY <2>1, HeadTailProperties
  <2>3. known[r] \in SUBSET Bicycles /\ stamp[r] \in Instants \cup {None}
    BY DEF DataTypes
  <2>. QED  BY <2>2, <2>3, InstantsAssumption
<1>2. Locals(r)'
  BY DEF Locals, Stays
<1>3. \A b, k : Read(r, b, k)' <=> Read(r, b, k)
  BY DEF Read, Stays
<1>4. Shows(r)'
  <2> SUFFICES ASSUME pc'[r] \in {"view_item", "answer"} PROVE Shows(r)'
    BY DEF Shows
  <2>1. pc[r] \in {"view_item", "answer"} /\ seen'[r] = seen[r] /\ known'[r] = known[r]
          /\ todo'[r] = todo[r] /\ at'[r] = at[r]
    BY DEF Stays
  <2>2. /\ SeenHeader(r)' \in Statuses
        /\ known'[r] # {} => SeenHeader(r)' # "activa"
    BY <2>1 DEF Shows
  <2>3. SeenHeader(r)' = "completada" =>
          \A b \in Bicycles : /\ ItemStatus(b)' = "devuelto"
                              /\ Read(r, b, 1)' => Status(r, b)' = "devuelto"
    BY <2>1 DEF Shows, Grows, Read
  <2>4. SeenHeader(r)' = "parcialmente_devuelta" =>
          \E b \in Bicycles : /\ ItemStatus(b)' = "devuelto"
                              /\ Read(r, b, 1)' => Status(r, b)' = "devuelto"
    BY <2>1 DEF Shows, Grows, Read
  <2>5. \A b \in Bicycles : Read(r, b, 2)' /\ SeenAmount(r, b)' # None =>
          /\ Minutes(b)' # None /\ Instant(b)' # None
          /\ Read(r, b, 3)' => SeenMinutes(r, b)' # None
          /\ Read(r, b, 4)' => SeenInstant(r, b)' # None
    BY <2>1 DEF Shows, Grows, Read
  <2>6. \A b \in known'[r] :
         /\ Read(r, b, 1)' => Status(r, b)' = "devuelto"
         /\ Read(r, b, 2)' => SeenAmount(r, b)' # None
         /\ Read(r, b, 3)' => SeenMinutes(r, b)' # None
         /\ Read(r, b, 4)' => SeenInstant(r, b)' # None
    BY <2>1 DEF Shows, Read
  <2>. QED  BY <2>2, <2>3, <2>4, <2>5, <2>6 DEF Shows
<1>5. Place(r)'
  <2>1. /\ pc'[r] = pc[r] /\ todo'[r] = todo[r] /\ at'[r] = at[r] /\ stamp'[r] = stamp[r]
        /\ derived'[r] = derived[r] /\ known'[r] = known[r]
    BY DEF Stays
  <2>2. pc[r] \in Writing => stamp[r] <= now'
    <3>1. pc[r] \in Writing => stamp[r] \in Nat
      BY InstantsAssumption DEF Locals
    <3>. QED  BY <3>1 DEF Place, Grows
  <2>3. pc[r] = "mark_write" =>
          /\ at[r] > 1 => ItemStatus(Head(todo[r]))' = "devuelto"
          /\ at[r] > 2 => Instant(Head(todo[r]))' # None
          /\ at[r] > 3 => Minutes(Head(todo[r]))' # None
    BY <1>1, <2>1 DEF Place, Grows
  <2>4. \A b \in known[r] : Returned(b) => Returned(b)'
    BY <1>1 DEF Returned, Grows
  <2>5. \A b \in Bicycles : ItemStatus(b) = "devuelto" => ItemStatus(b)' = "devuelto"
    BY DEF Grows
  <2>6. HeaderStatus # "activa" => HeaderStatus' # "activa"
    BY DEF Grows
  <2>7. pc'[r] \in Marking => \A b \in known'[r] : Returned(b)' \/ b \in Range(todo'[r])
    BY <2>1, <2>4 DEF Place
  <2>8. pc'[r] \in (Writing \ Marking) \cup Viewing => \A b \in known'[r] : Returned(b)'
    BY <2>1, <2>4 DEF Place
  <2>. QED  BY <2>1, <2>2, <2>3, <2>5, <2>6, <2>7, <2>8 DEF Place
<1>. QED  BY <1>2, <1>4, <1>5

LEMMA OrderPreserved ==
  ASSUME DataTypes, RecordOrder, NEW q \in Requests, Locals(q), Place(q), StepOf(q)
  PROVE  RecordOrder'
<1>1. Grows
  BY StepGrows
<1>2. \A b \in Bicycles :
        /\ Amount(b)' # None => Minutes(b)' # None
        /\ Minutes(b)' # None => Instant(b)' # None
        /\ Instant(b)' # None => ItemStatus(b)' = "devuelto" /\ Instant(b)' <= now'
  <2>1. CASE q \in Returns /\ ReturnMarkWrite(q)
    <3>1. pc[q] = "mark_write" /\ now' = now
      BY <2>1 DEF ReturnMarkWrite, Goto
    <3>2. stamp[q] <= now
      BY <3>1 DEF Place, Writing
    <3>3. /\ at[q] > 1 => ItemStatus(Head(todo[q])) = "devuelto"
          /\ at[q] > 2 => Instant(Head(todo[q])) # None
          /\ at[q] > 3 => Minutes(Head(todo[q])) # None
      BY <3>1 DEF Place
    <3>4. \A b \in Bicycles :
            /\ Amount(b) # None => Minutes(b) # None
            /\ Minutes(b) # None => Instant(b) # None
            /\ Instant(b) # None => ItemStatus(b) = "devuelto" /\ Instant(b) <= now
      BY DEF RecordOrder
    <3>5. /\ stamp[q] # None /\ at[q] \in 1 .. 4
          /\ \A b \in Bicycles :
              /\ ItemStatus(b)' = IF b = Head(todo[q]) /\ at[q] = 1 THEN "devuelto"
                                  ELSE ItemStatus(b)
              /\ Instant(b)' = IF b = Head(todo[q]) /\ at[q] = 2 THEN stamp[q] ELSE Instant(b)
              /\ Minutes(b)' = IF b = Head(todo[q]) /\ at[q] = 3 THEN stamp[q] ELSE Minutes(b)
              /\ Amount(b)' = IF b = Head(todo[q]) /\ at[q] = 4 THEN stamp[q] ELSE Amount(b)
      BY <2>1, MarkWrites, InstantsAssumption
    <3> SUFFICES ASSUME NEW b \in Bicycles
                 PROVE  /\ Amount(b)' # None => Minutes(b)' # None
                        /\ Minutes(b)' # None => Instant(b)' # None
                        /\ Instant(b)' # None =>
                             ItemStatus(b)' = "devuelto" /\ Instant(b)' <= now'
      OBVIOUS
    <3>6. CASE b # Head(todo[q])
      BY <3>1, <3>4, <3>5, <3>6
    <3>7. CASE b = Head(todo[q])
      BY <3>1, <3>2, <3>3, <3>4, <3>5, <3>7
    <3>. QED  BY <3>6, <3>7
  <2>2. ASSUME \A b \in Bicycles :
                 /\ ItemStatus(b)' = ItemStatus(b) /\ Instant(b)' = Instant(b)
                 /\ Minutes(b)' = Minutes(b) /\ Amount(b)' = Amount(b)
        PROVE  \A b \in Bicycles :
                 /\ Amount(b)' # None => Minutes(b)' # None
                 /\ Minutes(b)' # None => Instant(b)' # None
                 /\ Instant(b)' # None => ItemStatus(b)' = "devuelto" /\ Instant(b)' <= now'
    <3>1. \A b \in Bicycles : Instant(b) # None => Instant(b) \in Nat /\ Instant(b) <= now
      BY InstantsAssumption DEF RecordOrder, DataTypes
    <3>2. \A b \in Bicycles : Instant(b) # None => Instant(b) <= now'
      BY <1>1, <3>1 DEF Grows
    <3>. QED  BY <2>2, <3>2 DEF RecordOrder
  <2>. QED  BY <2>1, <2>2, Writers, DerivedWrites, CloseWrites
<1>3. /\ HeaderStatus' = "completada" => \A b \in Bicycles : ItemStatus(b)' = "devuelto"
      /\ HeaderStatus' = "parcialmente_devuelta" =>
           \E b \in Bicycles : ItemStatus(b)' = "devuelto"
  <2>1. CASE q \in Returns /\ ReturnDerived(q)
    BY <2>1, DerivedWrites DEF Place
  <2>2. CASE HeaderStatus' = HeaderStatus
    BY <1>1, <2>2 DEF RecordOrder, Grows
  <2>. QED  BY <2>1, <2>2, Writers, MarkWrites, CloseWrites
<1>4. /\ \A b \in told' : Returned(b)'
      /\ told' # {} => HeaderStatus' # "activa"
  <2>1. Answer(q) => pc[q] = "answer"
    BY DEF Answer, End, Goto
  <2>2. \A b \in told' : Returned(b)
    BY <2>1, ToldGrows DEF RecordOrder, Place, Viewing
  <2>3. told' # {} => HeaderStatus # "activa"
    BY <2>1, ToldGrows DEF RecordOrder, Place, Viewing
  <2>4. told' \subseteq Bicycles
    BY ToldGrows DEF DataTypes
  <2>. QED  BY <1>1, <2>2, <2>3, <2>4 DEF Grows, Returned
<1>5. \A g \in Gets : known'[g] \subseteq told'
  <2>1. told \subseteq told'
    BY ToldGrows
  <2>2. \A g \in Gets : g # q => known'[g] = known[g]
    BY OthersStay DEF Stays, Requests
  <2>3. q \in Gets => known'[q] \subseteq told
    BY ToldGrows, RequestsAssumption DEF RecordOrder
  <2>. QED  BY <2>1, <2>2, <2>3 DEF RecordOrder
<1>. QED  BY <1>2, <1>3, <1>4, <1>5 DEF RecordOrder

-----------------------------------------------------------------------------
(* Where the request that moves comes to *)

LEMMA EndedPlace ==
  ASSUME NEW q \in Requests, pc'[q] \in Outcomes
  PROVE  Place(q)' /\ Shows(q)'
<1>1. pc'[q] \notin {"mark_write", "derive", "derived", "close", "close_write", "commit"}
        \cup Writing \cup Marking \cup Viewing
  BY DEF Outcomes, Writing, Marking, Viewing
<1>. QED  BY <1>1 DEF Place, Shows, Viewing

\* A return that goes on without writing.
LEMMA QuietPlace ==
  ASSUME DataTypes, NEW q \in Returns, Locals(q), Place(q),
         ReturnStamp(q) \/ ReturnApply(q) \/ ReturnMark(q) \/ ReturnDerive(q)
           \/ ReturnClose(q) \/ ReturnDone(q)
  PROVE  Place(q)'
<1>0. q \in Requests
  BY DEF Requests
<1>1. record' = record /\ known' = known /\ \A b : Returned(b)' <=> Returned(b)
  <2>1. record' = record /\ known' = known
    BY DEF ReturnStamp, ReturnApply, ReturnMark, ReturnDerive, ReturnClose, ReturnDone, histories
  <2>. QED  BY <2>1 DEF Returned
<1>2. CASE ReturnStamp(q)
  <2>1. PICK t \in Instants : now' = t /\ stamp' = [stamp EXCEPT ![q] = t]
    BY <1>2 DEF ReturnStamp
  <2>2. pc[q] = "check" /\ pc'[q] = "apply" /\ todo' = todo
    BY <1>0, <1>2 DEF ReturnStamp, Goto, DataTypes
  <2>3. stamp'[q] = t /\ stamp'[q] <= now'
    BY <1>0, <2>1, InstantsAssumption DEF DataTypes
  <2>. QED  BY <1>1, <2>2, <2>3 DEF Place, Marking, Writing, Viewing
<1>3. CASE ReturnApply(q) \/ ReturnMark(q)
  <2>1. /\ pc[q] \in {"apply", "mark"} /\ pc'[q] \in {"mark", "mark_write"}
        /\ todo' = todo /\ at' = at /\ stamp' = stamp /\ now' = now
    BY <1>0, <1>3 DEF ReturnApply, ReturnMark, Goto, DataTypes, histories
  <2>2. at[q] = 1
    BY <2>1 DEF Locals
  <2>. QED  BY <1>1, <2>1, <2>2 DEF Place, Marking, Writing, Viewing
<1>4. CASE ReturnDerive(q)
  <2>1. pc[q] = "derive" /\ pc'[q] = "derived" /\ stamp' = stamp /\ now' = now
          /\ derived'[q] = DeriveStatus
    BY <1>0, <1>4 DEF ReturnDerive, Goto, DataTypes
  <2>. QED  BY <1>1, <2>1, Derives DEF Place, Marking, Writing, Viewing
<1>5. CASE ReturnClose(q)
  <2>1. pc[q] = "close" /\ pc'[q] \in {"close_write", "commit"} /\ stamp' = stamp /\ now' = now
    BY <1>0, <1>5 DEF ReturnClose, Goto, DataTypes
  <2>. QED  BY <1>1, <2>1 DEF Place, Marking, Writing, Viewing
<1>6. CASE ReturnDone(q)
  <2>1. pc[q] = "commit" /\ pc'[q] = "view"
    BY <1>0, <1>6 DEF ReturnDone, Goto, DataTypes
  <2>. QED  BY <1>1, <2>1 DEF Place, Marking, Writing, Viewing
<1>. QED  BY <1>2, <1>3, <1>4, <1>5, <1>6

\* A return that writes a field.
LEMMA WritingPlace ==
  ASSUME DataTypes, NEW q \in Returns, Locals(q), Place(q), Grows,
         ReturnMarkWrite(q) \/ ReturnDerived(q) \/ ReturnCloseWrite(q)
  PROVE  Place(q)'
<1>0. q \in Requests
  BY DEF Requests
<1>1. /\ known' = known /\ stamp' = stamp /\ now' = now /\ pc[q] \in Writing /\ pc'[q] \in Writing
      /\ stamp[q] <= now
  <2>1. known' = known /\ stamp' = stamp /\ now' = now /\ pc[q] \in Writing /\ pc'[q] \in Writing
    BY <1>0 DEF ReturnMarkWrite, ReturnDerived, ReturnCloseWrite, Goto, DataTypes,
                Writing, histories
  <2>. QED  BY <2>1 DEF Place
<1>2. \A b \in known[q] : Returned(b) => Returned(b)'
  BY <1>0 DEF Returned, Grows, DataTypes
<1>3. CASE ReturnDerived(q)
  <2>1. pc[q] = "derived" /\ pc'[q] = "close"
    BY <1>0, <1>3 DEF ReturnDerived, Goto, DataTypes
  <2>2. HeaderStatus' # "activa"
    BY <1>3, DerivedWrites
  <2>. QED  BY <1>1, <1>2, <2>1, <2>2 DEF Place, Marking, Writing, Viewing
<1>4. CASE ReturnCloseWrite(q)
  <2>1. pc[q] = "close_write" /\ pc'[q] = "commit"
    BY <1>0, <1>4 DEF ReturnCloseWrite, Goto, DataTypes
  <2>2. HeaderStatus' = HeaderStatus
    BY <1>4, CloseWrites
  <2>. QED  BY <1>1, <1>2, <2>1, <2>2 DEF Place, Marking, Writing, Viewing
<1>5. CASE ReturnMarkWrite(q)
  <2>1. /\ pc[q] = "mark_write"
        /\ pc'[q] = IF LastField(q) THEN "derive" ELSE IF at[q] = 4 THEN "mark" ELSE "mark_write"
        /\ Advance(q)
    BY <1>0, <1>5 DEF ReturnMarkWrite, Goto, DataTypes
  <2>2. todo[q] # <<>>
    BY <2>1 DEF Locals, Marking
  <2>3. /\ at'[q] = IF at[q] = 4 THEN 1 ELSE at[q] + 1
        /\ todo'[q] = IF at[q] = 4 THEN Tail(todo[q]) ELSE todo[q]
        /\ Head(todo[q]) \in Bicycles /\ at[q] \in 1 .. 4
    BY <1>0, <2>1, <2>2, AdvanceMove
  <2>. PICK b \in Bicycles : b = Head(todo[q])
    BY <2>3
  <2>4. /\ at[q] > 1 => ItemStatus(b) = "devuelto"
        /\ at[q] > 2 => Instant(b) # None
        /\ at[q] > 3 => Minutes(b) # None
    BY <2>1 DEF Place
  <2>5. /\ ItemStatus(b)' = "devuelto"
        /\ at[q] > 1 => Instant(b)' # None
        /\ at[q] > 2 => Minutes(b)' # None
        /\ at[q] > 3 => Amount(b)' # None
    <3>1. stamp[q] # None
      BY <1>5, MarkWrites, InstantsAssumption
    <3>2. /\ ItemStatus(b)' = IF at[q] = 1 THEN "devuelto" ELSE ItemStatus(b)
          /\ Instant(b)' = IF at[q] = 2 THEN stamp[q] ELSE Instant(b)
          /\ Minutes(b)' = IF at[q] = 3 THEN stamp[q] ELSE Minutes(b)
          /\ Amount(b)' = IF at[q] = 4 THEN stamp[q] ELSE Amount(b)
      BY <1>5, <2>3, MarkWrites
    <3>. QED  BY <2>3, <2>4, <3>1, <3>2
  <2>6. CASE at[q] < 4
    <3>1. pc'[q] = "mark_write" /\ todo'[q] = todo[q] /\ at'[q] = at[q] + 1
      BY <2>1, <2>3, <2>6 DEF LastField
    <3>2. /\ Head(todo'[q]) = b
          /\ at'[q] > 1 => ItemStatus(b)' = "devuelto"
          /\ at'[q] > 2 => Instant(b)' # None
          /\ at'[q] > 3 => Minutes(b)' # None
      BY <2>3, <2>5, <2>6, <3>1
    <3>3. \A x \in known'[q] : Returned(x)' \/ x \in Range(todo'[q])
      BY <1>1, <1>2, <2>1, <3>1 DEF Place, Marking
    <3>. QED  BY <1>1, <2>1, <3>1, <3>2, <3>3 DEF Place, Marking, Writing, Viewing
  <2>7. CASE at[q] = 4
    <3>1. pc'[q] = (IF Tail(todo[q]) = <<>> THEN "derive" ELSE "mark") /\ todo'[q] = Tail(todo[q])
      BY <2>1, <2>3, <2>7 DEF LastField
    <3>2. Range(Tail(todo[q])) = Range(todo[q]) \ {b}
      BY <1>0, <2>2, ListParts DEF Locals, DataTypes
    <3>3. Returned(b)'
      BY <2>5, <2>7 DEF Returned
    <3>4. \A x \in known'[q] : Returned(x)' \/ x \in Range(todo'[q])
      BY <1>1, <1>2, <2>1, <3>1, <3>2, <3>3 DEF Place, Marking
    <3>5. Tail(todo[q]) = <<>> => \A x \in known'[q] : Returned(x)'
      BY <3>1, <3>4, NoBikes
    <3>6. \E x \in Bicycles : ItemStatus(x)' = "devuelto"
      BY <2>3, <2>5
    <3>7. known'[q] # {}
      BY <1>1, <2>1 DEF Place, Marking
    <3>8. CASE Tail(todo[q]) = <<>>
      BY <1>1, <3>1, <3>5, <3>6, <3>7, <3>8 DEF Place, Marking, Writing, Viewing
    <3>9. CASE Tail(todo[q]) # <<>>
      BY <1>1, <3>1, <3>4, <3>7, <3>9 DEF Place, Marking, Writing, Viewing
    <3>. QED  BY <3>8, <3>9
  <2>. QED  BY <2>3, <2>6, <2>7
<1>. QED  BY <1>3, <1>4, <1>5

LEMMA PlacePreserved ==
  ASSUME DataTypes, RecordOrder, NEW q \in Requests, Locals(q), Place(q), StepOf(q)
  PROVE  Place(q)'
<1>1. Grows
  BY StepGrows
<1>2. CASE q \in Returns /\ ReturnLoad(q)
  <2>1. PICK list \in BikeLists :
          \/ Begin(q, "check", list, Range(list)) \/ Begin(q, "refused", <<>>, {})
    BY <1>2 DEF ReturnLoad
  <2>2. record' = record
    BY <1>2 DEF ReturnLoad
  <2>3. CASE Begin(q, "check", list, Range(list))
    <3>1. pc'[q] = "check" /\ todo'[q] = list /\ known'[q] = told \cup Range(list)
      BY <2>3 DEF Begin, Goto, DataTypes
    <3>2. Range(list) # {}
      BY NamedList
    <3>3. \A b \in told : Returned(b)'
      BY <2>2 DEF RecordOrder, Returned
    <3>. QED  BY <3>1, <3>2, <3>3 DEF Place, Marking, Writing, Viewing
  <2>4. CASE Begin(q, "refused", <<>>, {})
    <3>1. pc'[q] \in Outcomes
      BY <2>4 DEF Begin, Goto, DataTypes, Outcomes
    <3>. QED  BY <3>1, EndedPlace
  <2>. QED  BY <2>1, <2>3, <2>4
<1>3. CASE ReturnRefused(q) \/ ReturnApplyRaises(q) \/ ReturnMarkRaises(q) \/ ReturnCrashed(q)
             \/ Answer(q)
  <2>1. pc'[q] \in Outcomes
    BY <1>3 DEF ReturnRefused, ReturnApplyRaises, ReturnMarkRaises, ReturnCrashed, Answer,
                End, Goto, DataTypes, Outcomes
  <2>. QED  BY <2>1, EndedPlace
<1>4. CASE q \in Gets /\ Get(q)
  <2>1. pc'[q] = "view" /\ known'[q] = told /\ record' = record
    BY <1>4 DEF Get, Begin, Goto, DataTypes
  <2>2. \A b \in told : Returned(b)'
    BY <2>1 DEF RecordOrder, Returned
  <2>. QED  BY <2>1, <2>2 DEF Place, RecordOrder, Marking, Writing, Viewing
<1>5. CASE ViewHeader(q) \/ ViewItem(q)
  <2>1. pc[q] \in Viewing /\ pc'[q] \in {"view_item", "answer"} /\ known' = known
          /\ record' = record
    BY <1>5 DEF ViewHeader, ViewItem, Goto, DataTypes, Viewing, histories
  <2>2. \A b \in known'[q] : Returned(b)'
    BY <2>1 DEF Place, Returned
  <2>. QED  BY <2>1, <2>2 DEF Place, Marking, Writing, Viewing
<1>. QED  BY <1>1, <1>2, <1>3, <1>4, <1>5, QuietPlace, WritingPlace DEF StepOf, ReturnStep

\* A view reads the fields of its items one by one.
LEMMA ReadMoves ==
  ASSUME DataTypes, NEW q \in Requests, Locals(q), todo[q] # <<>>, Advance(q),
         NEW x \in Bicycles, NEW k \in 1 .. 4
  PROVE  /\ Read(q, x, k)' <=> Read(q, x, k) \/ (x = Head(todo[q]) /\ k = at[q])
         /\ x = Head(todo[q]) => (Read(q, x, k) <=> k < at[q])
<1>1. /\ at'[q] = IF at[q] = 4 THEN 1 ELSE at[q] + 1
      /\ todo'[q] = IF at[q] = 4 THEN Tail(todo[q]) ELSE todo[q]
      /\ Head(todo[q]) \in Range(todo[q]) /\ at[q] \in 1 .. 4
  BY AdvanceMove
<1>2. Range(Tail(todo[q])) = Range(todo[q]) \ {Head(todo[q])}
  BY ListParts DEF Locals, DataTypes
<1>3. x = Head(todo[q]) => (Read(q, x, k) <=> k < at[q])
  BY <1>1 DEF Read
<1>4. CASE at[q] < 4
  <2>1. at'[q] = at[q] + 1 /\ todo'[q] = todo[q]
    BY <1>1, <1>4
  <2>2. k < at'[q] <=> k < at[q] \/ k = at[q]
    BY <1>1, <2>1
  <2>. QED  BY <1>1, <1>3, <2>1, <2>2 DEF Read
<1>5. CASE at[q] = 4
  <2>1. at'[q] = 1 /\ todo'[q] = Tail(todo[q]) /\ ~(k < at'[q])
    BY <1>1, <1>5
  <2>2. Read(q, x, k)' <=> x \notin Range(todo[q]) \ {Head(todo[q])}
    BY <1>2, <2>1 DEF Read
  <2>3. k < at[q] \/ k = at[q]
    BY <1>5
  <2>. QED  BY <1>3, <2>2, <2>3 DEF Read
<1>. QED  BY <1>1, <1>3, <1>4, <1>5

LEMMA ShowsPreserved ==
  ASSUME DataTypes, RecordOrder, NEW q \in Requests, Locals(q), Place(q), Shows(q), StepOf(q)
  PROVE  Shows(q)'
<1>1. CASE ViewHeader(q)
  <2>1. /\ pc[q] = "view" /\ record' = record /\ todo' = todo /\ at' = at /\ known' = known
        /\ SeenHeader(q)' = HeaderStatus
    BY <1>1, CellsHere DEF ViewHeader, Goto, DataTypes, histories
  <2>2. todo[q] = Items /\ at[q] = 1
    BY <2>1 DEF Locals
  <2>3. \A b \in Bicycles : ~Read(q, b, 1)' /\ ~Read(q, b, 2)' /\ ~Read(q, b, 3)'
                              /\ ~Read(q, b, 4)'
    BY <2>1, <2>2, AllItems DEF Read
  <2>4. /\ HeaderStatus \in Statuses /\ known[q] \in SUBSET Bicycles
        /\ HeaderStatus = "completada" => \A b \in Bicycles : ItemStatus(b) = "devuelto"
        /\ HeaderStatus = "parcialmente_devuelta" =>
             \E b \in Bicycles : ItemStatus(b) = "devuelto"
        /\ known[q] # {} => HeaderStatus # "activa"
    BY <2>1 DEF DataTypes, RecordOrder, Place, Viewing
  <2>. QED  BY <2>1, <2>3, <2>4 DEF Shows
<1>2. CASE ViewItem(q)
  <2>1. pc[q] = "view_item" /\ Advance(q) /\ record' = record /\ known' = known
    BY <1>2 DEF ViewItem, Goto, histories
  <2>2. todo[q] # <<>> /\ known[q] \in SUBSET Bicycles
    BY <2>1 DEF Locals, DataTypes
  <2>. DEFINE IsHead(x) == x = Head(todo[q])
              Reads(x, k) == Read(q, x, k)'
  <2>3. \A x \in Bicycles : \A k \in 1 .. 4 :
          /\ Reads(x, k) <=> Read(q, x, k) \/ (IsHead(x) /\ k = at[q])
          /\ IsHead(x) => (Read(q, x, k) <=> k < at[q])
    BY <2>1, <2>2, ReadMoves
  <2>4. /\ SeenHeader(q)' = SeenHeader(q)
        /\ \A x \in Bicycles :
             /\ Status(q, x)' = IF IsHead(x) /\ at[q] = 1 THEN ItemStatus(x) ELSE Status(q, x)
             /\ SeenAmount(q, x)' = IF IsHead(x) /\ at[q] = 2 THEN Amount(x)
                                    ELSE SeenAmount(q, x)
             /\ SeenMinutes(q, x)' = IF IsHead(x) /\ at[q] = 3 THEN Minutes(x)
                                     ELSE SeenMinutes(q, x)
             /\ SeenInstant(q, x)' = IF IsHead(x) /\ at[q] = 4 THEN Instant(x)
                                     ELSE SeenInstant(q, x)
    BY <1>2, SeenNext
  <2>5. at[q] \in 1 .. 4
    BY DEF DataTypes
  <2>. DEFINE St(x) == Status(q, x)'
              Am(x) == SeenAmount(q, x)'
              Mi(x) == SeenMinutes(q, x)'
              Inst(x) == SeenInstant(q, x)'
              R(x, k) == Read(q, x, k)
  <2>r. \A x \in Bicycles :
          /\ Reads(x, 1) <=> R(x, 1) \/ (IsHead(x) /\ at[q] = 1)
          /\ Reads(x, 2) <=> R(x, 2) \/ (IsHead(x) /\ at[q] = 2)
          /\ Reads(x, 3) <=> R(x, 3) \/ (IsHead(x) /\ at[q] = 3)
          /\ Reads(x, 4) <=> R(x, 4) \/ (IsHead(x) /\ at[q] = 4)
          /\ IsHead(x) /\ at[q] = 2 => ~R(x, 3) /\ ~R(x, 4)
    <3>. HIDE DEF IsHead, Reads, R
    <3>. QED  BY <2>3, <2>5 DEF R
  <2>s. \A x \in Bicycles :
          /\ St(x) = IF IsHead(x) /\ at[q] = 1 THEN ItemStatus(x) ELSE Status(q, x)
          /\ Am(x) = IF IsHead(x) /\ at[q] = 2 THEN Amount(x) ELSE SeenAmount(q, x)
          /\ Mi(x) = IF IsHead(x) /\ at[q] = 3 THEN Minutes(x) ELSE SeenMinutes(q, x)
          /\ Inst(x) = IF IsHead(x) /\ at[q] = 4 THEN Instant(x) ELSE SeenInstant(q, x)
    BY <2>4
  <2>. HIDE DEF IsHead, Reads, R, St, Am, Mi, Inst
  <2>6. SeenHeader(q)' = "completada" =>
          \A b \in Bicycles : /\ ItemStatus(b)' = "devuelto"
                              /\ Reads(b, 1) => St(b) = "devuelto"
    BY <2>1, <2>4, <2>r, <2>s DEF Shows, R
  <2>7. SeenHeader(q)' = "parcialmente_devuelta" =>
          \E b \in Bicycles : /\ ItemStatus(b)' = "devuelto"
                              /\ Reads(b, 1) => St(b) = "devuelto"
    <3> SUFFICES ASSUME SeenHeader(q) = "parcialmente_devuelta"
                 PROVE  \E b \in Bicycles : /\ ItemStatus(b)' = "devuelto"
                                            /\ Reads(b, 1) => St(b) = "devuelto"
      BY <2>4
    <3>1. PICK b \in Bicycles : /\ ItemStatus(b) = "devuelto"
                                /\ R(b, 1) => Status(q, b) = "devuelto"
      BY <2>1 DEF Shows, R
    <3>2. Reads(b, 1) => St(b) = "devuelto"
      BY <2>r, <2>s, <3>1
    <3>. QED  BY <2>1, <3>1, <3>2
  <2>8. ASSUME NEW b \in Bicycles, Reads(b, 2), Am(b) # None
        PROVE  /\ Minutes(b)' # None /\ Instant(b)' # None
               /\ Reads(b, 3) => Mi(b) # None
               /\ Reads(b, 4) => Inst(b) # None
    <3>1. CASE IsHead(b) /\ at[q] = 2
      <4>1. Am(b) = Amount(b)
        BY <2>s, <3>1
      <4>2. Minutes(b) # None /\ Instant(b) # None
        BY <2>8, <4>1 DEF RecordOrder
      <4>3. ~Reads(b, 3) /\ ~Reads(b, 4)
        BY <2>r, <3>1
      <4>. QED  BY <2>1, <4>2, <4>3
    <3>2. CASE ~(IsHead(b) /\ at[q] = 2)
      <4>1. R(b, 2) /\ SeenAmount(q, b) # None
        BY <2>r, <2>s, <2>8, <3>2
      <4>2. /\ Minutes(b) # None /\ Instant(b) # None
            /\ R(b, 3) => SeenMinutes(q, b) # None
            /\ R(b, 4) => SeenInstant(q, b) # None
        BY <2>1, <4>1 DEF Shows, R
      <4>. QED  BY <2>1, <2>r, <2>s, <4>2
    <3>. QED  BY <3>1, <3>2
  <2>9. ASSUME NEW b \in known'[q]
        PROVE  /\ Reads(b, 1) => St(b) = "devuelto"
               /\ Reads(b, 2) => Am(b) # None
               /\ Reads(b, 3) => Mi(b) # None
               /\ Reads(b, 4) => Inst(b) # None
    <3>1. b \in Bicycles /\ b \in known[q]
      BY <2>1, <2>2
    <3>2. Returned(b)
      BY <2>1, <3>1 DEF Place, Viewing
    <3>3. /\ R(b, 1) => Status(q, b) = "devuelto"
          /\ R(b, 2) => SeenAmount(q, b) # None
          /\ R(b, 3) => SeenMinutes(q, b) # None
          /\ R(b, 4) => SeenInstant(q, b) # None
      BY <2>1, <3>1 DEF Shows, R
    <3>. QED  BY <2>r, <2>s, <3>1, <3>2, <3>3 DEF Returned
  <2>10. SeenHeader(q)' \in Statuses /\ (known'[q] # {} => SeenHeader(q)' # "activa")
    BY <2>1, <2>4 DEF Shows, R
  <2>. QED  BY <2>6, <2>7, <2>8, <2>9, <2>10 DEF Shows, Reads, St, Am, Mi, Inst
<1>3. CASE ~ViewHeader(q) /\ ~ViewItem(q)
  <2>1. pc'[q] \notin {"view_item", "answer"}
    <3>1. ASSUME NEW to \in Labels, NEW from, Goto(q, from, to) PROVE pc'[q] = to
      BY <3>1, GotoMove
    <3>2. ReturnLoad(q) => pc'[q] \in {"check", "refused"}
      BY DEF ReturnLoad, Begin, Goto, DataTypes
    <3>3. Get(q) => pc'[q] = "view"
      BY DEF Get, Begin, Goto, DataTypes
    <3>4. ReturnStep(q) \/ Answer(q) => pc'[q] \in Outcomes \cup Writing \cup {"view"}
      BY DEF ReturnStep, ReturnRefused, ReturnStamp, ReturnApply, ReturnApplyRaises,
             ReturnMark, ReturnMarkRaises, ReturnMarkWrite, ReturnDerive, ReturnDerived,
             ReturnClose, ReturnCloseWrite, ReturnCrashed, ReturnDone, Answer,
             End, Goto, DataTypes, Outcomes, Writing
    <3>. QED  BY <1>3, <3>2, <3>3, <3>4 DEF StepOf, Outcomes, Writing
  <2>. QED  BY <2>1 DEF Shows
<1>. QED  BY <1>1, <1>2, <1>3

\* The rental as it starts.
LEMMA InitRecord ==
  ASSUME Init
  PROVE  /\ record \in [Cells -> Values]
         /\ HeaderStatus = "activa" /\ ClosedAt = None
         /\ \A b \in Bicycles : ItemStatus(b) = "activo" /\ Instant(b) = None
                                  /\ Minutes(b) = None /\ Amount(b) = None
<1>. DEFINE first(c) == CASE c = <<Header, "status">> -> "activa"
                          [] c[2] = "status" /\ c[1] # Header -> "activo"
                          [] OTHER -> None
<1>1. record = [c \in Cells |-> first(c)]
  BY DEF Init
<1>2. \A c \in Cells : first(c) \in Values
  BY DEF Values, Statuses, OpenStatuses
<1>3. record \in [Cells -> Values] /\ \A c \in Cells : record[c] = first(c)
  BY <1>1, <1>2
<1>4. first(<<Header, "status">>) = "activa" /\ first(<<Header, "closed_at">>) = None
  OBVIOUS
<1>5. \A b \in Bicycles :
        /\ first(<<b, "status">>) = "activo" /\ first(<<b, "returned_at">>) = None
        /\ first(<<b, "usage_minutes">>) = None /\ first(<<b, "final_amount">>) = None
  BY CellsHere
<1>. HIDE DEF first
<1>. QED  BY <1>3, <1>4, <1>5, CellsHere

LEMMA InitHolds == Init => Inv
<1> SUFFICES ASSUME Init PROVE Inv
  OBVIOUS
<1>1. /\ record \in [Cells -> Values]
      /\ HeaderStatus = "activa" /\ ClosedAt = None
      /\ \A b \in Bicycles : ItemStatus(b) = "activo" /\ Instant(b) = None
                               /\ Minutes(b) = None /\ Amount(b) = None
  BY InitRecord
<1>2. DataTypes
  <2>1. HeaderStatus \in Statuses
    BY <1>1 DEF Statuses, OpenStatuses
  <2>2. \A q \in Requests : pc[q] = "idle" /\ "idle" \in Labels
    BY DEF Init, Labels
  <2>3. todo \in [Requests -> Seq(Bicycles)] /\ seen \in [Requests -> [ViewCells -> Values]]
    BY NoBikes, BlankView DEF Init
  <2>4. now \in Instants /\ pc \in [Requests -> Labels] /\ at \in [Requests -> 1 .. 4]
    BY <2>2 DEF Init
  <2>5. /\ stamp \in [Requests -> Instants \cup {None}]
        /\ derived \in [Requests -> Statuses \cup {None}]
    BY DEF Init
  <2>6. /\ told \in SUBSET Bicycles /\ known \in [Requests -> SUBSET Bicycles]
        /\ overlapped \in BOOLEAN
    BY DEF Init
  <2>7. \A b \in Bicycles :
          /\ ItemStatus(b) \in {"activo", "devuelto"}
          /\ Instant(b) \in Instants \cup {None} /\ Minutes(b) \in Instants \cup {None}
          /\ Amount(b) \in Instants \cup {None}
    BY <1>1
  <2>. QED  BY <1>1, <2>1, <2>3, <2>4, <2>5, <2>6, <2>7 DEF DataTypes
<1>3. RecordOrder
  BY <1>1 DEF RecordOrder, Init, Requests
<1>4. ASSUME NEW q \in Requests PROVE Locals(q) /\ Place(q) /\ Shows(q)
  <2>1. pc[q] = "idle" /\ todo[q] = <<>> /\ at[q] = 1
    BY DEF Init
  <2>. QED  BY <2>1, NoBikes DEF Locals, Place, Shows, Writing, Marking, Viewing
<1>. QED  BY <1>2, <1>3, <1>4 DEF Inv

LEMMA InvPreserved == Inv /\ [Next]_vars => Inv'
<1> SUFFICES ASSUME Inv, [Next]_vars PROVE Inv'
  OBVIOUS
<1>1. ASSUME NEW q \in Requests, StepOf(q) PROVE Inv'
  <2>1. DataTypes /\ RecordOrder /\ Locals(q) /\ Place(q) /\ Shows(q)
    BY DEF Inv
  <2>2. DataTypes' /\ RecordOrder' /\ Locals(q)' /\ Place(q)' /\ Shows(q)' /\ Grows
    BY <1>1, <2>1, TypesPreserved, OrderPreserved, PlacePreserved, ShowsPreserved, StepGrows
  <2>3. ASSUME NEW r \in Requests, r # q PROVE Locals(r)' /\ Place(r)' /\ Shows(r)'
    <3>1. Stays(r)
      BY <1>1, <2>1, <2>3, OthersStay
    <3>. QED  BY <2>1, <2>2, <2>3, <3>1, OthersPlace DEF Inv
  <2>. QED  BY <2>2, <2>3 DEF Inv
<1>2. ASSUME UNCHANGED vars PROVE Inv'
  <2>1. /\ record' = record /\ now' = now /\ pc' = pc /\ todo' = todo /\ at' = at
        /\ stamp' = stamp /\ derived' = derived /\ seen' = seen
        /\ told' = told /\ known' = known /\ overlapped' = overlapped
    BY <1>2 DEF vars, histories
  <2>2. DataTypes' /\ RecordOrder'
    BY <2>1 DEF Inv, DataTypes, RecordOrder, Returned
  <2>3. ASSUME NEW r \in Requests PROVE Locals(r)' /\ Place(r)' /\ Shows(r)'
    <3>1. Grows /\ Stays(r)
      BY <2>1, InstantsAssumption DEF Grows, Stays, Inv, DataTypes
    <3>. QED  BY <3>1, OthersPlace DEF Inv
  <2>. QED  BY <2>2, <2>3 DEF Inv
<1>. QED  BY <1>1, <1>2, StepsOf

LEMMA Invariant == Spec => []Inv
BY InitHolds, InvPreserved, PTL DEF Spec

-----------------------------------------------------------------------------
(* Returns that do not overlap *)

\* No return but q is in flight.
Alone(q) == \A r \in Returns \ {q} : ~InFlight(r)

\* The record, when no other return writes it.
Serially(q) ==
  /\ \A b \in Bicycles :
       \/ Fresh(b) \/ Dated(b)
       \/ pc[q] = "mark_write" /\ at[q] > 1 /\ b = Head(todo[q])
  /\ pc[q] \notin BehindAt => HeaderStatus = DeriveStatus
  /\ pc[q] \notin ClosingAt =>
       IF HeaderStatus = "completada" THEN LastReturn(ClosedAt) ELSE ClosedAt = None

\* A complete rental stays so, and what a bicycle is billed.
Kept ==
  /\ HeaderStatus = "completada" => HeaderStatus' = "completada"
  /\ \A b \in Bicycles : Amount(b) # None => Amount(b)' = Amount(b)

LEMMA AloneRecord ==
  \A q \in Returns : Alone(q) => (SerialRecord <=> Serially(q))
<1> SUFFICES ASSUME NEW q \in Returns, Alone(q) PROVE SerialRecord <=> Serially(q)
  OBVIOUS
<1>1. \A r \in Returns : r # q => pc[r] \in Outcomes \cup {"idle"}
  BY DEF Alone, InFlight
<1>2. "mark_write" \notin Outcomes \cup {"idle"} /\ BehindAt \cap (Outcomes \cup {"idle"}) = {}
        /\ ClosingAt \cap (Outcomes \cup {"idle"}) = {}
  BY DEF Outcomes, BehindAt, ClosingAt
<1>3. \A b \in Bicycles :
        IsMarked(b) <=> pc[q] = "mark_write" /\ at[q] > 1 /\ b = Head(todo[q])
  BY <1>1, <1>2 DEF IsMarked
<1>4. (Behind <=> pc[q] \in BehindAt) /\ (Closing <=> pc[q] \in ClosingAt)
  BY <1>1, <1>2 DEF Behind, Closing
<1>5. \A p, r \in Returns : InFlight(p) /\ InFlight(r) => p = r
  BY DEF Alone
<1>. QED  BY <1>3, <1>4, <1>5 DEF SerialRecord, Serially

LEMMA AloneRecordNext ==
  ASSUME NEW q \in Returns, Alone(q)', Serially(q)'
  PROVE  SerialRecord'
<1>1. \A r \in Returns : r # q => pc'[r] \in Outcomes \cup {"idle"}
  BY DEF Alone, InFlight
<1>2. "mark_write" \notin Outcomes \cup {"idle"} /\ BehindAt \cap (Outcomes \cup {"idle"}) = {}
        /\ ClosingAt \cap (Outcomes \cup {"idle"}) = {}
  BY DEF Outcomes, BehindAt, ClosingAt
<1>3. \A b \in Bicycles :
        pc'[q] = "mark_write" /\ at'[q] > 1 /\ b = Head(todo'[q]) => IsMarked(b)'
  BY DEF IsMarked
<1>4. (Behind' <=> pc'[q] \in BehindAt) /\ (Closing' <=> pc'[q] \in ClosingAt)
  BY <1>1, <1>2 DEF Behind, Closing
<1>5. \A p, r \in Returns : InFlight(p)' /\ InFlight(r)' => p = r
  BY DEF Alone, InFlight
<1>6. \A b \in Bicycles : Fresh(b)' \/ Dated(b)' \/ IsMarked(b)'
  BY <1>3 DEF Serially
<1>. QED  BY <1>4, <1>5, <1>6 DEF SerialRecord, Serially

\* A return that takes a step is the only one, unless two overlap.
LEMMA OnlyOne ==
  ASSUME DataTypes, NEW q \in Returns, StepOf(q), ~overlapped',
         ~overlapped => SerialRecord
  PROVE  ~overlapped /\ Alone(q) /\ Alone(q)'
<1>1. q \in Requests
  BY DEF Requests
<1>2. ASSUME NEW r \in Returns, r # q PROVE pc'[r] = pc[r]
  BY <1>1, <1>2, OthersStay DEF Requests, Stays
<1>3. CASE ReturnLoad(q)
  <2>1. ~overlapped /\ NoReturnInFlight
    BY <1>3 DEF ReturnLoad, DataTypes
  <2>. QED  BY <1>2, <2>1 DEF NoReturnInFlight, Alone, InFlight
<1>4. CASE ~ReturnLoad(q)
  <2>1. overlapped' = overlapped /\ pc[q] \notin Outcomes \cup {"idle"}
    BY <1>4, RequestsAssumption
       DEF StepOf, ReturnStep, ReturnRefused, ReturnStamp, ReturnApply,
           ReturnApplyRaises, ReturnMark, ReturnMarkRaises, ReturnDerive, ReturnClose,
           ReturnMarkWrite, ReturnDerived, ReturnCloseWrite,
           ReturnCrashed, ReturnDone, ViewHeader, ViewItem, Answer, Goto, End, histories,
           Outcomes
  <2>2. SerialRecord /\ InFlight(q)
    BY <2>1 DEF InFlight
  <2>3. Alone(q)
    BY <2>2 DEF SerialRecord, Alone
  <2>. QED  BY <1>2, <2>1, <2>3 DEF Alone, InFlight
<1>. QED  BY <1>3, <1>4

\* What stays as it is when the record does.
LEMMA SameRecord ==
  ASSUME record' = record
  PROVE  /\ DeriveStatus' = DeriveStatus /\ Kept
         /\ HeaderStatus' = HeaderStatus /\ ClosedAt' = ClosedAt
BY DEF DeriveStatus, Kept

LEMMA QuietRecord ==
  ASSUME NEW q \in Returns, Serially(q), record' = record, pc[q] # "mark_write",
         pc[q] \notin BehindAt \/ pc'[q] \in BehindAt,
         pc[q] \notin ClosingAt \/ pc'[q] \in ClosingAt
  PROVE  Serially(q)'
<1>1. DeriveStatus' = DeriveStatus
  BY SameRecord
<1>2. \A b \in Bicycles : Fresh(b) \/ Dated(b)
  BY DEF Serially
<1>3. ASSUME NEW b \in Bicycles PROVE Fresh(b)' \/ Dated(b)'
  BY <1>2 DEF Fresh, Dated
<1>4. LastReturn(ClosedAt)' <=> LastReturn(ClosedAt)
  BY DEF LastReturn
<1>. QED  BY <1>1, <1>3, <1>4 DEF Serially

LEMMA EndedSerially ==
  ASSUME NEW q, pc'[q] \notin {"check"} \cup Writing
  PROVE  SerialPlace(q)'
<1>1. pc'[q] \notin Marking \cup Writing \cup BehindAt
        \cup {"mark_write", "derive", "derived", "close", "close_write", "check"}
  BY DEF Marking, Writing, BehindAt
<1>. QED  BY <1>1 DEF SerialPlace

\* A return that writes nothing.
LEMMA QuietSerially ==
  ASSUME DataTypes, RecordOrder, NEW q \in Returns, Locals(q), Place(q),
         Serially(q), SerialPlace(q),
         ReturnStamp(q) \/ ReturnApply(q) \/ ReturnMark(q) \/ ReturnDerive(q)
           \/ ReturnClose(q)
  PROVE  Serially(q)' /\ SerialPlace(q)' /\ Kept
<1>0. q \in Requests
  BY DEF Requests
<1>1. /\ record' = record /\ todo' = todo /\ at' = at /\ known' = known /\ told' = told
      /\ pc[q] \in {"check", "apply", "mark", "derive", "close"}
  BY DEF ReturnStamp, ReturnApply, ReturnMark, ReturnDerive, ReturnClose, Goto, histories
<1>2. /\ DeriveStatus' = DeriveStatus /\ Kept
      /\ HeaderStatus' = HeaderStatus /\ ClosedAt' = ClosedAt
  BY <1>1, SameRecord
<1>3. \A x : (Fresh(x)' <=> Fresh(x)) /\ (LastReturn(x)' <=> LastReturn(x))
  BY <1>1 DEF Fresh, LastReturn
<1>4. \E b \in known'[q] : b \notin told'
  BY <1>1 DEF SerialPlace, Writing
<1>5. pc[q] \in Marking =>
        (\A i \in 1 .. Len(todo[q]) : Fresh(todo[q][i]))'
  <2>1. pc[q] \in Marking => \A i \in 1 .. Len(todo[q]) : Fresh(todo[q][i])
    BY <1>1 DEF SerialPlace
  <2>. QED  BY <1>1, <2>1 DEF Fresh
<1>6. CASE ReturnStamp(q)
  <2>1. pc[q] = "check" /\ pc'[q] = "apply" /\ stamp'[q] = now'
    BY <1>0, <1>6 DEF ReturnStamp, Goto, DataTypes
  <2>2. Serially(q)'
    BY <1>1, <2>1, QuietRecord DEF BehindAt, ClosingAt
  <2>3. "apply" \notin BehindAt /\ "check" \in Marking
    BY DEF BehindAt, Marking
  <2>. QED  BY <1>2, <1>4, <1>5, <2>1, <2>2, <2>3 DEF SerialPlace, Fresh
<1>7. CASE ReturnApply(q)
  <2>1. /\ pc[q] = "apply" /\ pc'[q] = "mark" /\ stamp' = stamp /\ now' = now
        /\ HeaderStatus \in OpenStatuses
    BY <1>0, <1>7 DEF ReturnApply, Goto, DataTypes
  <2>2. Serially(q)'
    BY <1>1, <2>1, QuietRecord DEF BehindAt, ClosingAt
  <2>3. "apply" \in Marking /\ "apply" \in Writing /\ "apply" \notin ClosingAt
    BY DEF Marking, Writing, ClosingAt, BehindAt
  <2>4. stamp[q] = now
    BY <2>1, <2>3 DEF SerialPlace
  <2>5. ClosedAt = None
    BY <2>1, <2>3 DEF Serially, OpenStatuses
  <2>. QED  BY <1>1, <1>2, <1>4, <1>5, <2>1, <2>2, <2>3, <2>4, <2>5 DEF SerialPlace, Fresh
<1>8. CASE ReturnMark(q)
  <2>1. /\ pc[q] = "mark" /\ pc'[q] = "mark_write" /\ stamp' = stamp /\ now' = now
    BY <1>0, <1>8 DEF ReturnMark, Goto, DataTypes
  <2>2. Serially(q)'
    BY <1>1, <2>1, QuietRecord DEF BehindAt, ClosingAt
  <2>3. "mark" \in Marking /\ "mark" \in Writing /\ "mark" \in BehindAt
    BY DEF Marking, Writing, BehindAt
  <2>4. stamp[q] = now /\ HeaderStatus \in OpenStatuses /\ ClosedAt = None
    BY <2>1, <2>3 DEF SerialPlace
  <2>5. at[q] = 1 /\ todo[q] # <<>> /\ todo[q] \in Seq(Bicycles)
    BY <1>0, <2>1, <2>3 DEF Locals, DataTypes
  <2>6. Head(todo[q]) = todo[q][1] /\ 1 \in 1 .. Len(todo[q])
    BY <2>5
  <2>7. Fresh(Head(todo[q]))
    BY <2>1, <2>3, <2>6 DEF SerialPlace
  <2>8. PartlyDated(Head(todo[q]), at[q], stamp[q])'
    BY <1>1, <2>1, <2>5, <2>7 DEF PartlyDated, Fresh
  <2>. QED  BY <1>1, <1>2, <1>4, <1>5, <2>1, <2>2, <2>3, <2>4, <2>8 DEF SerialPlace, Fresh
<1>9. CASE ReturnDerive(q)
  <2>1. /\ pc[q] = "derive" /\ pc'[q] = "derived" /\ stamp' = stamp /\ now' = now
        /\ derived'[q] = DeriveStatus
    BY <1>0, <1>9 DEF ReturnDerive, Goto, DataTypes
  <2>2. Serially(q)'
    BY <1>1, <2>1, QuietRecord DEF BehindAt, ClosingAt
  <2>3. "derive" \in Writing /\ "derive" \in BehindAt /\ "derived" \notin Marking
    BY DEF Marking, Writing, BehindAt
  <2>4. stamp[q] = now /\ HeaderStatus \in OpenStatuses /\ ClosedAt = None
          /\ LastReturn(stamp[q])
    BY <2>1, <2>3 DEF SerialPlace
  <2>5. LastReturn(stamp[q])'
    BY <1>1, <2>1, <2>4 DEF LastReturn
  <2>. QED  BY <1>1, <1>2, <1>4, <2>1, <2>2, <2>3, <2>4, <2>5 DEF SerialPlace
<1>10. CASE ReturnClose(q)
  <2>1. /\ pc[q] = "close" /\ stamp' = stamp /\ now' = now
        /\ pc'[q] = IF CompleteAndOpen THEN "close_write" ELSE "commit"
    BY <1>0, <1>10 DEF ReturnClose, Goto, DataTypes
  <2>2. "close" \in Writing /\ "close" \notin BehindAt
          /\ "close_write" \notin Marking \cup BehindAt
          /\ "commit" \notin Marking \cup ClosingAt \cup BehindAt
    BY DEF Marking, Writing, BehindAt, ClosingAt
  <2>3. stamp[q] = now /\ ClosedAt = None /\ LastReturn(stamp[q])
    BY <2>1, <2>2 DEF SerialPlace
  <2>4. LastReturn(stamp[q])'
    BY <1>1, <2>1, <2>3 DEF LastReturn
  <2>5. CASE CompleteAndOpen
    <3>1. pc'[q] = "close_write" /\ HeaderStatus = "completada"
      BY <2>1, <2>5 DEF CompleteAndOpen
    <3>2. Serially(q)'
      BY <1>1, <2>1, <3>1, QuietRecord DEF BehindAt, ClosingAt
    <3>. QED  BY <1>1, <1>2, <1>4, <2>1, <2>2, <2>3, <2>4, <3>1, <3>2 DEF SerialPlace
  <2>6. CASE ~CompleteAndOpen
    <3>1. pc'[q] = "commit" /\ HeaderStatus # "completada"
      BY <2>1, <2>3, <2>6 DEF CompleteAndOpen
    <3>2. Serially(q)'
      <4>1. \A b \in Bicycles : Fresh(b) \/ Dated(b)
        BY <2>1 DEF Serially
      <4>2. ASSUME NEW b \in Bicycles PROVE Fresh(b)' \/ Dated(b)'
        BY <1>1, <4>1 DEF Fresh, Dated
      <4>3. HeaderStatus = DeriveStatus
        BY <2>1, <2>2 DEF Serially
      <4>. QED  BY <1>2, <2>3, <3>1, <4>2, <4>3 DEF Serially
    <3>. QED  BY <1>1, <1>2, <1>4, <2>1, <2>2, <2>3, <3>1, <3>2 DEF SerialPlace
  <2>. QED  BY <2>5, <2>6
<1>. QED  BY <1>6, <1>7, <1>8, <1>9, <1>10

\* A return that marks an item.
LEMMA MarkSerially ==
  ASSUME DataTypes, RecordOrder, NEW q \in Returns, Locals(q), Place(q),
         Serially(q), SerialPlace(q), ReturnMarkWrite(q), RecordOrder'
  PROVE  Serially(q)' /\ SerialPlace(q)' /\ Kept
<1>0. q \in Requests
  BY DEF Requests
<1>1. /\ pc[q] = "mark_write" /\ Advance(q) /\ stamp' = stamp /\ now' = now
      /\ known' = known /\ told' = told
      /\ pc'[q] = IF LastField(q) THEN "derive" ELSE IF at[q] = 4 THEN "mark" ELSE "mark_write"
  BY <1>0 DEF ReturnMarkWrite, Goto, DataTypes, histories
<1>2. /\ "mark_write" \in Marking /\ "mark_write" \in Writing /\ "mark_write" \in BehindAt
      /\ "mark" \in BehindAt /\ "derive" \in BehindAt /\ "derive" \notin Marking
      /\ BehindAt \subseteq ClosingAt
  BY DEF Marking, Writing, BehindAt, ClosingAt
<1>3. /\ todo[q] # <<>> /\ todo[q] \in Seq(Bicycles) /\ stamp[q] \in Instants
      /\ \A i, j \in 1 .. Len(todo[q]) : todo[q][i] = todo[q][j] => i = j
  BY <1>0, <1>1, <1>2 DEF Locals, DataTypes
<1>4. PICK b \in Bicycles : b = Head(todo[q]) /\ b = todo[q][1] /\ 1 \in 1 .. Len(todo[q])
  BY <1>3, ListParts
<1>5. /\ at'[q] = IF at[q] = 4 THEN 1 ELSE at[q] + 1
      /\ todo'[q] = IF at[q] = 4 THEN Tail(todo[q]) ELSE todo[q]
      /\ at[q] \in 1 .. 4
  BY <1>0, <1>1, <1>3, AdvanceMove
<1>6. /\ PartlyDated(b, at[q], stamp[q]) /\ stamp[q] = now
      /\ HeaderStatus \in OpenStatuses /\ ClosedAt = None
      /\ \E x \in known[q] : x \notin told
  BY <1>1, <1>2, <1>4 DEF SerialPlace
<1>7. /\ HeaderStatus' = HeaderStatus /\ ClosedAt' = ClosedAt
      /\ \A x \in Bicycles :
           /\ ItemStatus(x)' = IF x = b /\ at[q] = 1 THEN "devuelto" ELSE ItemStatus(x)
           /\ Instant(x)' = IF x = b /\ at[q] = 2 THEN stamp[q] ELSE Instant(x)
           /\ Minutes(x)' = IF x = b /\ at[q] = 3 THEN stamp[q] ELSE Minutes(x)
           /\ Amount(x)' = IF x = b /\ at[q] = 4 THEN stamp[q] ELSE Amount(x)
  BY <1>4, MarkWrites
<1>8. \A x \in Bicycles : x # b => (Fresh(x)' <=> Fresh(x)) /\ (Dated(x)' <=> Dated(x))
  BY <1>7 DEF Fresh, Dated
<1>9. \A x \in Bicycles : x # b => Fresh(x) \/ Dated(x)
  BY <1>4 DEF Serially
<1>10. ASSUME NEW x \in Bicycles, x # b PROVE Fresh(x)' \/ Dated(x)'
  BY <1>7, <1>9, <1>10 DEF Fresh, Dated
<1>11. Kept
  BY <1>6, <1>7 DEF Kept, PartlyDated
<1>12. stamp[q] # None
  BY <1>3, InstantsAssumption
<1>13. ASSUME NEW i \in 1 .. Len(todo[q]), i # 1
       PROVE  todo[q][i] \in Bicycles /\ todo[q][i] # b /\ Fresh(todo[q][i])
  <2>1. todo[q][i] \in Bicycles /\ todo[q][i] # b
    BY <1>3, <1>4, <1>13
  <2>2. Fresh(todo[q][i])
    BY <1>1, <1>2, <1>13 DEF SerialPlace
  <2>. QED  BY <2>1, <2>2
<1>14. CASE at[q] # 4
  <2>1. /\ pc'[q] = "mark_write" /\ todo'[q] = todo[q] /\ at'[q] = at[q] + 1
        /\ at[q] = 1 \/ at[q] = 2 \/ at[q] = 3
    BY <1>1, <1>5, <1>14 DEF LastField
  <2>2. /\ ItemStatus(b)' = "devuelto"
        /\ Instant(b)' = IF at'[q] > 2 THEN stamp[q] ELSE None
        /\ Minutes(b)' = IF at'[q] > 3 THEN stamp[q] ELSE None
        /\ Amount(b)' = None
        /\ at'[q] > 1
    <3>1. CASE at[q] = 1
      BY <1>6, <1>7, <2>1, <3>1 DEF PartlyDated
    <3>2. CASE at[q] = 2
      BY <1>6, <1>7, <2>1, <3>2 DEF PartlyDated
    <3>3. CASE at[q] = 3
      BY <1>6, <1>7, <2>1, <3>3 DEF PartlyDated
    <3>. QED  BY <2>1, <3>1, <3>2, <3>3
  <2>3. Head(todo'[q]) = b
    BY <1>4, <2>1
  <2>4. PartlyDated(Head(todo[q]), at[q], stamp[q])'
    BY <1>1, <2>2, <2>3 DEF PartlyDated
  <2>5. Serially(q)'
    <3>1. \A x \in Bicycles : x = b \/ Fresh(x)' \/ Dated(x)'
      BY <1>10
    <3>. QED  BY <1>2, <2>1, <2>2, <2>3, <3>1 DEF Serially, Fresh, Dated
  <2>6. (\A i \in 1 .. Len(todo[q]) : Fresh(todo[q][i]) \/ i = 1)'
    <3>1. ASSUME NEW i \in 1 .. Len(todo[q]), i # 1
          PROVE  (/\ ItemStatus(todo[q][i]) = "activo" /\ Instant(todo[q][i]) = None
                  /\ Minutes(todo[q][i]) = None /\ Amount(todo[q][i]) = None)'
      <4>1. PICK x \in Bicycles : x = todo[q][i] /\ x # b /\ Fresh(x)
        BY <1>13, <3>1
      <4>. QED  BY <1>7, <2>1, <4>1 DEF Fresh
    <3>. QED  BY <2>1, <3>1 DEF Fresh
  <2>. QED  BY <1>1, <1>2, <1>6, <1>7, <1>11, <2>1, <2>4, <2>5, <2>6 DEF SerialPlace, Fresh
<1>15. CASE at[q] = 4
  <2>1. /\ pc'[q] = IF Tail(todo[q]) = <<>> THEN "derive" ELSE "mark"
        /\ todo'[q] = Tail(todo[q])
    BY <1>1, <1>5, <1>15 DEF LastField
  <2>2. ItemStatus(b)' = "devuelto" /\ Instant(b)' = stamp[q]
          /\ Minutes(b)' = stamp[q] /\ Amount(b)' = stamp[q]
    BY <1>6, <1>7, <1>15 DEF PartlyDated
  <2>3. \A x \in Bicycles : Fresh(x)' \/ Dated(x)'
    <3>1. Dated(b)'
      BY <1>12, <2>2 DEF Dated
    <3>2. \A x \in Bicycles : x = b \/ Fresh(x)' \/ Dated(x)'
      BY <1>10
    <3>. QED  BY <3>1, <3>2 DEF Fresh, Dated
  <2>4. Serially(q)'
    BY <1>2, <2>1, <2>3 DEF Serially, Fresh, Dated
  <2>5. CASE Tail(todo[q]) = <<>>
    <3>1. LastReturn(stamp[q])'
      <4>1. \A x \in Bicycles : Instant(x)' # None => Instant(x)' <= stamp[q]
        BY <1>1, <1>6 DEF RecordOrder
      <4>. QED  BY <1>1, <2>2, <4>1 DEF LastReturn
    <3>. QED  BY <1>1, <1>2, <1>6, <1>7, <1>11, <2>1, <2>4, <2>5, <3>1 DEF SerialPlace
  <2>6. CASE Tail(todo[q]) # <<>>
    <3>1. (\A i \in 1 .. Len(todo[q]) : Fresh(todo[q][i]))'
      <4>1. /\ Len(Tail(todo[q])) = Len(todo[q]) - 1 /\ Len(todo[q]) \in Nat
            /\ \A i \in 1 .. Len(Tail(todo[q])) :
                 Tail(todo[q])[i] = todo[q][i + 1] /\ i + 1 \in 1 .. Len(todo[q])
        BY <1>3, ListParts
      <4>2. ASSUME NEW i \in 1 .. Len(Tail(todo[q]))
            PROVE  (/\ ItemStatus(todo[q][i]) = "activo" /\ Instant(todo[q][i]) = None
                    /\ Minutes(todo[q][i]) = None /\ Amount(todo[q][i]) = None)'
        <5>1. i + 1 # 1 /\ i + 1 \in 1 .. Len(todo[q])
          BY <4>1
        <5>2. PICK x \in Bicycles : x = Tail(todo[q])[i] /\ x # b /\ Fresh(x)
          BY <1>13, <4>1, <5>1
        <5>. QED  BY <1>7, <2>1, <5>2 DEF Fresh
      <4>. QED  BY <2>1, <4>2 DEF Fresh
    <3>. QED  BY <1>1, <1>2, <1>6, <1>7, <1>11, <2>1, <2>4, <2>6, <3>1 DEF SerialPlace, Fresh
  <2>. QED  BY <1>11, <2>5, <2>6
<1>. QED  BY <1>14, <1>15

\* A return that writes the header.
LEMMA HeaderSerially ==
  ASSUME DataTypes, RecordOrder, NEW q \in Returns, Locals(q), Place(q),
         Serially(q), SerialPlace(q), ReturnDerived(q) \/ ReturnCloseWrite(q)
  PROVE  Serially(q)' /\ SerialPlace(q)' /\ Kept
<1>0. q \in Requests
  BY DEF Requests
<1>1. /\ pc[q] \in {"derived", "close_write"} /\ stamp' = stamp /\ now' = now
      /\ known' = known /\ told' = told
      /\ pc'[q] = IF pc[q] = "derived" THEN "close" ELSE "commit"
  BY <1>0 DEF ReturnDerived, ReturnCloseWrite, Goto, DataTypes, histories
<1>2. /\ {"derived", "close_write", "close", "commit"} \subseteq Writing
      /\ {"derived", "close_write", "close", "commit"} \cap Marking = {}
      /\ "derived" \in BehindAt
      /\ {"close_write", "close", "commit"} \cap BehindAt = {}
      /\ "close" \in ClosingAt /\ "commit" \notin ClosingAt
  BY DEF Marking, Writing, BehindAt, ClosingAt
<1>3. stamp[q] = now /\ ClosedAt = None /\ LastReturn(stamp[q]) /\ \E x \in known[q] : x \notin told
  BY <1>1, <1>2 DEF SerialPlace
<1>4. \A x \in Bicycles :
        /\ ItemStatus(x)' = ItemStatus(x) /\ Instant(x)' = Instant(x)
        /\ Minutes(x)' = Minutes(x) /\ Amount(x)' = Amount(x)
  BY DerivedWrites, CloseWrites
<1>5. DeriveStatus' = DeriveStatus
  <2>1. {record'[<<x, "status">>] : x \in Bicycles} = {record[<<x, "status">>] : x \in Bicycles}
    BY <1>4
  <2>. QED  BY <2>1 DEF DeriveStatus
<1>6. \A x \in Bicycles : Fresh(x)' \/ Dated(x)'
  <2>1. \A x \in Bicycles : Fresh(x) \/ Dated(x)
    BY <1>1 DEF Serially
  <2>. QED  BY <1>4, <2>1 DEF Fresh, Dated
<1>7. LastReturn(stamp[q])'
  BY <1>1, <1>3, <1>4 DEF LastReturn
<1>8. CASE ReturnDerived(q)
  <2>1. /\ pc[q] = "derived" /\ pc'[q] = "close" /\ HeaderStatus' = derived[q]
        /\ ClosedAt' = ClosedAt
    BY <1>1, <1>8, DerivedWrites
  <2>2. derived[q] = DeriveStatus /\ HeaderStatus \in OpenStatuses
    BY <1>2, <2>1 DEF SerialPlace
  <2>3. HeaderStatus' = DeriveStatus'
    BY <1>5, <2>1, <2>2
  <2>4. Serially(q)'
    BY <1>2, <1>6, <2>1, <2>3 DEF Serially, Fresh, Dated
  <2>5. Kept
    BY <1>4, <2>2 DEF Kept, OpenStatuses
  <2>. QED  BY <1>1, <1>2, <1>3, <1>7, <2>1, <2>4, <2>5 DEF SerialPlace
<1>9. CASE ReturnCloseWrite(q)
  <2>1. /\ pc[q] = "close_write" /\ pc'[q] = "commit" /\ HeaderStatus' = HeaderStatus
        /\ ClosedAt' = stamp[q]
    BY <1>1, <1>9, CloseWrites
  <2>2. HeaderStatus = "completada" /\ HeaderStatus = DeriveStatus
    BY <1>2, <2>1 DEF SerialPlace, Serially
  <2>3. LastReturn(ClosedAt)'
    BY <1>1, <1>7, <2>1 DEF LastReturn
  <2>4. HeaderStatus' = "completada" /\ HeaderStatus' = DeriveStatus'
    BY <1>5, <2>1, <2>2
  <2>5. Serially(q)'
    BY <1>2, <1>6, <2>1, <2>3, <2>4 DEF Serially, Fresh, Dated
  <2>6. Kept
    BY <1>4, <2>1 DEF Kept
  <2>. QED  BY <1>1, <1>2, <1>3, <2>1, <2>5, <2>6 DEF SerialPlace
<1>. QED  BY <1>8, <1>9

\* A step of a return, when no other is in flight.
LEMMA ReturnSerially ==
  ASSUME DataTypes, RecordOrder, NEW q \in Returns, Locals(q), Place(q),
         Serially(q), SerialPlace(q), StepOf(q), RecordOrder'
  PROVE  Serially(q)' /\ SerialPlace(q)' /\ Kept
<1>0. q \in Requests /\ q \notin Gets
  BY RequestsAssumption DEF Requests
<1>1. CASE ReturnLoad(q)
  <2>1. PICK list \in BikeLists :
          \/ /\ Begin(q, "check", list, Range(list))
             /\ \A b \in Range(list) : ItemStatus(b) = "activo"
          \/ Begin(q, "refused", <<>>, {})
    BY <1>1 DEF ReturnLoad
  <2>2. record' = record /\ pc[q] = "idle"
    BY <1>1, <2>1 DEF ReturnLoad, Begin, Goto
  <2>3. /\ list \in Seq(Bicycles) /\ list # <<>> /\ Range(list) \in SUBSET Bicycles
        /\ \A i \in 1 .. Len(list) : list[i] \in Range(list)
        /\ Head(list) \in Range(list)
    BY NamedList, ListParts
  <2>4. Serially(q)' /\ Kept
    BY <2>2, QuietRecord, SameRecord DEF BehindAt, ClosingAt
  <2>5. CASE Begin(q, "refused", <<>>, {})
    <3>1. "refused" \in Labels /\ "refused" \notin {"check"} \cup Writing
      BY DEF Labels, Outcomes, Writing
    <3>2. pc'[q] = "refused"
      BY <1>0, <2>5 DEF Begin, Goto, DataTypes
    <3>3. pc'[q] \notin {"check"} \cup Writing
      BY <3>1, <3>2
    <3>. QED  BY <2>4, <3>3, EndedSerially
  <2>6. CASE /\ Begin(q, "check", list, Range(list))
             /\ \A b \in Range(list) : ItemStatus(b) = "activo"
    <3>1. "check" \in Labels
      BY DEF Labels
    <3>2. pc'[q] = "check" /\ todo'[q] = list /\ known'[q] = told \cup Range(list) /\ told' = told
      BY <1>0, <2>3, <2>6, <3>1, BeginMove
    <3>3. \E b \in known'[q] : b \notin told'
      <4>1. ItemStatus(Head(list)) = "activo" /\ Head(list) \in known'[q]
        BY <2>3, <2>6, <3>2
      <4>2. Head(list) \notin told
        BY <4>1 DEF RecordOrder, Returned
      <4>. QED  BY <3>2, <4>1, <4>2
    <3>4. \A b \in Range(list) : Fresh(b)
      <4>1. \A b \in Bicycles : Fresh(b) \/ Dated(b)
        BY <2>2 DEF Serially
      <4>. QED  BY <2>3, <2>6, <4>1 DEF Dated
    <3>5. (\A i \in 1 .. Len(todo[q]) : Fresh(todo[q][i]))'
      <4>1. ASSUME NEW i \in 1 .. Len(list)
            PROVE  (/\ ItemStatus(todo[q][i]) = "activo" /\ Instant(todo[q][i]) = None
                    /\ Minutes(todo[q][i]) = None /\ Amount(todo[q][i]) = None)'
        <5>1. Fresh(list[i])
          BY <2>3, <3>4
        <5>. QED  BY <2>2, <3>2, <5>1 DEF Fresh
      <4>. QED  BY <3>2, <4>1 DEF Fresh
    <3>6. "check" \notin Writing \cup BehindAt
      BY DEF Writing, BehindAt
    <3>. QED  BY <2>4, <3>2, <3>3, <3>5, <3>6 DEF SerialPlace, Fresh
  <2>. QED  BY <2>1, <2>5, <2>6
<1>2. CASE ReturnStamp(q) \/ ReturnApply(q) \/ ReturnMark(q) \/ ReturnDerive(q)
             \/ ReturnClose(q)
  BY <1>2, QuietSerially
<1>3. CASE ReturnMarkWrite(q)
  BY <1>3, MarkSerially
<1>4. CASE ReturnDerived(q) \/ ReturnCloseWrite(q)
  BY <1>4, HeaderSerially
<1>5. CASE ReturnMarkRaises(q)
  <2>1. pc[q] = "mark" /\ ItemStatus(Head(todo[q])) # "activo" /\ "mark" \in Marking
    BY <1>5 DEF ReturnMarkRaises, End, Goto, Marking
  <2>2. todo[q] # <<>> /\ todo[q] \in Seq(Bicycles)
    BY <1>0, <2>1 DEF Locals, DataTypes
  <2>3. Head(todo[q]) = todo[q][1] /\ 1 \in 1 .. Len(todo[q])
    BY <2>2
  <2>4. Fresh(Head(todo[q]))
    BY <2>1, <2>3 DEF SerialPlace
  <2>. QED  BY <2>1, <2>4 DEF Fresh
<1>6. CASE ReturnRefused(q) \/ ReturnApplyRaises(q) \/ ReturnCrashed(q) \/ ReturnDone(q)
             \/ ViewHeader(q) \/ ViewItem(q) \/ Answer(q)
  <2>1. /\ record' = record
        /\ pc[q] \in {"check", "apply", "commit", "view", "view_item", "answer"}
        /\ pc'[q] \in Outcomes \cup {"view", "view_item", "answer"}
    BY <1>0, <1>6 DEF ReturnRefused, ReturnApplyRaises, ReturnCrashed, ReturnDone,
         ViewHeader, ViewItem, Answer, End, Goto, DataTypes, Outcomes
  <2>2. Serially(q)' /\ Kept
    BY <2>1, QuietRecord, SameRecord DEF BehindAt, ClosingAt
  <2>3. pc'[q] \notin {"check"} \cup Writing
    BY <2>1 DEF Outcomes, Writing
  <2>. QED  BY <2>2, <2>3, EndedSerially
<1>. QED  BY <1>0, <1>1, <1>2, <1>3, <1>4, <1>5, <1>6 DEF StepOf, ReturnStep

\* A step that is no return's.
LEMMA StillSerial ==
  ASSUME record' = record, now' = now, told' = told, \A r \in Returns : Stays(r),
         SerialRecord, \A r \in Returns : SerialPlace(r)
  PROVE  SerialRecord' /\ \A r \in Returns : SerialPlace(r)'
<1>1. /\ DeriveStatus' = DeriveStatus
      /\ HeaderStatus' = HeaderStatus /\ ClosedAt' = ClosedAt
  BY SameRecord
<1>2. \A r \in Returns :
        /\ pc'[r] = pc[r] /\ todo'[r] = todo[r] /\ at'[r] = at[r] /\ stamp'[r] = stamp[r]
        /\ derived'[r] = derived[r] /\ known'[r] = known[r]
  BY DEF Stays
<1>3. (Behind' <=> Behind) /\ (Closing' <=> Closing)
  BY <1>2 DEF Behind, Closing
<1>4. ASSUME NEW b \in Bicycles PROVE Fresh(b)' \/ Dated(b)' \/ IsMarked(b)'
  BY <1>2 DEF SerialRecord, Fresh, Dated, IsMarked
<1>5. LastReturn(ClosedAt)' <=> LastReturn(ClosedAt)
  BY DEF LastReturn
<1>6. \A p, r \in Returns : InFlight(p)' /\ InFlight(r)' => p = r
  BY <1>2 DEF SerialRecord, InFlight
<1>7. SerialRecord'
  BY <1>1, <1>3, <1>4, <1>5, <1>6 DEF SerialRecord
<1>8. ASSUME NEW r \in Returns PROVE SerialPlace(r)'
  <2>1. /\ pc'[r] = pc[r] /\ todo'[r] = todo[r] /\ at'[r] = at[r] /\ stamp'[r] = stamp[r]
        /\ derived'[r] = derived[r] /\ known'[r] = known[r]
    BY <1>2
  <2>2. SerialPlace(r)
    OBVIOUS
  <2>3. LastReturn(stamp[r])' <=> LastReturn(stamp[r])
    BY <2>1 DEF LastReturn
  <2>4. PartlyDated(Head(todo[r]), at[r], stamp[r])'
          <=> PartlyDated(Head(todo[r]), at[r], stamp[r])
    BY <2>1 DEF PartlyDated
  <2>. QED  BY <1>1, <2>1, <2>2, <2>3, <2>4 DEF SerialPlace, Fresh
<1>. QED  BY <1>7, <1>8

\* What a bicycle is billed is what its item says.
LEMMA BilledDated ==
  ASSUME SerialRecord, \A r \in Returns : SerialPlace(r), NEW b \in Bicycles, Amount(b) # None
  PROVE  Dated(b)
<1>1. ~Fresh(b)
  BY DEF Fresh
<1>2. ~IsMarked(b)
  BY DEF IsMarked, SerialPlace, PartlyDated
<1>. QED  BY <1>1, <1>2 DEF SerialRecord

\* The views of the other requests, ...
LEMMA OthersShow ==
  ASSUME Kept, NEW r \in Requests, Stays(r), SerialShows(r)
  PROVE  SerialShows(r)'
<1>1. /\ pc'[r] = pc[r] /\ todo'[r] = todo[r] /\ at'[r] = at[r]
      /\ seen'[r] = seen[r] /\ known'[r] = known[r]
  BY DEF Stays
<1>2. pc'[r] \in {"view_item", "answer"} =>
        (\A b \in Bicycles : Read(r, b, 2) /\ SeenAmount(r, b) # None =>
           /\ SeenAmount(r, b) = Amount(b)
           /\ Read(r, b, 3) => SeenMinutes(r, b) = Amount(b)
           /\ Read(r, b, 4) => SeenInstant(r, b) = Amount(b))'
  <2> SUFFICES ASSUME pc[r] \in {"view_item", "answer"}, NEW b \in Bicycles,
                      Read(r, b, 2), SeenAmount(r, b) # None
               PROVE  /\ SeenAmount(r, b) = Amount(b)'
                      /\ Read(r, b, 3) => SeenMinutes(r, b) = Amount(b)'
                      /\ Read(r, b, 4) => SeenInstant(r, b) = Amount(b)'
    BY <1>1 DEF Read
  <2>1. /\ SeenAmount(r, b) = Amount(b)
        /\ Read(r, b, 3) => SeenMinutes(r, b) = Amount(b)
        /\ Read(r, b, 4) => SeenInstant(r, b) = Amount(b)
    BY DEF SerialShows
  <2>. QED  BY <2>1 DEF Kept
<1>3. pc[r] \in Viewing /\ known[r] = Bicycles => HeaderStatus = "completada"
  BY DEF SerialShows
<1>4. pc[r] \in {"view_item", "answer"} /\ known[r] = Bicycles => SeenHeader(r) = "completada"
  BY DEF SerialShows
<1>. QED  BY <1>1, <1>2, <1>3, <1>4 DEF SerialShows, Kept

\* ... and that of the request which takes the step.
LEMMA OwnShow ==
  ASSUME Inv, SerialRecord, \A p \in Returns : SerialPlace(p), Inv',
         NEW q \in Requests, StepOf(q), SerialShows(q)
  PROVE  SerialShows(q)'
<1>0. DataTypes /\ RecordOrder /\ Locals(q) /\ Place(q)
  BY DEF Inv
<1>1. CASE q \in Gets /\ Get(q)
  <2>1. record' = record /\ Begin(q, "view", Items, {})
    BY <1>1 DEF Get
  <2>3. pc'[q] = "view" /\ known'[q] = told \cup {}
    BY <1>0, <2>1 DEF Begin, Goto, DataTypes
  <2>4. ASSUME told = Bicycles PROVE HeaderStatus = "completada"
    <3>1. \A p \in Returns : pc[p] \notin {"check"} \cup Writing
      <4> SUFFICES ASSUME NEW p \in Returns, pc[p] \in {"check"} \cup Writing PROVE FALSE
        OBVIOUS
      <4>1. \E b \in known[p] : b \notin told
        BY DEF SerialPlace
      <4>2. known[p] \subseteq Bicycles
        BY <1>0 DEF DataTypes, Requests
      <4>. QED  BY <2>4, <4>1, <4>2
    <3>2. ~Behind
      BY <3>1 DEF Behind, BehindAt, Writing
    <3>3. \A b \in Bicycles : ItemStatus(b) = "devuelto"
      BY <1>0, <2>4 DEF RecordOrder, Returned
    <3>4. DeriveStatus = "completada"
      BY <1>0, <3>3, Derives
    <3>. QED  BY <3>2, <3>4 DEF SerialRecord
  <2>. QED  BY <2>1, <2>3, <2>4 DEF SerialShows
<1>2. CASE q \in Returns /\ ReturnDone(q)
  <2>1. record' = record /\ known' = known /\ pc[q] = "commit" /\ pc'[q] = "view"
    BY <1>0, <1>2 DEF ReturnDone, Goto, DataTypes, histories
  <2>2. ASSUME known[q] = Bicycles PROVE HeaderStatus = "completada"
    <3>1. pc[q] \in Writing \ Marking
      BY <2>1 DEF Writing, Marking
    <3>2. \A b \in Bicycles : ItemStatus(b) = "devuelto"
      BY <1>0, <2>2, <3>1 DEF Place, Returned
    <3>3. DeriveStatus = "completada"
      BY <1>0, <3>2, Derives
    <3>4. ~Behind
      <4>1. \A p \in Returns : InFlight(p) => p = q
        BY <1>2, <2>1 DEF SerialRecord, InFlight, Outcomes
      <4>2. \A p \in Returns : pc[p] \in BehindAt => InFlight(p)
        BY DEF InFlight, BehindAt, Outcomes
      <4>. QED  BY <2>1, <4>1, <4>2 DEF Behind, BehindAt
    <3>. QED  BY <3>3, <3>4 DEF SerialRecord
  <2>. QED  BY <2>1, <2>2 DEF SerialShows
<1>3. CASE ViewHeader(q)
  <2>1. /\ pc[q] = "view" /\ record' = record /\ todo' = todo /\ at' = at /\ known' = known
        /\ SeenHeader(q)' = HeaderStatus
    BY <1>0, <1>3, CellsHere DEF ViewHeader, Goto, DataTypes, histories
  <2>2. todo[q] = Items /\ at[q] = 1
    BY <1>0, <2>1 DEF Locals
  <2>3. \A b \in Bicycles : ~Read(q, b, 2)'
    BY <2>1, <2>2, AllItems DEF Read
  <2>4. known[q] = Bicycles => HeaderStatus = "completada"
    BY <2>1 DEF SerialShows, Viewing
  <2>5. pc'[q] \in {"view_item", "answer"} =>
          (\A b \in Bicycles : Read(q, b, 2) /\ SeenAmount(q, b) # None =>
             /\ SeenAmount(q, b) = Amount(b)
             /\ Read(q, b, 3) => SeenMinutes(q, b) = Amount(b)
             /\ Read(q, b, 4) => SeenInstant(q, b) = Amount(b))'
    BY <2>3 DEF Read
  <2>. QED  BY <2>1, <2>4, <2>5 DEF SerialShows
<1>4. CASE ViewItem(q)
  <2>1. pc[q] = "view_item" /\ Advance(q) /\ record' = record /\ known' = known
    BY <1>4 DEF ViewItem, Goto, histories
  <2>2. todo[q] # <<>> /\ at[q] \in 1 .. 4
    BY <1>0, <2>1 DEF Locals, DataTypes
  <2>. DEFINE IsHead(x) == x = Head(todo[q])
              Reads(x, k) == Read(q, x, k)'
              Am(x) == SeenAmount(q, x)'
              Mi(x) == SeenMinutes(q, x)'
              Inst(x) == SeenInstant(q, x)'
              R(x, k) == Read(q, x, k)
  <2>3. \A x \in Bicycles : \A k \in 1 .. 4 :
          /\ Reads(x, k) <=> R(x, k) \/ (IsHead(x) /\ k = at[q])
          /\ IsHead(x) => (R(x, k) <=> k < at[q])
    BY <1>0, <2>1, <2>2, ReadMoves
  <2>4. \A x \in Bicycles :
          /\ Am(x) = IF IsHead(x) /\ at[q] = 2 THEN Amount(x) ELSE SeenAmount(q, x)
          /\ Mi(x) = IF IsHead(x) /\ at[q] = 3 THEN Minutes(x) ELSE SeenMinutes(q, x)
          /\ Inst(x) = IF IsHead(x) /\ at[q] = 4 THEN Instant(x) ELSE SeenInstant(q, x)
    BY <1>0, <1>4, SeenNext
  <2>. HIDE DEF IsHead, Reads, R, Am, Mi, Inst
  <2>5. \A x \in Bicycles :
          /\ Reads(x, 2) <=> R(x, 2) \/ (IsHead(x) /\ at[q] = 2)
          /\ Reads(x, 3) <=> R(x, 3) \/ (IsHead(x) /\ at[q] = 3)
          /\ Reads(x, 4) <=> R(x, 4) \/ (IsHead(x) /\ at[q] = 4)
          /\ IsHead(x) /\ at[q] = 2 => ~R(x, 3) /\ ~R(x, 4)
    BY <2>2, <2>3
  <2>6. ASSUME NEW b \in Bicycles, Reads(b, 2), Am(b) # None
        PROVE  /\ Am(b) = Amount(b)
               /\ Reads(b, 3) => Mi(b) = Amount(b)
               /\ Reads(b, 4) => Inst(b) = Amount(b)
    <3>1. CASE IsHead(b) /\ at[q] = 2
      <4>1. Am(b) = Amount(b)
        BY <2>4, <3>1
      <4>2. ~Reads(b, 3) /\ ~Reads(b, 4)
        BY <2>5, <3>1
      <4>. QED  BY <4>1, <4>2
    <3>2. CASE ~(IsHead(b) /\ at[q] = 2)
      <4>1. R(b, 2) /\ SeenAmount(q, b) # None /\ Am(b) = SeenAmount(q, b)
        BY <2>4, <2>5, <2>6, <3>2
      <4>2. /\ SeenAmount(q, b) = Amount(b)
            /\ R(b, 3) => SeenMinutes(q, b) = Amount(b)
            /\ R(b, 4) => SeenInstant(q, b) = Amount(b)
        BY <2>1, <4>1 DEF SerialShows, R
      <4>3. Dated(b)
        BY <4>1, <4>2, BilledDated
      <4>4. Minutes(b) = Amount(b) /\ Instant(b) = Amount(b)
        BY <4>3 DEF Dated
      <4>. QED  BY <2>4, <2>5, <4>1, <4>2, <4>4
    <3>. QED  BY <3>1, <3>2
  <2>7. /\ known[q] = Bicycles => HeaderStatus = "completada"
        /\ known[q] = Bicycles => SeenHeader(q) = "completada"
        /\ SeenHeader(q)' = SeenHeader(q)
    BY <1>0, <1>4, <2>1, SeenNext DEF SerialShows, Viewing
  <2>. QED  BY <2>1, <2>6, <2>7 DEF SerialShows, Reads, Am, Mi, Inst
<1>5. CASE ~(q \in Gets /\ Get(q)) /\ ~(q \in Returns /\ ReturnDone(q))
             /\ ~ViewHeader(q) /\ ~ViewItem(q)
  <2>1. pc'[q] \notin Viewing
    <3>1. ReturnLoad(q) => pc'[q] \in {"check", "refused"}
      BY <1>0 DEF ReturnLoad, Begin, Goto, DataTypes
    <3>2. (ReturnStep(q) /\ ~ReturnDone(q)) \/ Answer(q) => pc'[q] \in Outcomes \cup Writing
      BY <1>0 DEF ReturnStep, ReturnRefused, ReturnStamp, ReturnApply, ReturnApplyRaises,
             ReturnMark, ReturnMarkRaises, ReturnMarkWrite, ReturnDerive, ReturnDerived,
             ReturnClose, ReturnCloseWrite, ReturnCrashed, Answer,
             End, Goto, DataTypes, Outcomes, Writing
    <3>. QED  BY <1>5, <3>1, <3>2 DEF StepOf, Outcomes, Writing, Viewing
  <2>. QED  BY <2>1 DEF SerialShows, Viewing
<1>. QED  BY <1>1, <1>2, <1>3, <1>4, <1>5

LEMMA SerialInit == Init => SerialInv
<1> SUFFICES ASSUME Init PROVE SerialInv
  OBVIOUS
<1>1. Inv
  BY InitHolds
<1>2. /\ HeaderStatus = "activa" /\ ClosedAt = None
      /\ \A b \in Bicycles : Fresh(b)
  BY InitRecord DEF Fresh
<1>3. \A q \in Requests : pc[q] = "idle"
  BY DEF Init
<1>4. "idle" \notin BehindAt \cup ClosingAt \cup Writing \cup Marking \cup Viewing
  BY DEF BehindAt, ClosingAt, Writing, Marking, Viewing
<1>5. ~Behind /\ ~Closing /\ \A p \in Returns : ~InFlight(p)
  BY <1>3, <1>4 DEF Behind, Closing, InFlight, Requests
<1>6. DeriveStatus = "activa"
  BY <1>1, <1>2, Derives DEF Inv, Fresh
<1>7. SerialRecord
  BY <1>2, <1>5, <1>6 DEF SerialRecord
<1>8. ASSUME NEW p \in Returns PROVE SerialPlace(p)
  BY <1>3, <1>4 DEF SerialPlace, Requests, BehindAt
<1>9. ASSUME NEW q \in Requests PROVE SerialShows(q)
  BY <1>3, <1>4 DEF SerialShows, Viewing
<1>. QED  BY <1>7, <1>8, <1>9 DEF SerialInv

LEMMA SerialPreserved == Inv /\ SerialInv /\ [Next]_vars /\ Inv' => SerialInv'
<1> SUFFICES ASSUME Inv, SerialInv, [Next]_vars, Inv', ~overlapped'
             PROVE  /\ SerialRecord'
                    /\ \A r \in Returns : SerialPlace(r)'
                    /\ \A r \in Requests : SerialShows(r)'
  BY DEF SerialInv
<1>0. DataTypes /\ RecordOrder /\ RecordOrder'
  BY DEF Inv
<1>1. ASSUME NEW q \in Requests, StepOf(q)
      PROVE  /\ SerialRecord' /\ ~overlapped /\ Kept
             /\ \A r \in Returns : SerialPlace(r)'
  <2>1. CASE q \in Returns
    <3>1. ~overlapped /\ Alone(q) /\ Alone(q)'
      BY <1>0, <1>1, <2>1, OnlyOne DEF SerialInv
    <3>2. Serially(q) /\ SerialPlace(q) /\ Locals(q) /\ Place(q)
      BY <2>1, <3>1, AloneRecord DEF SerialInv, Inv
    <3>3. Serially(q)' /\ SerialPlace(q)' /\ Kept
      BY <1>0, <1>1, <2>1, <3>2, ReturnSerially
    <3>4. SerialRecord'
      BY <2>1, <3>1, <3>3, AloneRecordNext
    <3>5. ASSUME NEW r \in Returns PROVE SerialPlace(r)'
      <4>1. CASE r = q
        BY <3>3, <4>1
      <4>2. CASE r # q
        <5>1. pc'[r] \notin {"check"} \cup Writing
          BY <3>1, <4>2 DEF Alone, InFlight, Outcomes, Writing
        <5>. QED  BY <5>1, EndedSerially
      <4>. QED  BY <4>1, <4>2
    <3>. QED  BY <3>1, <3>3, <3>4, <3>5
  <2>2. CASE q \notin Returns
    <3>1. q \in Gets
      BY <2>2 DEF Requests
    <3>2. record' = record /\ now' = now /\ overlapped' = overlapped
      BY <1>1, <2>2 DEF StepOf, Get, ViewHeader, ViewItem, Answer, End, histories
    <3>3. told' = told
      BY <1>0, <1>1, <3>1, ToldGrows DEF RecordOrder
    <3>4. \A r \in Returns : Stays(r)
      BY <1>0, <1>1, <2>2, OthersStay DEF Requests
    <3>5. SerialRecord /\ \A r \in Returns : SerialPlace(r)
      BY <3>2 DEF SerialInv
    <3>. QED  BY <3>2, <3>3, <3>4, <3>5, StillSerial, SameRecord
  <2>. QED  BY <2>1, <2>2
<1>2. ASSUME NEW q \in Requests, StepOf(q), NEW r \in Requests PROVE SerialShows(r)'
  <2>1. ~overlapped /\ Kept
    BY <1>1, <1>2
  <2>2. SerialRecord /\ (\A p \in Returns : SerialPlace(p)) /\ SerialShows(q) /\ SerialShows(r)
    BY <2>1 DEF SerialInv
  <2>3. CASE r = q
    BY <1>2, <2>2, <2>3, OwnShow
  <2>4. CASE r # q
    <3>1. Stays(r)
      BY <1>0, <1>2, <2>4, OthersStay
    <3>. QED  BY <2>1, <2>2, <3>1, OthersShow
  <2>. QED  BY <2>3, <2>4
<1>3. CASE UNCHANGED vars
  <2>1. /\ record' = record /\ now' = now /\ pc' = pc /\ todo' = todo /\ at' = at
        /\ stamp' = stamp /\ derived' = derived /\ seen' = seen
        /\ told' = told /\ known' = known /\ overlapped' = overlapped
    BY <1>3 DEF vars, histories
  <2>2. \A r : Stays(r)
    BY <2>1 DEF Stays
  <2>3. SerialRecord /\ (\A r \in Returns : SerialPlace(r)) /\ \A r \in Requests : SerialShows(r)
    BY <2>1 DEF SerialInv
  <2>4. Kept
    BY <2>1, SameRecord
  <2>5. ASSUME NEW r \in Requests PROVE SerialShows(r)'
    BY <2>2, <2>3, <2>4, OthersShow
  <2>. QED  BY <2>1, <2>2, <2>3, <2>5, StillSerial
<1>4. CASE \E q \in Requests : StepOf(q)
  BY <1>1, <1>2, <1>4
<1>. QED  BY <1>3, <1>4, StepsOf

LEMMA SerialInvariant == Spec => []IInv
<1>1. Init => IInv
  BY InitHolds, SerialInit DEF IInv
<1>2. IInv /\ [Next]_vars => IInv'
  BY InvPreserved, SerialPreserved DEF IInv
<1>. QED  BY <1>1, <1>2, PTL DEF Spec

-----------------------------------------------------------------------------
(* What the runs check, for every value of the constants *)

\* The rental, its requests and what they know have values the code can give them.
THEOREM ViewsTyped == Spec => []TypeOK
<1>1. IInv => TypeOK
  <2> SUFFICES ASSUME DataTypes PROVE TypeOK
    BY DEF IInv, Inv
  <2>1. ASSUME NEW c \in Cells
        PROVE  record[c] \in CASE c = <<Header, "status">> -> OpenStatuses \cup {"completada"}
                               [] c[2] = "status" /\ c[1] # Header -> {"activo", "devuelto"}
                               [] OTHER -> Instants \cup {None}
    <3>1. \/ c = <<Header, "status">> \/ c = <<Header, "closed_at">>
          \/ \E b \in Bicycles : \/ c = <<b, "status">> \/ c = <<b, "returned_at">>
                                 \/ c = <<b, "usage_minutes">> \/ c = <<b, "final_amount">>
      BY DEF Cells, ReturnFields
    <3>2. CASE c = <<Header, "status">>
      BY <3>2 DEF DataTypes, Statuses
    <3>3. CASE c = <<Header, "closed_at">>
      BY <3>3 DEF DataTypes
    <3>4. ASSUME NEW b \in Bicycles,
                 \/ c = <<b, "status">> \/ c = <<b, "returned_at">>
                 \/ c = <<b, "usage_minutes">> \/ c = <<b, "final_amount">>
          PROVE  record[c] \in CASE c = <<Header, "status">> -> OpenStatuses \cup {"completada"}
                               [] c[2] = "status" /\ c[1] # Header -> {"activo", "devuelto"}
                               [] OTHER -> Instants \cup {None}
      <4>1. b # Header
        BY CellsHere
      <4>2. /\ record[<<b, "status">>] \in {"activo", "devuelto"}
            /\ record[<<b, "returned_at">>] \in Instants \cup {None}
            /\ record[<<b, "usage_minutes">>] \in Instants \cup {None}
            /\ record[<<b, "final_amount">>] \in Instants \cup {None}
        BY DEF DataTypes
      <4>. QED  BY <3>4, <4>1, <4>2
    <3>. QED  BY <3>1, <3>2, <3>3, <3>4
  <2>2. \A q \in Requests :
          /\ pc[q] \in Outcomes \cup
               {"idle", "check", "apply", "mark", "mark_write", "derive", "derived", "close",
                "close_write", "commit", "view", "view_item", "answer"}
          /\ stamp[q] \in Instants \cup {None}
          /\ derived[q] \in OpenStatuses \cup {"completada", None}
          /\ known[q] \subseteq Bicycles
    BY DEF DataTypes, Labels, Writing, Viewing, Statuses
  <2>. QED  BY <2>1, <2>2 DEF DataTypes, TypeOK
<1>. QED  BY <1>1, SerialInvariant, PTL

\* A view that is answered has every field.
LEMMA AllRead ==
  ASSUME NEW q \in Requests, Locals(q), pc[q] = "answer"
  PROVE  \A b \in Bicycles, k \in 1 .. 4 : Read(q, b, k)
<1>1. todo[q] = <<>>
  BY DEF Locals
<1>. QED  BY <1>1, NoBikes DEF Read

LEMMA OneValueShown == \A v : OneValue({v})
BY FS_Singleton DEF OneValue

\* What a view shows of the return of an item.
LEMMA ShownFields ==
  \A q, b : Shown(q, b) = {SeenInstant(q, b), SeenMinutes(q, b), SeenAmount(q, b)}
BY DEF Shown, ReturnFields

\* _rental_view reads the header before the items, and the items only go from active to
\* returned: the view of a GET or of a return never says complete, or partly returned, of
\* items it shows active.
THEOREM NeverAhead == Spec => []ViewNotAhead
<1>1. IInv => ViewNotAhead
  <2> SUFFICES ASSUME IInv, NEW q \in Requests, pc[q] = "answer"
               PROVE  /\ SeenHeader(q) = "completada" =>
                           \A b \in Bicycles : Status(q, b) = "devuelto"
                      /\ SeenHeader(q) = "parcialmente_devuelta" =>
                           \E b \in Bicycles : Status(q, b) = "devuelto"
    BY DEF ViewNotAhead
  <2>1. \A b \in Bicycles : Read(q, b, 1)
    BY AllRead DEF IInv, Inv
  <2>2. Shows(q)
    BY DEF IInv, Inv
  <2>. QED  BY <2>1, <2>2 DEF Shows
<1>. QED  BY <1>1, SerialInvariant, PTL

\* mark_returned writes the amount of an item after its minutes and its instant, and
\* _rental_item_view reads it before them: whoever is shown what a bicycle is billed is shown
\* both, and those of the same return as long as no two returns of the rental overlapped.
THEOREM AmountDated == Spec => []ViewAmountDated
<1>1. IInv => ViewAmountDated
  <2> SUFFICES ASSUME IInv, NEW q \in Requests, NEW b \in Bicycles, pc[q] = "answer",
                      SeenAmount(q, b) # None
               PROVE  /\ None \notin Shown(q, b)
                      /\ ~overlapped => OneValue(Shown(q, b))
    BY DEF ViewAmountDated
  <2>1. Read(q, b, 2) /\ Read(q, b, 3) /\ Read(q, b, 4)
    BY AllRead DEF IInv, Inv
  <2>2. SeenMinutes(q, b) # None /\ SeenInstant(q, b) # None
    BY <2>1 DEF IInv, Inv, Shows
  <2>3. ASSUME ~overlapped PROVE Shown(q, b) = {Amount(b)}
    <3>1. /\ SeenAmount(q, b) = Amount(b) /\ SeenMinutes(q, b) = Amount(b)
          /\ SeenInstant(q, b) = Amount(b)
      BY <2>1, <2>3 DEF IInv, SerialInv, SerialShows
    <3>. QED  BY <3>1, ShownFields
  <2>. QED  BY <2>2, <2>3, ShownFields, OneValueShown
<1>. QED  BY <1>1, SerialInvariant, PTL

\* The answer of POST /rentals/{id}/returns is made once the return is stored, and a GET reads
\* the same record: whoever was told of a return is shown it, its bicycles billed and the
\* header changed, and the rental complete if all its bicycles are back and no two returns
\* overlapped.
THEOREM AnsweredSeen == Spec => []AnsweredReturnsSeen
<1>1. IInv => AnsweredReturnsSeen
  <2> SUFFICES ASSUME IInv, NEW q \in Requests, pc[q] = "answer"
               PROVE  /\ \A b \in known[q] : Status(q, b) = "devuelto" /\ None \notin Shown(q, b)
                      /\ known[q] # {} => SeenHeader(q) # "activa"
                      /\ known[q] = Bicycles /\ ~overlapped => SeenHeader(q) = "completada"
    BY DEF AnsweredReturnsSeen
  <2>1. known[q] \in SUBSET Bicycles
    BY DEF IInv, Inv, DataTypes
  <2>2. \A b \in Bicycles : Read(q, b, 1) /\ Read(q, b, 2) /\ Read(q, b, 3) /\ Read(q, b, 4)
    BY AllRead DEF IInv, Inv
  <2>3. \A b \in known[q] : /\ Status(q, b) = "devuelto" /\ SeenAmount(q, b) # None
                            /\ SeenMinutes(q, b) # None /\ SeenInstant(q, b) # None
    BY <2>1, <2>2 DEF IInv, Inv, Shows
  <2>4. known[q] # {} => SeenHeader(q) # "activa"
    BY DEF IInv, Inv, Shows
  <2>5. known[q] = Bicycles /\ ~overlapped => SeenHeader(q) = "completada"
    BY DEF IInv, SerialInv, SerialShows
  <2>. QED  BY <2>3, <2>4, <2>5, ShownFields
<1>. QED  BY <1>1, SerialInvariant, PTL

\* Returns of a rental that do not overlap leave it whole, those that are refused or that
\* crash included: no item apply_return marks can make it raise half way, for they were all
\* seen active, and it has derived the header and closed the rental before the bicycles and
\* the station, where it may crash.
THEOREM Settled == Spec => []SettledRecord
<1>1. IInv => SettledRecord
  <2> SUFFICES ASSUME IInv, NoReturnInFlight, ~overlapped PROVE SettledRecord
    BY DEF SettledRecord
  <2>1. SerialRecord /\ DataTypes /\ RecordOrder
    BY DEF IInv, Inv, SerialInv
  <2>2. \A p \in Returns : pc[p] \in Outcomes \cup {"idle"}
    BY DEF NoReturnInFlight, InFlight
  <2>3. ~Behind /\ ~Closing /\ \A b : ~IsMarked(b)
    BY <2>2 DEF Behind, Closing, IsMarked, BehindAt, ClosingAt, Outcomes
  <2>4. ASSUME NEW b \in Bicycles
        PROVE  LET values == {record[<<b, f>>] : f \in ReturnFields}
               IN  /\ OneValue(values)
                   /\ record[<<b, "status">>] = "devuelto" <=> None \notin values
    <3>1. {record[<<b, f>>] : f \in ReturnFields} = {Instant(b), Minutes(b), Amount(b)}
      BY DEF ReturnFields
    <3>2. Fresh(b) \/ Dated(b)
      BY <2>1, <2>3 DEF SerialRecord
    <3>3. CASE Fresh(b)
      <4>1. {Instant(b), Minutes(b), Amount(b)} = {None} /\ ItemStatus(b) = "activo"
        BY <3>3 DEF Fresh
      <4>. QED  BY <3>1, <4>1, OneValueShown
    <3>4. CASE Dated(b)
      <4>1. /\ {Instant(b), Minutes(b), Amount(b)} = {Instant(b)} /\ Instant(b) # None
            /\ ItemStatus(b) = "devuelto"
        BY <3>4 DEF Dated
      <4>. QED  BY <3>1, <4>1, OneValueShown
    <3>. QED  BY <3>2, <3>3, <3>4
  <2>5. HeaderStatus = DeriveStatus
    BY <2>1, <2>3 DEF SerialRecord
  <2>6. IF HeaderStatus = "completada" THEN LastReturn(ClosedAt) ELSE ClosedAt = None
    BY <2>1, <2>3 DEF SerialRecord
  <2>7. ASSUME HeaderStatus = "completada"
        PROVE  ClosedAt = Max({record[<<b, "returned_at">>] : b \in Bicycles})
    <3>. DEFINE instants == {record[<<b, "returned_at">>] : b \in Bicycles}
    <3>1. \A b \in Bicycles : ItemStatus(b) = "devuelto"
      BY <2>1, <2>7 DEF RecordOrder
    <3>2. \A b \in Bicycles : Instant(b) # None
      BY <2>1, <2>3, <3>1 DEF SerialRecord, Fresh, Dated
    <3>3. ClosedAt \in instants /\ \A t \in instants : t <= ClosedAt
      BY <2>6, <2>7, <3>2 DEF LastReturn
    <3>4. instants \subseteq Nat
      BY <2>1, <3>2, InstantsAssumption DEF DataTypes
    <3>. HIDE DEF instants
    <3>5. ClosedAt \in instants /\ \A t \in instants : ClosedAt >= t
      BY <3>3, <3>4
    <3>6. ASSUME NEW t \in instants, \A u \in instants : t >= u
          PROVE  t = ClosedAt
      <4>1. t \in Nat /\ ClosedAt \in Nat /\ t >= ClosedAt /\ ClosedAt >= t
        BY <3>4, <3>5, <3>6
      <4>. QED  BY <4>1
    <3>7. Max(instants) = ClosedAt
      BY <3>5, <3>6 DEF Max
    <3>. QED  BY <3>7 DEF instants
  <2>. QED  BY <2>4, <2>5, <2>6, <2>7 DEF SettledRecord
<1>. QED  BY <1>1, SerialInvariant, PTL
=============================================================================
