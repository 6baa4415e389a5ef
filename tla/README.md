# Bike rental: TLA+ models, checks and proofs

The repository is a rental back end in hexagonal style: a domain (`rental`, `inventory`,
`fare`, `payment`), in-memory adapters, and a FastAPI server. Paths below are relative to
`src/src/bike_rental/` unless they start with `docs/`.

## The system

| Part | State | Operations | Hard behaviour | What makes it correct |
|---|---|---|---|---|
| `inventory/entities.py`: `Bicycle`, `Station` | status, station and version of a bicycle; materialized inventory and capacity of a station | `rent`, `return_to`, `decrement_inventory`, `increment_inventory` | guard, then write, without a lock; `-=` and `+=` are a read and a write | inventory = available bicycles there (RN-01), never above capacity |
| `rental/entities.py`: `Rental`, `RentalItem` | header status, `closed_at`; per item status, frozen fare, instants, amount | `from_fare`, `create_pending`, `confirm`, `mark_failed`, `mark_returned`, `apply_return`, `derive_status` | the header is derived from the items and stored beside them (ADR-0004) | header = derived status, closed exactly when complete; items only go from active to returned |
| `rental/use_cases/create_rental.py` (UC-01) | none of its own | checks, gateway call, commit | a charge stands between the checks and the commit; nothing rolls back | all bicycles and the charge, or neither (RN-05); no bicycle twice (RN-06) |
| `rental/use_cases/return_bicycles.py` (UC-02) | none of its own | checks, amounts, commit | partial returns, relocation, capacity, clock set back | billed from the frozen fare, whole started units (RN-08, RN-10) |
| `payment/`, `adapters/fake_payment_gateway.py` | stored payments; the gateway's result per key and its counter | `authorize`, `Payment.authorized` | idempotency key derived from a fresh rental id; counter and results without a lock | one payment per confirmed rental, for its amount, with its own reference; a key asked again is not charged again (RN-19, RN-20) |
| `adapters/in_memory_*_repository.py` | dictionaries of the entities | `get`, `add`, `save`, `list_active_bicycle_ids` | hand out the stored objects themselves; the scan fails if a rental is added meanwhile | - |
| `adapters/system_clock.py`, `shared/ids.py` | - | `now`, `new_*_id` | wall clock may be set back | - |
| `adapters/api/app.py`, `schemas.py`, `composition.py` | - | two writing and four reading endpoints, views, seeding | plain `def` endpoints run on a thread pool over the same entities; views are read field by field | every request is answered; what is shown can be rented or returned; a view is not ahead of the bicycles |
| `adapters/api/errors.py`, `rental/errors.py` | - | exception -> status code | an error missing from the table, or a `ValueError`, is a 500 | every answer is one the endpoint documents |

The endpoints call one use case each; a use case calls repositories, gateway, clock and id
generator through `rental/ports.py`, and changes the entities the repositories hold. There
is no lock and no transaction anywhere. Reservations, the scheduler, movements between
stations, maintenance, capture and refund are in `docs/` only.

## The modules

| Module | What it is |
|---|---|
| `Billing` | the arithmetic: minutes, units, estimate, final amount |
| `BikeRental` | the system with each use case as one atomic step (extends `Billing`) |
| `RentalApi` | the HTTP answers and views over the states of `BikeRental` (extends it) |
| `BikeAllocation` | the abstract promise: rentals take and give back bicycles, and are charged |
| `RentalThreads` | both use cases taken apart: one step per access to a shared entity, several requests in flight |
| `RentalViews` | one rental while it is returned and read: one step per field |
| `PaymentGateway` | `FakePaymentGateway.authorize` under threads: one step per access |
| `MCBikeRental`, `MCRentalApi`, `MCRentalThreads`, `MCRentalViews`, `MCPaymentGateway` | instances for TLC |
| `BillingProofs`, `BikeAllocationProofs`, `BikeRentalProofs`, `BikeRentalStepProofs`, `RentalApiProofs`, `RentalThreadsProofs`, `RentalViewsProofs`, `PaymentGatewayProofs` | the theorems |

`BikeRental` and `RentalThreads` each implement `BikeAllocation` (`ImplementsAllocation`),
through the mapping "a rental holds the bicycles of its active items if it is open; it is
charged when its payment is stored".

### `BikeRental`

The variables are the repositories (`bicycles`, `inventory`, `rentals`, `items`,
`payments`), the gateway (`results`, `counter`), the clock `now`, and `reply`, how the last
request ended. The actions:

| Action | Code |
|---|---|
| `RejectCreate`, `DeclineCreate`, `ConfirmCreate` | `CreateRental.execute`: steps 1-4 raise; step 6 declines; step 7 commits, or raises in `decrement_inventory` |
| `RejectReturn`, `AcceptReturn` | `ReturnBicycles.execute`: steps 1-5b raise; steps 6-7 |
| `ClockMoves` | the wall clock, in both directions |

`CreateFaults` and `ReturnFaults` are the checks in the order of the code. The commit of a
return has no failing branch because each of its guards repeats a check made on the same
state; the commit of a creation has one, because nothing before it looks at the inventory.
That this branch is never taken is `CommitCannotRaise`, which is checked and proved.

A list of bicycles is a set and a flag `repeated`; names, users and currencies are left
out; amounts are whole cents and instants whole seconds. Bicycles out of service start in
maintenance or marked rented, as the seeds of the server and of the tests do.

### `RentalThreads`

FastAPI runs a plain `def` endpoint on a thread of its pool, and the repositories return
the stored objects, so every write to an entity is visible at once to the other threads.
A step of a request is one access to something another thread may write: the start and the
end of the scan of the rentals; the status, then the station, of a bicycle to check; the guard, the status and the
station of `rent` and `return_to`; the guard, the read and the write of an inventory; the
guard and the write of one item; deriving, writing and closing the header; storing the
payment; storing the rental. `save`, `save_all` and the second `add` store what is already
stored. A request ends `ok`, `refused` by a check, `declined`, `interrupted` (Python's
`RuntimeError` when the dictionary of rentals grows during the scan) or `crashed` by an
exception out of the commit; a crashed request keeps what it wrote.

How fine the interpreter interleaves threads depends on its version: since 3.10 CPython
hands over the GIL only at calls and at backward jumps (up to 3.11 reading an enum member,
as `rent` does between its guard and its write, is such a call), earlier versions (the
project allows 3.9) between most bytecodes, and a free-threaded build anywhere. The model
is the finest of these. The runs that find a violation say below which switch they need.

Checks of the command alone are left out here (`BikeRental` has them), and so are instants
and amounts. A request's own name serves as the rental id it would mint, which is fresh.

The gateway is one step there: it approves or declines.

### `RentalApi`

The API keeps no state: a POST is a step of `BikeRental`, a GET changes nothing. So the
module adds no action. `CreateEnds` and `ReturnEnds` are the ways a POST may end in the
present state, built from the fault sets of `BikeRental` and from the guard of the commit;
`ErrorStatus` and `StatusFor` are the table of `errors.py` and its fallback;
`ListStationBicycles`, `StationView` and `RentalView` are what the GETs show. The invariants
ask of every command in every reachable state what a client relies on: no answer outside
the endpoint's documentation, what is listed as available can be rented, what is shown as
out can be returned. JSON that never becomes a command is left out. `DocumentedOfCreate` and
`DocumentedOfReturn` hold what the responses' descriptions in `app.py` name; the one answer
outside them, the 422 of a return that names a bicycle twice, is stated as such in
`AnswersDocumented` (see below).

### `RentalViews`

`RentalThreads` gives an item one word; here an item is its four fields and the header two,
and returns write them, and views read them, one at a time in the order of the code
(`MarkOrder`, `ReadOrder`; `todo` holds the items still to go through and `at` the next field
of the first of them). What a return writes beside the status (instant, minutes, amount)
is a function of the instant it read and of values that never change, so the instant stands
for all three. What depends on other rentals (room at the station, a bicycle lost, a crash
in steps 7b to 7d) is a choice: the rest of the return passes or not. The clock does not go
back here; `BikeRental` has one that does. Three variables are history, which no action
reads: `told` (bicycles whose return a client was told of), `known` (what was told when a
request arrived) and `overlapped` (a return began while another was in flight).

Under `~overlapped` stand the claims that overlapping returns break: each item has the data
of one return, the header is the derived one, `closed_at` is the last return's instant. The
others hold whatever the interleaving.

### `PaymentGateway`

`authorize` access by access: the lookup of the key, the result of a key that was found, read
again; or the two halves of `_counter += 1`, the second read of the counter for the
reference, the storing of the result. Calls choose any
key, because the port promises that a key may be asked again (RN-20), although `CreateRental`
asks for each of its keys once. With calls that overlap, two keys may share a reference and
two calls of one key may return different authorizations; that is why `Idempotent` and
`OneReferenceEach` say `~overlapped` where they do. What remains in any case is that a key is
approved by all its calls or by none. The list of calls kept for tests is left out.

## The runs

| Run | Instance | Shows |
|---|---|---|
| `bike_rental` | 3 rentable bicycles, 1 out of service, stations with 1 and 3 docks, 2 rentals, a fare in force and one not, a standing clock; 9,075 states | types and capacity, no double assignment, active item <=> rented, inventory, derived header, money, distinct references, every bicycle that is out can be returned somewhere, the commit never raises, legal transitions, failures leave no trace, `BikeAllocation` is implemented; and of the API: documented answers with one exception that is stated, available bicycles can be rented, shown ones returned |
| `bike_rental_clock` | 2 bicycles, 1 station, 2 rentals, 2 fares in force, readings 0, 59 and 3661 s; 172,320 states | amounts never below the estimate and exactly the started units, an item changes only by the return of its bicycle from its own rental and keeps its fare, final payments, `closed_at` is the completing return's instant |
| `threads_any` | any 4 requests, 2 at a time, 2 bicycles; 1,164,347 states | what holds whatever the interleaving: an open rental is paid, a complete rental is all returned, the loser of a race before its charge is not charged, no bicycle is lost unless a request crashed |
| `threads_live` | a creation and any 2 requests, 2 at a time; 421,605 states | every request that starts is answered |
| `threads_serial` | any 3 requests one at a time, 2 stations; 105,614 states | with no overlap, the fine-grained model keeps all that four of the violations see broken, and implements `BikeAllocation` |
| `views` | a rental of 2 bicycles, 2 returns and a GET, 2 at a time, 2 instants; 787,491 states | no view is ahead of the bicycles, amounts are shown with their instants, clients see the returns they were told of, the record settles |
| `gateway` | 4 calls, 3 keys, one of them declined; 18,511 states | what is left of idempotency and of distinct references |
| `double_assignment`, `charged_without_rental`, `inventory_drift`, `stale_header` | any 3 requests, 2 at a time | violations 1 to 4 |
| `torn_view` | one return and one GET | violation 5 |

Bounds. Two rentals and two stations are what exclusion, relocation and a second rental of
a returned bicycle need; three bicycles give a rental of several, a partial return and a
bystander; a station of one dock fills up. The commands hold every list of rentable
bicycles at every station and one of each malformed kind. The readings of the clock give
less than a minute, a boundary of hours passed by a minute and a second, and negative
times. Two overlapping requests are enough for each race in the code, since all are between
a pair of accesses; the fourth request lets a rental exist before two returns race and be
rented again after. `Threads = 2` replaces the pool's 40. In `views` two returns and a
GET give both a view between two returns and a view beside one; in `gateway` a call
made late can meet the result of either of two that overlapped.
Rental ids, requests and (in `RentalThreads`) bicycles are symmetric: the
code never orders them. In `RentalThreads` a batch of requests is finite, so those runs end
in states without a successor, and deadlock is not checked; that no request blocks is
`Answered`. `views` and `gateway` are finite batches too.

Fairness. `FairSpec` assumes weak fairness of each request's own steps, which is what an
operating system gives a runnable thread: no step waits for another request, since the code
has no lock. Nothing is assumed of users: arrivals are not fair. No `Spec` assumes
fairness.

## What the violations show

1. `NoDoubleAssignment` (NFR-02): two creations pass every check and both rent the
   bicycle. It needs a switch between the guard of `rent` and its first write.
   `docs/backlog.md:78` leaves physical concurrency to an infrastructure layer still to be
   written, so this is a gap between what the documents promise and what the server does.
2. `ChargedMeansRented`: the loser of the same race finds the bicycle rented and raises
   after its charge was approved. No fine switch is needed: two requests that overlap
   between the checks and the commit suffice.
3. `InventoryCounts` (RN-01): two creations with lists in opposite order each rent one
   bicycle and crash on the other; both stay rented, and no inventory is decremented.
4. `HeaderDerived` (ADR-0004): two returns of the same two bicycles in opposite order each
   mark one and crash on the other, before the status is derived: all items are returned
   and the rental stays open, its bicycles rented for ever.
5. `ItemViewWhole` (`schemas.py:116`): a GET between two assignments of `mark_returned`
   shows an item `devuelto` whose amount is still null, or, reading its status first and
   the rest after the return, `activo` with an amount.

A comment that is wrong without consequence today: `create_rental.py:162` says a failed
rental holds no active items, while `mark_failed` leaves them `activo`. The code is saved by
`list_active_bicycle_ids`, which looks at the header first; a check on items alone, such as
the unique index planned in `docs/stack.md:59`, would block those bicycles for ever.
`AvailableCanBeRented` is the property that would then fail.

An answer the documentation does not name: a return whose list names a bicycle twice ends in
`DuplicateBicycleError` and a 422, but the 422 of that endpoint is described as
"Entrada inválida (lista vacía / UUID malformado)" (`app.py:228`, `docs/api/openapi.yaml:97`);
only the creation's 422 names duplicates (`app.py:177`). A client that reads the description
would take it for a malformed request. `AnswersDocumented` says that this is the only such
answer of the two endpoints: every other end of every command is a documented one.

## What is proved

`BikeRentalProofs` holds for every finite fleet, any stations, fares, instants, rental ids
and commands that meet the assumptions of `BikeRental` (positive capacities, non-negative
amounts, natural instants, ids no repository holds).

The argument. `TypeOK` is inductive by itself, with the capacity part resting on the
check of step 4 (`DoesNotFit`). `InventoryCounts` is inductive relative to it: the checks
give that the bicycles of a creation are available at its station (`CreateAccepted`), so
those that leave are exactly as many as the units taken, and there are enough of them
(`EnoughUnits`); hence the failing branch of the commit is never taken (`CommitRuns`).
`NoDoubleAssignment`, `HeldIffRented`, `StatusDerived` and `PaidIffConfirmed` are then each
inductive relative to these: without `InventoryCounts` the failing branch would leave
rented bicycles on no rental. The lemmas `ConfirmHolds`, `DeclineHolds`, `ReturnHolds` and
`SameHolds` say once how each action changes who holds what. `FailedRequestLeavesNoTrace` and the refinement follow step by
step from the same invariants.

The billing results need a strengthening: `ItemsBilled` (each returned item carries
`FinalAmount` of its own fare and instants) is inductive, and the two properties follow
from it by the theorems of `BillingProofs`, which hold for every fare and any two instants.
`BikeAllocationProofs` shows that the abstract promise entails exclusion and charging.

`BikeRentalStepProofs` proves what steps may do, from the invariants above. Two facts carry
it. A stored reference has been counted, and a rental that is not stored has no items
(`RecordsHold`, inductive), which gives `DistinctReferences`. And the status of a return is
the one its items derive (`ReturnStatus`), so that the step that ends a rental is the return
of its last bicycle.

`RentalApiProofs` needs no new invariant: given those of `BikeRentalProofs`, the faults of a
command are characterised state by state. That the answers are documented, all but that one, comes from `CommitCannotRaise`
(no `ValueError`) and `HeldIffRented` (no "defensive" error); `AvailableCanBeRented` is the
agreement of the station's listing with the rentals' active items. `HeldAlwaysReturnable`
counts docks. Every bicycle in service is at a station or out; each station holds what its
inventory says; the seed fits the docks and returns only go where there is room. So if one
bicycle is out, fewer are parked than there are docks, and some station has room
(`SomeDockFree`). The sum over stations is an induction the provers cannot do; instead the
docks are a set of pairs, each parked bicycle is numbered within its station, and
`FS_PigeonHole` gives the free one.

`RentalThreadsProofs` holds for any number of requests, on any number of threads, with any
orders. The inductive invariant `IInv` says of each request, place by place (`AtPlace`), what
no other thread can take from it: that its rental is not stored before its last step, where
its charge and its payment are, that the rental it returns stays confirmed, and, between
deriving a status and writing it, that a derived `completada` is still true because items are
never taken out again. Each action is one step that keeps the invariant of its own request;
`NeutralStep` and `WriteStep` say once why the other requests keep theirs. From it follow
`ActiveRentalPaid`, `CompleteMeansReturned` and `LosersNotCharged`. `NoBicycleLost` needs
`Accounted` beside it: a rented bicycle is out on a rental, or in the hands of a request
between two steps of its commit (`InHand`), or some request crashed. So the
races above lose a bicycle only through a request that crashes.

Under `Threads = 1` the same module proves what the races break, access by access, for any
number of requests. `SerialInv` says that at most one request is in flight, that between
requests the books are balanced (`Settled`), and what the request in flight finds at each
place (`Serially`): `Taken` are the bicycles it has rented and not stored yet, or taken off a
rental and not released yet; `Counted` is what the inventories count meanwhile;
`HeadersTrue` lets one header be behind its items; `CreateAhead` and `ReturnAhead` carry
the results of the checks to the guards of the commit, so that none of these raises, and the
read half of `-=` or `+=` to its write. `RestSettled` joins the two: a request that has ended
leaves the books settled. In the refinement (`RefinesAllocation`) the step that stores a
confirmed rental takes all its bicycles and charges it at once, each item marked gives one
bicycle back, and all other steps stutter; `Settled` alone would not do, since that the
bicycles of the rental are out on no other must hold in the middle of its commit.

`RentalViewsProofs` holds for any list of items, any number of returns and GETs, any number
of threads and any instants. Two invariants carry it. `Inv` holds however returns overlap,
because fields are only ever filled in: `RecordOrder` says that an item's fields are filled in
the order of `MarkOrder` and that the header is never ahead of the items, `Place` how far a
return is, and `Shows` what a view has of the fields it has read. A field is read after those
that imply it were written, so a value seen stays justified by the record: that is `Grows`,
from which `OthersPlace` gives that no request disturbs another's part. `SerialInv` adds what
holds until two returns overlap: each item is fresh, dated by one return, or being marked by
the only return in flight (`OnlyOne`), whose step is then a sequential one (`ReturnSerially`).

`PaymentGatewayProofs` holds for any calls, keys and outcomes. `PlacesHold` and `ResultsHold`
tie the remembered result of a key to its outcome, which is why even overlapping calls agree
on approval; `AloneHolds` says that, without an overlap, a call in flight is the only one, so
that the counter it read is the counter there is.

Only model-checked: `Answered`, because the provers have no rules for fairness and
`ENABLED`. All other properties of the passing runs are theorems.

## Not modelled

- JSON that never becomes a command, the wording of error bodies, the health endpoint.
- `Money`'s rounding, currency check and refusal of floats: amounts are cents, and sums and
  integer multiples of cents need no rounding. `math.ceil` of a float quotient is an exact
  ceiling here; it differs only for more minutes than a float can hold.
- The tearing of a station's listing: with `available=true` a bicycle's status is read
  twice, so a rental in between is shown as `rentada` among the available.
- A gateway that raises or times out: the fake one does neither.
- The world seeded `with_active_rental`, which marks a bicycle available and in an active
  rental on purpose, for one test.
- `FixedClock` and `DeterministicIdGenerator`, for tests, and the demo script, a printed
  walk through `CreateRental`.
- The parts that exist in `docs/` only.

## Plan

Done: all modules above, their runs and proofs. Next, in this order:

1. `RentalThreads` with one thread implements `BikeRental`, so that the atomic steps are
   themselves justified.
2. `RentalThreads` with the steps of `PaymentGateway` in place of its one step, for the
   references that overlapping creations store.
