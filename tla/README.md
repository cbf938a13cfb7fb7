# Galleryexpress backend: specifications

TLA+ models of the coach-ticket booking backend in this repository (NestJS, Prisma on
PostgreSQL, Redis), their TLC runs and their TLAPS proofs. `PROJECT.json` maps every
definition to the lines it stands for and lists the runs, the mutants that show each
property can fail, the theorems, and the hazards with the properties that answer them.

Run inside this directory:

    tlc -workers 2 -config seat_reservation.cfg MCSeatReservation.tla
    tlapm Seats_proofs.tla

## How the program runs

One Node.js process (or several behind a balancer) serves HTTP calls. A handler runs
without interruption up to its next `await`; there any other handler may run. Shared state
is the PostgreSQL database, Redis and a few in-process maps. Prisma's `$transaction` uses
the database default, READ COMMITTED: a transaction is all-or-nothing, but what it read may
be out of date when it commits, and nothing locks the rows it read. The only background
actor is a cron job that starts every minute. Some work is started without being awaited
(commission distribution, the upserts left behind by a failed `Promise.all`).

So the unit of interleaving in the models is: one `await` (or the stretch between two), and
a transaction is one action unless its own stale reads are what a property is about (then
it is split into the read and the commit).

## Inventory

| Component | State it keeps | Operations | Interacts with | What makes it correct |
|---|---|---|---|---|
| Seat reservation (`bookings.service.ts` `lockSeats` ... `createBooking`) | Redis `seat_lock:*`, `seat_locks`, `bookings`, `booking_seats` | lock, fall back to the table, price, check, insert, undo | coupons, schedules, agents' sales, expiry | no seat sold twice; a refused call leaves no lock; only the owner releases; one booking per idempotency key; every call ends |
| Booking life cycle (`confirmBooking` ... `deleteBooking`, expiry job) | booking status, payment status, deadline, `payments`, `tickets`, `cancellations` | submit, approve, reject, cancel, expire, delete | reservation (locks), tickets, commissions | confirmed means paid and ticketed; refunds only of money received; holds end; deleted rows leave nothing |
| Tickets at the gate (`tickets.service.ts`) | `tickets.status` | verify by number, by QR token | life cycle | a ticket is used only if issued |
| Bulk quota (`counter-agent.service.ts`) | `bulk_ticket_orders` | buy, approve, reject, delete, sell, assign counter | bookings, commissions | an agent sells no more than was bought; only orders that were approved, or that the seed made, sell |
| Commissions and bonuses (same file) | `counter_agent_commissions`, `commissionEarned` and status of orders, `monthly_bonuses` | distribute, settle at departure, reverse, mark paid, monthly bonus | called by create, confirm, cancel, dashboards | each booking pays once; earned = sum of credits; cap respected; cancelled bookings pay nothing |
| KYC, profiles, dashboards of agents | `users` columns | submit, approve, reject, read, `updateProfile` | dashboards start settlements and the monthly bonus; `updateProfile` sets passwords | single-row writes; the address stays unique |
| Sessions (`auth.service.ts`, JWT strategy) | `refresh_tokens`, failed login counter, lock-out time | login, refresh, logout, change password | users, `updateProfile` | lock-out after 5 failures; a refresh token is used once; which sessions may be older than the password |
| Registration (`auth.service.ts`, `users.service.ts`) | `users`, one-time passwords in memory | send code, register, office CRUD, seed | SMS | one account per number; a code opens one account; the process that sent a good code accepts it in the usual spellings of the number |
| Schedules (`schedules.service.ts`, `prisma/seed.ts`) | `schedules` | CRUD, generation per day, cancel, hard delete, seed | bookings, coaches, routes | one trip per coach, day and time; the seed leaves no gap |
| Fares and discounts (`fares`, `discounts`, `routes` services, pricing in `bookings.service.ts`) | `fares`, `discounts.usedCount`, `discount_usages`, amounts of a booking | show, price, apply coupon, fee, CRUD | reservation, schedules | amounts fit to the cent; when what is shown is charged; coupon limit |
| Coaches and layouts (`coaches.service.ts`) | `coaches`, `seats` | CRUD, seat regeneration, seed | schedules, bookings, locks, agents' sales (which make seats) | seats replaced as a whole; the list of trips and the seat map agree; no seat sold twice |
| Routes, counters | one table each | CRUD | fares, schedules | unique keys |
| Reports, notifications, SMS, audit | none or append-only | read, send | - | - |
| CMS, sliders, offers, settings, messages | one table each | CRUD | - | - |
| HTTP layer (controllers, guards, filters) | none | - | all | authorisation |
| Persistence (Prisma schema, Redis client) | - | - | all | unique keys, isolation, `enableOfflineQueue: false` |

Hard behaviours, each at its line in `PROJECT.json` "hazards": the check and the write of a
lock in two round trips; double checks at READ COMMITTED; rows written from values read before
an `await`; a retry that overtakes the first call; Redis going away in the middle of a call;
upserts that outlive the call that started them; the expiry job acting on an old list; work not
awaited; statements that should be in one transaction and are not; rows named after the day on
which a script ran; one rule written three times (which fare applies), and one quantity kept in
two columns (the seats of a coach).

## SeatReservation

Seats of one schedule, any number of calls. `pc[r]` is the await at which call `r` stands:

| `pc` | code of `createBooking` / `lockSeats` |
|---|---|
| idle -> validate / existing | idempotency lookup (`Begin`) |
| validate -> get / refused | schedule, coach, route and booking window (`Validate`) |
| get -> set / upsert | GET pipeline (`GetLocks`) |
| set -> upsert / release | SET pipeline (`SetLocks`) |
| release -> refused | Lua release of the seats it had locked (`ReleaseLocks`) |
| upsert -> price | one upsert per seat under `Promise.all` (`UpsertDbLocks`, `UpsertFails`, `LateUpsert`) |
| price -> check / unlock | coupon and fares, may throw (`Price`) |
| check -> insert / unlock | read of live bookings inside the transaction (`CheckSeats`) |
| insert -> booked / unlock | commit or roll-back (`Insert`, `Abort`) |
| unlock -> undo -> refused | the catch block (`UnlockRedis`, `UndoDbLocks`) |
| unlock, undo -> failed | the catch block throws itself (`UndoFails`) |

`redis` and `dbLock` hold the session token of each seat's lock. `booking[r]` is the status
of the row call `r` inserted. `seen`, `revived`, `unreleased` and `late` are history
variables: no guard reads the first three, and `late` only enables upserts that are still
running. Operators commented "Faulty" are the mutated forms of the definition next to them,
used by no action.

Abstractions, each allowing at least what the code does:
- A lock may expire at any moment (the TTL is not counted).
- A pipeline takes effect at once. The driver sends it as one batch on one connection.
- A Redis that is down answers each command with an error entry, which `lockSeats` reads as
  "no holder", or rejects `exec()`, which makes it use the table. Both are modelled.
- The clause `holder === userId` never applies: what is stored is always a session token.
- What the rest of the service writes to a committed booking is `WriteKeepingLocks` and
  `WriteDroppingLocks`, without guards, because those handlers decide on rows read earlier;
  BookingLifecycle has the guards. The agent's sale is `SellFromBulk`.
- A call may name no seat at all: `CreateBookingDto` has no minimum.

### Properties
- `DoubleSaleNeedsOverlap`: two live bookings share a seat only if neither was committed
  when the other checked, or one had been given up and was made live again. It says exactly
  how much the re-check inside the transaction is worth, whatever Redis does.
- `NoDoubleSale`: what the comments of the code promise. Violated, see "What the violation
  shows".
- `RefusedLeavesNoLock`: a refused call has left no lock in Redis unless Redis was down when
  it released, and none in `seat_locks` unless the deletion in the catch block threw as well
  (the database that made the call fail may be down) or a late upsert was running; also when
  others overwrote some of the locks in between.
- `OnlyOwnLockReleased`: no step of a call deletes the Redis lock of another session.
- `OneBookingPerKey`, `EveryCallEnds`.

## BookingLifecycle and BookingLedger

One booking and any number of handler calls on it. A call is a read with the checks that
follow it, then a write that does not repeat them; in between every other call, the expiry
job, the clock (`HoldLapses`, `DepartureDayComes`) and a crash may come. `status`,
`payment`, `hold`, `approved` are columns of the row; `payments`, `tickets`, `refund` the
dependent tables, indexed by the call that wrote them. The row starts as `createBooking` or
as an agent's sale leaves it.

`BookingLedger` is the abstract specification: payments and tickets appear together, one
cancellation at most, refunds owed only of money received, cancellation voids every ticket,
deletion removes everything, a ticket is used only if issued. BookingLifecycle implements it
with `open <- (status # "DELETED")` (`LedgerSpec`, checked and proved).

Not in it: who may call (the models take authorised calls), amounts (a refund is owed or
not), the commission calls at the end of the handlers, and the hard removal of a schedule,
which deletes tickets before bookings outside a transaction.

### Properties
- `ConfirmedIsTicketed`: a confirmed booking is paid, has no deadline and, if it has a
  passenger, a ticket that is valid or used. A booking without seats is confirmed without one.
- `RefundOfReceivedMoney`, `DeletedLeavesNothing`, `LedgerSpec`.
- `HeldIsResolved`: a hold does not last for ever.
- `HeldCanExpire` (proved only): every held booking has a deadline, so the cron query can
  match it.
- `ExpiresLapsedHolds`, `ConfirmedOnce`: not kept by the code, see "Known weaknesses".

## BulkQuota

All bulk orders of one agent, oldest first (orders are numbers). `status`, `quantity`,
`remaining` are columns of `bulk_ticket_orders`; `pc[s]`, `found[s]` a sale and the balances it
has listed; `admin[a]` an admin call between its read and its write. A sale lists the ACTIVE
orders (`ListOrders`), then one transaction writes the remaining quantity of each order it
draws from as `listed - drawn` (`Deduct`); if one of them has been deleted the transaction
rolls back (`Rollback`). `CommissionWrites` is what the commission handlers do to the status of
an order. The seed makes orders that are ACTIVE from the start and that nobody approved
(`Seed`); the removal of the agent takes all orders along (`RemoveAgent`). `taken`, `seen` and
`seeded` are history variables: the tickets a sale got, numbered from the balance it listed,
the sales it could see, and the orders of the seed.

Not in it: the price, the route check, the referral (see Commission), `assignCounter`, which
only relabels orders; that the customer's booking is inserted is in SeatReservation
(`SellFromBulk`).

### Properties
- `OversoldNeedsRace`: a ticket is sold twice, or sold and still on offer, only if two sales
  from its order overlapped. `SoldWithinQuota`, without that exception, is not kept by the code.
- `NoTicketLost`: in the other direction no overwritten deduction, stale approval or
  roll-back ever costs the agent a ticket: each is in the order's balance or sold. (A balance
  under a status overwritten with EXHAUSTED is not on offer.)
- `SoldWereApproved`: only orders an admin approved, or the seed made, sell, although a late
  sale makes any order ACTIVE again.

## Commission

The account of one agent; the loops over agents in the code treat them one after the other
and share nothing between them but the order of the reads. A commission row is named after
the call that created it, so `row[d]` is its status and `booking[d]` its booking.
`earned[o]` is `commissionEarned` and `active[o]` whether the status is ACTIVE.

| Handler | Steps (`pc`) |
|---|---|
| `distributeCommission` | `DistributeRead` (find) `DistributeFind` (create) `DistributeCreate` (credit) `Credit`, once per order |
| `settleDepartureCommissions` | `SettleRead` (settle) `SettleRow` (orders) `SettleOrders` (credit) `Credit`, back to settle |
| `cancelBooking`, `reverseCommissionOnResell` | `CancelRead` (cancelBooking) `CancelBooking` (lookup) `ReverseRead` (reverse) `ReverseRow` (debit) `Debit`, once per order, (cancel) `ReverseCancel`, back to reverse |
| the referrer's row of an agent's sale | `ReferralSale` (the sale has committed), `ReferralRow` (create) |
| others | `RejectBooking`, `Revive`, `MarkCommissionPaid`, `DeleteBooking`, `Fails`, `QuotaWrites`, `DayComes` |

`due`, `todo`, `settled`, `listed`, `amount`, `left` are local variables of the handlers;
`credited`, `debited`, `settlers`, `crowded`, `stale`, `escaped` are history variables that no
guard reads.

Abstractions: every row has the same share (in the code 200 divided by the number of
eligible agents); rows and orders are handled in any order (the code sorts them by age);
a day of departure that has come is not moved into the future again; which agents are
eligible at a counter only decides whether the call concerns this agent. The monthly bonus,
which writes the same table without touching orders, is MonthlyBonus.

### Properties
- `OneRowPerBooking`: two rows of one booking take two distributions that overlapped between
  `findFirst` and `create`. Nothing in the schema makes (booking, agent) unique.
- `CreditedAfterDeparture`: nothing is added to an order before the day of departure.
- `CreditedOnce`: a row gets more than its share only if two settlements listed it, however
  its credit was split.
- `EarnedWithinCap`: `commissionEarned` leaves `0..commissionCap` only by a write computed
  from an amount that was out of date.
- `CancelledPaysNothing`: a row of a cancelled booking that is held or PENDING will still be
  reversed, or it is in `escaped`. A row gets there in four ways: a distribution or the
  referrer's row of an agent's sale came after the reversal had looked for rows, the reversal
  failed or died before it, a settlement that had listed the row writes it after the reversal,
  or an admin rejected the payment (`RejectBooking`), which cancels and reverses nothing. The
  run's mutant leaves held rows alone, which none of these excuses.
- `DebitedWasCredited`: what the comment on the reversal takes for granted; not kept by the
  code.

## AuthSessions

One user account. `password` counts the changes, `failed` and `locked` are the lock-out
columns (`locked` stands for `lockedUntil > now`), `row[t]` the refresh-token table, `now` the
clock. A token is named after the second in which it was signed, because nothing else in the
JWT differs between two tokens of one user.

| Handler | Steps (`pc`) |
|---|---|
| `login` | `LoginRead` (verify) `LoginFails` or `LoginResets` (sign) `Sign` (store) `Store` or `StoreClashes` |
| `refreshTokens` | `RefreshRead` (rotate) `Rotate` (sign) `Sign` (store) `Store` or `StoreClashes` |
| `changePassword` | `ChangeRead` (write) `ChangeWrite` (revoke) `ChangeRevoke` |
| `updateProfile` of an agent | `ProfileRead` (save) `ProfileWrite` (saved) |
| `logout` | `LogoutOne`, `LogoutAll`, one statement each |
| `users.service.ts` | `StatusChanges`, `RemoveUser` |

A refused call changes nothing and is no step. Tokens of clients other than the stored ones do
not occur. `changePassword` and `logout` are called with an access token, whose check
(`JwtStrategy`) only reads. An update of the user's name, e-mail or role, which changes the
content of later tokens, is left out: it can only make tokens of one second differ.

### Properties
- `LockOutAfterMax`: `MAX_FAILED_ATTEMPTS` failures without a success have locked the account
  unless parallel logins counted from the same value.
- `TokenUsedOnce`: a refresh token yields two sessions only if two rotations held it at a time.
- `OldSessionsAccountedFor`: a live session is older than a password only if it was under way
  when `changePassword` revoked the tokens ("Invalidate all refresh tokens"), or was rotated
  from one that was, or if each password since was set without a revocation: by
  `updateProfile`, or by a `changePassword` that has not come to it or was cut off before it.
- `RotationIssues`: "revoke old, issue new"; not kept by the code.

## MonthlyBonus

`stage[r]`, `period[r]`, `todo[r]`, `sold[r]` are the locals of a run of
`processMonthlySalesBonuses`: `Trigger` or `AdminRun` (count) `Count` (find) `FindBonus`
(issue) `Issue`, then the next agent. `bonus[<<r, a>>]` is the commission row that run `r`
made for agent `a`. A booking changes hands with nobody: `Sell`, `Lapse` (cancelled, expired,
deleted), `Revive` (a late submission). `missed` and `missedBy` say which bonuses a run could
not see; `early` and `grown` when the counts were taken.

Not in it: the notification, which always fails and is caught; the settlement that the same
dashboard read runs (Commission).

### Properties
- `OneBonusPerMonth`: two bonuses of an agent for a month take two overlapping runs.
- `BonusCoversMonth`: a bonus issued after the month is the highest its tickets reach, but
  for later cancellations (too high) and bookings revived later (too low).

## DailyTrips

The `schedules` table over a calendar. An id is a writer and a slot of the timetable; a call
makes at most one row per slot, and the seed names its rows after the offset from its day, as
`seed.ts` does.

| Code | Steps |
|---|---|
| `ensureDailySchedulesForDate` | `CountNone`, `ReadPlan` (active routes and coaches), `Generate` (createMany); errors are swallowed (`Fails`) |
| `create` | `CreateRead` (duplicate check), `Create` |
| `update`, `cancel` | `Update`, any columns, no check |
| `remove`, end of `hardRemove`, removal of a route | `Remove` |
| the loop of `seed.ts` | `SeedStart`, then per slot and day `SeedFind`, `SeedUpsert` |

`touched`, `missed`, `missedBy`, `disturbed` are history. Which routes and coaches are active
is any set at each reading. The seed handles its slots one after the other; in the model they
advance independently, which allows more.

### Properties
- `DuplicateNeedsRace`: two active trips of a slot on a day take two writers of which one had
  looked before the other wrote, or an unchecked update.
- `SeedCovers`: a run of the seed that has gone through its days leaves none without a trip,
  whatever earlier runs left half-done and searches generated, as long as runs begin on one
  day.

## Fleet

Coaches and their seats against one trip and its customers. `total` is `totalSeats`, `seats`
the seats table, `stage[c]` a call about a coach: `CreateCoach` (insert) `InsertSeats`;
`UpdateCoach` (clear) `Clear` (insert) `InsertSeats`; `GenerateSeats` (clear, insert, stamp)
`Stamp`; `SeedCoach` (seed) `SeedSeat`; `Dies` anywhere. The trip may be given another coach
(`SwapCoach`) or be removed in four statements (`StripBookings`, `RemoveBookings`,
`RemoveTrip`, `RemovalDies`). `anchored[b]` stands for the rows that keep the database from
deleting a booking: payments, a cancellation, discount usages. `Offered` is the seat map
(`getSeats`), `Advertised` the number of free seats in the list of trips.

`LockSeat` and `Book` take any seat that exists, of whatever coach, as `lockSeats` and
`createBooking` do. `AgentSells` is `sellTicketFromBulk`: it takes any label, makes the seat if
the coach has none of that number, does not look who has it, and writes PAID without a row of
payments, so that a removal of the trip may take the booking. `Pay` and `Revive` are
`confirmBooking`, which also bring back a booking that is over; `Over` is expiry, rejection
or cancellation. `mixed`, `spoiled`, `sold` and `unchecked` are history.

Abstractions: `createBooking` is one step (`Book`), because its races are SeatReservation;
locks are the `seat_locks` rows; a seat is a coach and a label; layouts are sets of labels.

### Properties
- `LayoutWhole`: between calls a coach has the seats of one layout and their number, unless
  the last call was refused, cut off, mixed with another, or given a number of seats that is
  not its layout's, or an agent's sale has made a seat since.
- `AvailabilityAgrees`: for such a coach the two views of a trip agree, unless a seat of
  another coach is locked or booked for the trip. The views read different columns, and the
  condition is one on the tables, not on how they came about.
- `SeatSoldOnce`: a seat is sold twice only if an agent made one of the bookings, a payment
  or its approval revived one, or a removal stripped one of its seat. SeatReservation names
  the fourth way, two calls of `createBooking` that overlap.

## Pricing

One trip with the fares of its route and of others, one coupon, bookings from the page (`Look`)
over the read of the trip (`ReadSchedule`), the coupon (`ValidateDiscount`), one query per seat
(`SeatFare`) and the transaction (`Insert`) to `Cancel` and `DeleteBooking`. `ChangeFare`,
`RemoveRoute`, `ChangeTrip` (another route, or a coach of another type) and `ChangeCoupon` are
the admin. Amounts are in cents and rounded as the `Decimal(10, 2)` columns do. `Shown` and
`Charged` are the three rules by which `search`, `findOne` and `calculateSeatFares` choose a
fare; only the last looks at the fare's company, and it takes a fare that the call names from
any route and company. Where rows tie, any of them is chosen. `moved`, `plain`, `raced`,
`lowered` are history.

Abstractions: an expired coupon is an inactive one; the price without fares is one constant
per route (`Fallback`; the code has a table by city); the time that decides between 0 and 20
percent is a choice; companies are the trip's own and another.

### Properties
- `AmountsAgree`: seats add up to the total, discount and net to the total but for a cent
  that two stored halves add, fee and refund to the net amount.
- `PricedAsShown`: unless fares have changed, what the page said is charged if the call names
  the page's fare, then even if the trip has changed, or if it names none, finds the trip as
  the page had it, and the page's fare was the company's own and the only one to choose.
- `CouponLimit`: the limit is passed only by overlapping calls or after a change of the
  coupon, and deleted bookings make no room.

## Accounts

`account[a]` is a row of `users`, `otpStore` the map of one-time passwords, `call[x]` a
registration whose code was accepted. A phone is a number and a spelling; `Key` is
`formatPhoneNumber`, which leaves `881...` as it is and does not know `008801...`, so that these
have keys of their own; `Variations` is `getPhoneVariations`. Each server process has an
`otpStore` of its own.

| Code | Steps |
|---|---|
| `sendRegisterOtp` | `AskCode` (no such account), `SendCode` (kept and sent), `Expire` |
| `register` | `TakeCode`, then `Register` or `Fails`; `RegisterByEmail` |
| `users.service.ts` | `OfficeCreates`, `OfficeUpdates`, `Remove` |
| `updateProfile`, the users of `seed.ts` | `UpdateProfile`, `Seed` |
| a process | `Restart` |

`fate`, `missed`, `missedBy`, `opened` are history. Not in it: roles, referral codes
and passwords, the text of the SMS (a failed one is not noticed by the code either).

### Properties
- `OneAccountPerNumber`: two accounts opened for a number take two codes that were asked for
  before either account existed, a spelling `getPhoneVariations` does not know, or the office.
- `OneAccountPerCode`: a code opens one account, however often it is typed at once.
- `GoodCodesAccepted`: the process that sent a code has it, in time, under the key of every
  spelling that people use (`Alike`), unless it is late, replaced, used or lost in a restart.
  Another process does not have it, and another spelling may have another key.

## Runs

| Run | Instance | Shows |
|---|---|---|
| seat_reservation | 2 calls, 2 seats, own tokens, outages, crashes; symmetric | type, `DoubleSaleNeedsOverlap`, `RefusedLeavesNoLock`, `OnlyOwnLockReleased` hold |
| seat_retry | 2 calls with one key, 1 seat, fair | `OneBookingPerKey`, `EveryCallEnds` hold |
| seat_double_sale | 2 calls, 2 seats, Redis always up | `NoDoubleSale` is violated |
| lifecycle | 3 calls of any kind, expiry job, fair | all invariants, `LedgerSpec`, `HeldIsResolved` hold |
| bulk_quota | 2 orders of up to 2 tickets, bought or seeded, 3 sales, 2 admin calls; symmetric | `OversoldNeedsRace`, `NoTicketLost`, `SoldWereApproved` hold |
| commission | 3 calls, 1 booking, 2 orders, share 2, cap 3; symmetric | the five invariants of Commission hold |
| auth | 4 calls, 2 seconds, lock-out after 2 failures, 2 new passwords; symmetric | the invariants of AuthSessions hold |
| daily_trips | 2 calls, 1 slot, 3 days, a seed of 2 days, 1 row changed by an admin at a time; symmetric | `DuplicateNeedsRace`, `SeedCovers` hold |
| fleet | 2 calls about 1 of 2 coaches, 2 labels, 2 bookings, 1 lock at a time; symmetric | the three properties of Fleet hold |
| pricing | 2 bookings of 2 and 1 seats, 2 fares of 3 kinds, 2 routes with a coach type each, 2 kinds of coupon, 2 changes; symmetric | the three invariants of Pricing hold |
| bonus | 2 runs, 2 agents, 2 bookings of 0 or 2 seats, 2 tiers, 2 months; symmetric | `OneBonusPerMonth`, `BonusCoversMonth` hold |
| accounts | 1 number in 3 of 5 spellings, 1 address, 2 codes, 2 registrations, 2 accounts, 2 processes; symmetric | the three invariants of Accounts hold |

Why these bounds are enough: the reservation properties relate two calls, and two seats are
what partial success and partial overlap need; a third call adds only more overwriting,
which lock expiry already provides. Every invariant of the reservation is also proved for
any number of calls and seats. In the life cycle a hazard needs the stale reader, the writer
that overtakes it, and one call that prepares the row; the proofs again have no bound.
`Tokens` and `Seats` are finite only for TLC. A sale that spans orders needs two of them, an
overwritten deduction two sales, and a third sale meets what they left. In Commission a share
of 2 and a cap of 3 make a credit split over two orders and a cap reached in the middle of
one; three calls are two that race and one that prepares or follows, on the one booking
their race is about. Two seconds and two
failures are the smallest numbers at which AuthSessions can clash and lock; with two new
passwords one may be revoked for and the other not; a fourth call is a login that prepares the
others. Two admin calls and three sales of BulkQuota are an approval, a rejection or deletion
around an overlap of two sales, and a third that meets what they left.

Trips of different slots meet only where a route is wanting, so one slot shows every race;
three days let a seed of two days run again a day later. `MaxTouched` bounds the rows an admin
has changed and not the changes. In Fleet two labels make three layouts, two of which the
seed's contains; two calls mix, two customers compete, and the second coach is there to be
swapped in. The seats that customers and agents name are those of the coach the calls are about
(`Named`); once the trip has the other coach they are the foreign ones. `MaxLocks` bounds the
locks at one time, because any one of them changes the two views alike. In Pricing the amounts
are chosen for their rounding (99 cents at 50 percent leave half a cent; 150 percent, which the
code allows, make a negative net amount; a coupon of a fixed amount and an inactive one are left
to the proofs) and for the limit (1, and 0 for none, which a change turns into 1 after two
uses); the second trip has another route and coach type, with a fare for every type, and one
kind of fare is another company's; two changes are a change and its reversal, or one of the
fares and one of the trip or the coupon. Bonus
tiers are scaled down to 2 and 3 tickets so that two bookings reach either; 0 seats count as
one ticket. In Accounts one number is enough because accounts of different numbers share
nothing but addresses, and both accounts may have any of the spellings. Three of them go into
the run, one that is not looked for among them; the other two (a space, `881...`) are covered
by the theorems only. Two processes show what one keeps from the other.

No run checks for deadlock: the program stops when every call is answered.

### Fairness
- `WF(Step(r))`: the event loop resumes a handler when its awaited call returns, and no
  awaited call hangs, because the Redis client has its offline queue switched off and the
  database client times out. Crashes, expiry and outages are never forced.
- `WF(HoldLapses)`: time passes. `WF(CronScan)`: cron starts the job each minute.
  `SF(CronWrite)`: a run may die before its update (`CronStops`) and does so again and again
  only finitely often while the row waits; each later run finds it. Weak fairness would not
  do, since a failed run disables the update.
- The calls on one booking are finitely many, so the deadline is moved finitely often.
- The other modules promise nothing that must happen: no one repeats a call that has died.

### What the violation shows
**Double sale** (`lockSeats`): GET and SET are two round trips and SET has no NX, so two
calls both lock; both transactions then read no live booking and both commit. Nothing in
the schema makes (schedule, seat) unique. The comments promise atomic locking.

## Known weaknesses

What the models contain and the properties therefore name as exceptions. No text of the
repository says otherwise, except where quoted. The first five are stated as definitions
("Not kept by the code"); added to the module's cfg as an INVARIANT or PROPERTY, each gives a
counterexample.

1. `ExpiresLapsedHolds` (BookingLifecycle): the update of `expireHeldBookings` repeats neither
   the status nor the deadline of the scan, and expires a booking confirmed meanwhile.
2. `ConfirmedOnce` (BookingLifecycle): two approvals both record a payment and issue tickets.
3. `SoldWithinQuota` (BulkQuota): `remainingQuantity` is written as an absolute value computed
   from a list read before the transaction, so one of two deductions is lost.
4. `DebitedWasCredited` (Commission): the reversal takes PENDING and PAID to mean "added to an
   order", which a referral row and a held row that was paid out never were.
5. `RotationIssues` (AuthSessions): within the second of issue the new token equals the old,
   which is revoked, and the unique key refuses the new one.

Reservation and life cycle: the customer's `confirmBooking` puts an EXPIRED or CANCELLED
booking back on hold without looking at its seats (`revived`). Two gates may admit one ticket.
`createBooking` and `lockSeats` never check that a seat belongs to the coach of the trip.
A paid booking can be expired by the list of an expiry run that read it while it was held.
The catch block of `createBooking` may itself fail and leave `seat_locks` rows to expire.

Agents: a crash between marking a commission PENDING and crediting it loses the credit; a
reversal that overtakes a distribution misses its row, and a settlement that has listed a row
revives it after the reversal; `rejectUserBookingPayment` cancels, a confirmed booking too, and
reverses nothing. An agent's sale does not look whether a seat is free, makes a seat of any
number it is given, beyond the layout and `totalSeats`, and its booking is PAID without a row of
`payments`. The seed's bulk orders sell without an approval. An early run of the bonus blocks the
later, complete one. Buying in bulk does not look at the agent's KYC status. `assignCounter`
labels orders in two steps that may disagree. The dashboard counts bookings of any status.

Trips: one trip that an admin made for a day keeps the search from generating the others. The
timetable gives coach 0 the same time on two routes, which `create` would refuse. A seed that
runs on a later day moves its rows, booked ones too, and leaves gaps behind. `hardRemove`
strips bookings of seats and tickets and then fails on their payments, or deletes those that
have none, agents' paid ones among them. An update may give a trip another coach under booked
seats, and another route and fare under an open page.

Coaches: any edit regenerates the seats, from `totalSeats` if no layout is given, and commits
`totalSeats` before the database refuses to delete booked seats. Layout and number may
disagree. Overlapping updates leave the seats of both.

Fares: list, page and booking choose by three rules, which agree in the cases
`PricedAsShown` names; a fare whose `effectiveFrom` lies ahead is charged now. List and
page also show fares of other companies, and a call may name a fare of another route. A
coupon's minimum amount is never checked, a limit of 0 is none, and a fixed one, or one of more
than 100 percent, may make the net amount negative. Half a cent makes discount and net amount
exceed the total by one. `deleteBooking` leaves `usedCount` as it is.

Accounts: a number with a space in it is unknown to `getPhoneVariations`, so it can get a
second account. A failed SMS is not noticed, a restart loses the process's codes, and a
process that has not sent a code does not know it. A number written `881...` or `008801...` has a
key of its own. `updateProfile` takes a new password without the old one if that is left out,
and ends no session.

## Proofs

The `_proofs` modules hold for every value of the constants: all sets of seats, requests,
calls, orders, bookings, slots, agents, codes, coaches, layouts, fares, and all amounts.
Assumptions: `TokenAssumption` (each call has a token; only calls with an idempotency key may
share one), `OutagesAssumption`, `SaleAssumption` (the name of the agent's sale is not a call),
`QuotaAssumption` (orders are numbers, and so is the size of the largest), `AmountAssumption`
(in Commission, share and cap are positive; in Pricing, the fares are finitely many, rows
and coupons have the columns of the schema with amounts in Nat, and so has the price of a route
without fares), `NoBookingAssumption`,
`BoundAssumption` (the bounds of AuthSessions, and of DailyTrips, are numbers, and the seed's
window fits into the calendar), `CallAssumption` (calls, slots and offsets are different
things, so that ids are), `TierAssumption` (tiers descend), `BonusAssumption` (agents and
bookings are finitely many, seats are numbers), `LayoutAssumption` (labels are finitely many,
a layout has one at least, and what is managed and named exists), `SeedAssumption`,
`FormsAssumption` and `NoneAssumption` (the seed's address and number are among those of the
model; the spellings are among the five that it knows; None is neither a code nor a record).

| Module | Proves about |
|---|---|
| Seats_proofs | SeatReservation, Fleet |
| Amounts_proofs | MonthlyBonus, Pricing, and the sums both use |
| BookingLifecycle_proofs, BulkQuota_proofs, Commission_proofs, AuthSessions_proofs, DailyTrips_proofs, Accounts_proofs | the module of that name |

The first two extend two modules each, which therefore share no name; that is why
MonthlyBonus and Fleet say `BonusInit`, `FleetNext`, `stage` where the others say `Init`,
`Next`, `pc`.

- *Type correctness* of eight modules. MonthlyBonus and Pricing prove as much of it as their
  theorems need (`Shape`, `PricingShape`).
- *DoubleSale* and *OneBooking* need what the code keeps track of: a booking exists only for
  a call that committed, and a call at "insert" has seen every booking that is live,
  overlaps and was committed before its check (or that was revived). The invariant of the
  sale relates `pc`, `booking` and `seen`; alone, neither property is inductive.
- *RefusedClean* follows the trail of a token: in Redis it may lie only on seats of
  `locked[r]` and only while `pc[r]` is between set and unlock; in the table only on
  upserted seats, between upsert and undo, or as long as late upserts run. The final step
  of each exit then empties it, or is one that failed.
- *ReleaseOwnLock* is an action property: only `ReleaseRedis` moves a `pc` and empties a
  key, and its script compares the token.
- *HoldsCanExpire, ConfirmedHasTicket, RefundsWereReceived, DeletedIsClean* come from one
  inductive invariant `IInv`, which adds `MoneyInv`: PAID in the row, or in the copy a
  cancellation in flight has read, means that money was received and the row still exists.
  Without the clause about copies the refund decided on a stale read could not be justified.
- *ImplementsLedger* maps each step to a step of BookingLedger or to a stutter. That a call
  records its payment only once is the part of `MoneyInv` it rests on.
- *OversaleIsARace, TicketsAreKept, SalesWereApproved*: the invariant says what a sale in
  flight knows. `CoverInv` (each ticket missing from the row, or from a list in flight, has
  been sold) gives that none is lost; `DisjointInv` (a list shows no ticket that a sale it
  could see has taken) gives that overselling takes a race.
- *OneRow, CreditsAwaitDeparture, CreditOnce, EarningsRespectCap, ReversalsLast*: the
  invariant of Commission says who may be paying a row. `PayerInv`: whoever credits it either
  created it late or listed it while it was held. `CreditInv`: unless two settlements listed
  it, what the row has received plus what its payer has left is exactly its share; this
  equation is what makes a split credit add up. `SingleInv` keeps the history of creations.
  `EscapedInv` says more than `CancelledPaysNothing`: a cancelled row that a settlement has
  still to write counts as open too, or the property would not survive that write.
  `EscapedFrame` reduces each step of a call to what that call reverses and opens.
- *LockOut, UsedOnce, OldSessions*: the count is right as long as every failure was counted
  from the current value; a token that was used is revoked for good; who was not under way at
  the last revocation bears a password at least as new, and every password set since then has a
  call that set it and did not revoke.
- *Duplicates*: `SeenInv` says that a writer about to write missed every active row of what it
  writes, or an admin changed it. The property alone says nothing about writers in flight.
  Searches, creations and the seed write differently; `Plants` states what they have in
  common, and one lemma (`PlantsSeen`) then covers them. `OwnSlotInv` is needed for the seed,
  whose upsert may move a row of another slot.
- *SeedLeavesNoGap*: as long as nothing is disturbed the row that bears an offset is the one
  the seed planted there (`PlantedInv`), so its upsert moves no row of another day, and a call
  writes only rows that are not there yet.
- *OneBonus*: the same argument for runs (`MissedInv`), with `BusyInv`, that a run at work has
  an agent left, so that the head of its list is one.
- *Sums*. A month's tickets and a booking's total are sums over a finite set, which the
  community modules define by recursion on the set. That the recursion has one solution and
  what it yields is an induction; here it is made with the smallest set that would be a
  counterexample (`Smallest`), which exists because inclusion is well-founded on finite
  sets. The lemmas that the rest uses: a sum of numbers is a number, an element adds what
  it weighs (`SumStep`), and weights that are no smaller give a sum that is no smaller
  (`SumMonotone`).
- *BonusCovers*: what a run has counted is no less than what would be counted now
  (`CountInv`), because after the month no booking of it is added and cancelling takes away:
  `TicketsShrink`, by `SumMonotone`. It rests on a run's month being over (`OverInv`) unless
  it was early. `TierOf` then finds the first tier of a list that descends.
- *Amounts*: `BillInv` says of the row what the handler computed it from, for as long as it
  stands. Rounding is exact arithmetic on cents, so the proof finds the one cent by which
  discount and net may exceed the total, and that it takes a discount that ends in half a cent.
- *PagePrice*: `PageInv` keeps, from the look at the page to the last seat, that the fare
  shown is still there and, for the trip the page had, still the only one its rule can take,
  unless `moved`.
- *Coupon*: `RoomInv` says that a call which validated the coupon before no other use was
  counted still has room for its own; uses are counted with the insert.
- *WholeLayouts*: the invariant (`CoachIInv`) says how far a call that has its coach to itself
  has come: after Clear no seat is left, before Stamp the seats are the layout, in the seed the
  labels not yet made are the only ones missing (`CallAlone`). `Mixing`, that of two calls
  about one coach both are marked, keeps it true of a call while others work on other coaches.
  Three lemmas, `CallStarts`, `CallGoesOn` and `CallEnds`, serve all nine steps.
- An agent's sale that makes a seat is the one step outside these calls that writes what they
  work on: it marks them all (`AgentKeeps`).
- *FreeSeatsAgree* adds that what is locked or booked are seats that exist (`SeatsExist`); with
  those of other coaches excluded the seat map is then a difference of sets, the advertised
  number the difference of their sizes, and *WholeLayouts* makes `totalSeats` the size of the
  first.
- *SoldOnce*: a live booking that is not in `unchecked` holds the seat it was made for
  (`SoldIsHeld`), so that the next `createBooking` sees it.
- *OneAccount*: `MissedInv` follows a code instead of a writer: as long as it may open an
  account it has missed every account of its number, because asking for it looked up every
  usual spelling. *CodeOpensOne*: a code that a registration holds is spent, held by no other
  and has opened nothing (`HeldInv`). *GoodCodes*: a good code is in the store under its
  key in the process that sent it (`GoodInv`, `StoredInv`), and spellings that are `Alike` have
  one key.

Only model-checked: `EveryCallEnds` and `HeldIsResolved`, which are liveness. Everything else
that a passing run checks is proved.

## Not modelled

- KYC: submission, approval and rejection each overwrite one status column, unguarded; no
  rule relates them to anything else.
- `assignCounter`, which only relabels orders.
- Coach types, the catalogue of layouts, routes as such, stops, counters, offers, sliders,
  content, settings, contact messages: single rows, written as given.
- Reports, dashboards, notifications, audit log: read-only, or output to the outside.
- The HTTP layer: who may call is taken as given, every model takes authorised calls.
- Of the seed: its counters and offers, upserts of rows that nothing here reads.
- Server time zones: the models have days, seconds or months as the property needs.

## Plan

| Order | Module | Covers | Properties and theorems |
|---|---|---|---|
| done | SeatReservation, BookingLifecycle, BookingLedger, BulkQuota, Commission, AuthSessions | above | above |
| done | DailyTrips, Fleet, Pricing, MonthlyBonus, Accounts | above | above |
| 1 | compositions | reservation with a seat regeneration | end-to-end consistency |

Every module keeps one action per await, constants with named assumptions and no recursive
operator, so that its invariants can be proved as well as checked.
