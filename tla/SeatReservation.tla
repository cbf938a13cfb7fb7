-------------------------- MODULE SeatReservation --------------------------
(***************************************************************************)
(* The reservation of seats by BookingsService.createBooking               *)
(* (src/src/bookings/bookings.service.ts): idempotency lookup, schedule    *)
(* check, lockSeats (Redis first, seat_locks as mirror and fallback), the  *)
(* transaction that re-checks the seats and inserts the booking, and the   *)
(* catch block that gives the locks back.                                  *)
(*                                                                         *)
(* Every await of the handler ends an action, so any number of requests    *)
(* interleave there.  A transaction runs at READ COMMITTED: what it read   *)
(* (CheckSeats) may be out of date when it commits (Insert).  Seats are    *)
(* the seats of one schedule; lock keys, seat_locks rows and booking_seats *)
(* of different schedules never meet.  Time to live is not counted: a lock *)
(* may expire at any moment, which allows every real expiry and more.      *)
(***************************************************************************)
EXTENDS Naturals, FiniteSets

CONSTANTS
    Seats,      \* seats of the schedule
    Requests,   \* calls that book seats; also names the booking a call inserts
    Tokens,     \* lock owners: idempotency keys and random UUIDs
    Token,      \* Token[r]: the sessionToken of request r
    Keyed,      \* requests that carry an idempotencyKey
    NoToken,    \* no lock
    Outages     \* whether Redis may become unreachable

ASSUME OutagesAssumption == Outages \in BOOLEAN

\* A UUID is fresh; two requests share a token only by sending the same key.
ASSUME TokenAssumption ==
    /\ Token \in [Requests -> Tokens]
    /\ NoToken \notin Tokens
    /\ Keyed \subseteq Requests
    /\ \A r \in Requests \ Keyed, q \in Requests : q # r => Token[q] # Token[r]

VARIABLES
    redisUp,      \* whether Redis answers
    redis,        \* redis[s]: value of seat_lock:<schedule>:<s>, or NoToken
    dbLock,       \* dbLock[s]: sessionToken of the seat_locks row, or NoToken
    scheduleOpen, \* schedule, coach and route ACTIVE and bookingCloseTime ahead
    pc,           \* pc[r]: the await at which request r stands
    seatIds,      \* seatIds[r]: seats request r asks for
    locked,       \* locked[r]: seats that lockSeats found free for r
    upserted,     \* upserted[r]: seats whose seat_locks upsert is over
    booking,      \* booking[r]: status of the row inserted by r
    seen,         \* history: bookings already committed when r checked its seats
    revived,      \* history: bookings that became live again
    unreleased,   \* history: requests whose release met a Redis outage
    late          \* history: requests that went on with upserts still running

vars == <<redisUp, redis, dbLock, scheduleOpen, pc, seatIds, locked, upserted,
          booking, seen, revived, unreleased, late>>

Statuses == {"NONE", "HELD", "CONFIRMED", "CANCELLED", "EXPIRED", "DELETED"}

InFlight == {"validate", "get", "set", "release", "upsert", "price",
             "check", "insert", "unlock", "undo"}

\* A call ends refused when its catch block is through, failed when the deletion
\* in the catch block throws in its turn.
Ended == {"booked", "existing", "refused", "failed", "crashed"}

TypeOK ==
    /\ redisUp \in BOOLEAN
    /\ redis \in [Seats -> Tokens \cup {NoToken}]
    /\ dbLock \in [Seats -> Tokens \cup {NoToken}]
    /\ scheduleOpen \in BOOLEAN
    /\ pc \in [Requests -> {"idle"} \cup InFlight \cup Ended]
    /\ seatIds \in [Requests -> SUBSET Seats]
    /\ locked \in [Requests -> SUBSET Seats]
    /\ upserted \in [Requests -> SUBSET Seats]
    /\ booking \in [Requests -> Statuses]
    /\ seen \in [Requests -> SUBSET Requests]
    /\ revived \subseteq Requests
    /\ unreleased \subseteq Requests
    /\ late \subseteq Requests

Init ==
    /\ redisUp = TRUE
    /\ redis = [s \in Seats |-> NoToken]
    /\ dbLock = [s \in Seats |-> NoToken]
    /\ scheduleOpen = TRUE
    /\ pc = [r \in Requests |-> "idle"]
    /\ seatIds = [r \in Requests |-> {}]
    /\ locked = [r \in Requests |-> {}]
    /\ upserted = [r \in Requests |-> {}]
    /\ booking = [r \in Requests |-> "NONE"]
    /\ seen = [r \in Requests |-> {}]
    /\ revived = {}
    /\ unreleased = {}
    /\ late = {}

-----------------------------------------------------------------------------
(* Helpers *)

Exists(b) == booking[b] \notin {"NONE", "DELETED"}

\* The statuses the double-check of createBooking counts as occupying a seat.
Live(b) == booking[b] \in {"HELD", "CONFIRMED"}

SameKey(r, q) == r \in Keyed /\ q \in Keyed /\ Token[r] = Token[q]

Overlap(r, q) == seatIds[r] \cap seatIds[q] # {}

Goto(r, label) == pc' = [pc EXCEPT ![r] = label]

\* Faulty: a plain DEL, whoever owns the key.
RedisDeleted(S, t) == [s \in Seats |-> IF s \in S THEN NoToken ELSE redis[s]]

\* Faulty: the script blanks the key instead of deleting it.
RedisBlanked(S, t) == [s \in Seats |-> IF s \in S /\ redis[s] = t THEN "" ELSE redis[s]]

\* The Lua script of releaseRedisLocks: delete the key only if we own it.
RedisReleased(S, t) ==
    [s \in Seats |-> IF s \in S /\ redis[s] = t THEN NoToken ELSE redis[s]]

Written(table, S, t) == [s \in Seats |-> IF s \in S THEN t ELSE table[s]]

\* seatLock.deleteMany for the seats of a booking, whoever holds the row.
DbUnlocked(S) == Written(dbLock, S, NoToken)

-----------------------------------------------------------------------------
(* createBooking, one action per await *)

\* The call arrives and looks its idempotency key up.  CreateBookingDto accepts
\* an empty list of seats.
Begin(r) ==
    /\ pc[r] = "idle"
    /\ \E S \in SUBSET Seats : seatIds' = [seatIds EXCEPT ![r] = S]
    /\ Goto(r, IF \E q \in Requests : SameKey(r, q) /\ Exists(q)
               THEN "existing" ELSE "validate")
    /\ UNCHANGED <<redisUp, redis, dbLock, scheduleOpen, locked, upserted,
                   booking, seen, revived, unreleased, late>>

\* The schedule is read once, before the seats are locked.
Validate(r) ==
    /\ pc[r] = "validate"
    /\ Goto(r, IF scheduleOpen THEN "get" ELSE "refused")
    /\ UNCHANGED <<redisUp, redis, dbLock, scheduleOpen, seatIds, locked,
                   upserted, booking, seen, revived, unreleased, late>>

\* Promise.all over no seat at all is over at once.
Upserting(r) == IF seatIds[r] = {} THEN "price" ELSE "upsert"

FreeFor(r) == {s \in seatIds[r] : redis[s] \in {NoToken, Token[r]}}

\* Faulty: commands queue until Redis is back (enableOfflineQueue left on).
GetLocksQueued(r) ==
    /\ pc[r] = "get" /\ redisUp
    /\ locked' = [locked EXCEPT ![r] = FreeFor(r)]
    /\ Goto(r, "set")
    /\ UNCHANGED <<redisUp, redis, dbLock, scheduleOpen, seatIds, booking,
                   seen, revived, unreleased, late, upserted>>

\* The GET pipeline.  Without Redis every answer is an error entry, read as
\* "no holder", or exec() rejects and lockSeats falls back to the table.
GetLocks(r) ==
    /\ pc[r] = "get"
    /\ locked' = [locked EXCEPT ![r] = IF redisUp THEN FreeFor(r) ELSE seatIds[r]]
    /\ \/ Goto(r, "set")
       \/ ~redisUp /\ Goto(r, Upserting(r))
    /\ UNCHANGED <<redisUp, redis, dbLock, scheduleOpen, seatIds, booking,
                   seen, revived, unreleased, late, upserted>>

\* The SET pipeline: unconditional, and its errors are swallowed.
SetLocks(r) ==
    /\ pc[r] = "set"
    /\ redis' = IF redisUp THEN Written(redis, locked[r], Token[r]) ELSE redis
    /\ Goto(r, IF locked[r] = seatIds[r] THEN Upserting(r) ELSE "release")
    /\ UNCHANGED <<redisUp, dbLock, scheduleOpen, seatIds, locked, upserted,
                   booking, seen, revived, unreleased, late>>

\* releaseRedisLocks; its errors are swallowed too.
ReleaseRedis(r) ==
    /\ redis' = IF redisUp THEN RedisReleased(locked[r], Token[r]) ELSE redis
    /\ unreleased' = IF redisUp THEN unreleased ELSE unreleased \cup {r}

\* Some seat was taken: give back the others and fail the call.
ReleaseLocks(r) ==
    /\ pc[r] = "release"
    /\ ReleaseRedis(r)
    /\ Goto(r, "refused")
    /\ UNCHANGED <<redisUp, dbLock, scheduleOpen, seatIds, locked, upserted,
                   booking, seen, revived, late>>

\* Promise.all over one upsert per seat; an upsert overwrites any row.
UpsertDbLocks(r) ==
    /\ pc[r] = "upsert"
    /\ \E s \in locked[r] \ upserted[r] :
          /\ dbLock' = Written(dbLock, {s}, Token[r])
          /\ upserted' = [upserted EXCEPT ![r] = @ \cup {s}]
    /\ Goto(r, IF upserted'[r] = locked[r] THEN "price" ELSE "upsert")
    /\ UNCHANGED <<redisUp, redis, scheduleOpen, seatIds, locked, booking,
                   seen, revived, unreleased, late>>

\* The first error is logged and ends the wait; the other upserts run on.
UpsertFails(r) ==
    /\ pc[r] = "upsert"
    /\ \E s \in locked[r] \ upserted[r] :
          upserted' = [upserted EXCEPT ![r] = @ \cup {s}]
    /\ late' = IF upserted'[r] = locked[r] THEN late ELSE late \cup {r}
    /\ Goto(r, "price")
    /\ UNCHANGED <<redisUp, redis, dbLock, scheduleOpen, seatIds, locked,
                   booking, seen, revived, unreleased>>

\* An upsert nobody waits for any more reaches the table.
LateUpsert(r) ==
    /\ r \in late
    /\ \E s \in locked[r] \ upserted[r] :
          /\ dbLock' = Written(dbLock, {s}, Token[r])
          /\ upserted' = [upserted EXCEPT ![r] = @ \cup {s}]
    /\ UNCHANGED <<redisUp, redis, scheduleOpen, pc, seatIds, locked, booking,
                   seen, revived, unreleased, late>>

\* Coupon and fares; an invalid coupon throws.
Price(r) ==
    /\ pc[r] = "price"
    /\ \E label \in {"check", "unlock"} : Goto(r, label)
    /\ UNCHANGED <<redisUp, redis, dbLock, scheduleOpen, seatIds, locked,
                   upserted, booking, seen, revived, unreleased, late>>

\* Faulty: only bookings already paid for count as sold.
CheckConfirmedSeats(r) ==
    /\ pc[r] = "check"
    /\ seen' = [seen EXCEPT ![r] = {q \in Requests : booking[q] # "NONE"}]
    /\ Goto(r, IF \E q \in Requests : booking[q] = "CONFIRMED" /\ Overlap(r, q)
               THEN "unlock" ELSE "insert")
    /\ UNCHANGED <<redisUp, redis, dbLock, scheduleOpen, seatIds, locked,
                   upserted, booking, revived, unreleased, late>>

\* The transaction reads the live bookings of these seats.
CheckSeats(r) ==
    /\ pc[r] = "check"
    /\ seen' = [seen EXCEPT ![r] = {q \in Requests : booking[q] # "NONE"}]
    /\ Goto(r, IF \E q \in Requests : Live(q) /\ Overlap(r, q)
               THEN "unlock" ELSE "insert")
    /\ UNCHANGED <<redisUp, redis, dbLock, scheduleOpen, seatIds, locked,
                   upserted, booking, revived, unreleased, late>>

\* Faulty: idempotencyKey without its unique index.
InsertAnyKey(r) ==
    /\ pc[r] = "insert"
    /\ booking' = [booking EXCEPT ![r] = "HELD"]
    /\ Goto(r, "booked")
    /\ UNCHANGED <<redisUp, redis, dbLock, scheduleOpen, seatIds, locked,
                   upserted, seen, revived, unreleased, late>>

\* The transaction commits, unless the unique idempotencyKey is taken.
Insert(r) ==
    /\ pc[r] = "insert"
    /\ ~ \E q \in Requests : SameKey(r, q) /\ Exists(q)
    /\ booking' = [booking EXCEPT ![r] = "HELD"]
    /\ Goto(r, "booked")
    /\ UNCHANGED <<redisUp, redis, dbLock, scheduleOpen, seatIds, locked,
                   upserted, seen, revived, unreleased, late>>

\* Unique violation, time-out or any other error rolls the transaction back.
Abort(r) ==
    /\ pc[r] = "insert"
    /\ Goto(r, "unlock")
    /\ UNCHANGED <<redisUp, redis, dbLock, scheduleOpen, seatIds, locked,
                   upserted, booking, seen, revived, unreleased, late>>

\* catch: first the Redis locks ...
UnlockRedis(r) ==
    /\ pc[r] = "unlock"
    /\ ReleaseRedis(r)
    /\ Goto(r, "undo")
    /\ UNCHANGED <<redisUp, dbLock, scheduleOpen, seatIds, locked, upserted,
                   booking, seen, revived, late>>

\* Faulty: the catch block forgets the table.
UndoNothing(r) ==
    /\ pc[r] = "undo"
    /\ Goto(r, "refused")
    /\ UNCHANGED <<redisUp, redis, dbLock, scheduleOpen, seatIds, locked,
                   upserted, booking, seen, revived, unreleased, late>>

\* ... then the seat_locks rows that carry this session token.
UndoDbLocks(r) ==
    /\ pc[r] = "undo"
    /\ dbLock' = [s \in Seats |-> IF s \in seatIds[r] /\ dbLock[s] = Token[r]
                                  THEN NoToken ELSE dbLock[s]]
    /\ Goto(r, "refused")
    /\ UNCHANGED <<redisUp, redis, scheduleOpen, seatIds, locked, upserted,
                   booking, seen, revived, unreleased, late>>

\* The database does not answer: deleteMany throws in place of the first error.
UndoFails(r) ==
    /\ pc[r] = "undo"
    /\ Goto(r, "failed")
    /\ UNCHANGED <<redisUp, redis, dbLock, scheduleOpen, seatIds, locked,
                   upserted, booking, seen, revived, unreleased, late>>

-----------------------------------------------------------------------------
(* CounterAgentService.sellTicketFromBulk: a confirmed booking, inserted     *)
(* without a look at the seat locks, at other bookings of the seats or at    *)
(* the status of the schedule.  Its quota is not modelled here.              *)

SellFromBulk(r) ==
    /\ pc[r] = "idle" /\ r \notin Keyed
    /\ \E S \in SUBSET Seats \ {{}} : seatIds' = [seatIds EXCEPT ![r] = S]
    /\ booking' = [booking EXCEPT ![r] = "CONFIRMED"]
    /\ Goto(r, "booked")
    /\ UNCHANGED <<redisUp, redis, dbLock, scheduleOpen, locked, upserted, seen,
                   revived, unreleased, late>>

-----------------------------------------------------------------------------
(* What the rest of the service writes to a committed booking.  The        *)
(* handlers decide on a row they read earlier, so here the write is         *)
(* possible whenever the row exists; BookingLifecycle has their guards.     *)

WriteStatus(b, status) ==
    /\ Exists(b)
    /\ booking' = [booking EXCEPT ![b] = status]
    /\ revived' = IF status \in {"HELD", "CONFIRMED"} /\ ~Live(b)
                  THEN revived \cup {b} ELSE revived
    /\ UNCHANGED <<redisUp, redis, scheduleOpen, pc, seatIds, locked, upserted,
                   seen, unreleased, late>>

\* confirmBooking by the customer, rejectUserBookingPayment, deleteBooking.
WriteKeepingLocks(b) ==
    /\ \E status \in {"HELD", "CANCELLED", "DELETED"} : WriteStatus(b, status)
    /\ UNCHANGED dbLock

\* confirmBooking by the admin, cancelBooking, expireHeldBookings.
WriteDroppingLocks(b) ==
    /\ \E status \in {"CONFIRMED", "CANCELLED", "EXPIRED"} : WriteStatus(b, status)
    /\ dbLock' = DbUnlocked(seatIds[b])

-----------------------------------------------------------------------------
(* Environment *)

\* EX of the SET command.
RedisLockExpires(s) ==
    /\ redis[s] # NoToken
    /\ redis' = [redis EXCEPT ![s] = NoToken]
    /\ UNCHANGED <<redisUp, dbLock, scheduleOpen, pc, seatIds, locked,
                   upserted, booking, seen, revived, unreleased, late>>

\* The sweep at the end of expireHeldBookings.
DbLockSwept(s) ==
    /\ dbLock[s] # NoToken
    /\ dbLock' = [dbLock EXCEPT ![s] = NoToken]
    /\ UNCHANGED <<redisUp, redis, scheduleOpen, pc, seatIds, locked, upserted,
                   booking, seen, revived, unreleased, late>>

\* enableOfflineQueue is off: without a connection commands fail at once.
RedisFlips ==
    /\ Outages
    /\ redisUp' = ~redisUp
    /\ UNCHANGED <<redis, dbLock, scheduleOpen, pc, seatIds, locked, upserted,
                   booking, seen, revived, unreleased, late>>

\* The schedule is cancelled or its booking window closes.
ScheduleCloses ==
    /\ scheduleOpen
    /\ scheduleOpen' = FALSE
    /\ UNCHANGED <<redisUp, redis, dbLock, pc, seatIds, locked, upserted,
                   booking, seen, revived, unreleased, late>>

\* The server process dies with the request in it.
Crash(r) ==
    /\ pc[r] \in InFlight
    /\ Goto(r, "crashed")
    /\ UNCHANGED <<redisUp, redis, dbLock, scheduleOpen, seatIds, locked,
                   upserted, booking, seen, revived, unreleased, late>>

Step(r) ==
    \/ Validate(r) \/ GetLocks(r) \/ SetLocks(r) \/ ReleaseLocks(r)
    \/ UpsertDbLocks(r) \/ UpsertFails(r) \/ Price(r) \/ CheckSeats(r)
    \/ Insert(r) \/ Abort(r) \/ UnlockRedis(r) \/ UndoDbLocks(r)
    \/ UndoFails(r)

Next ==
    \/ \E r \in Requests :
          Begin(r) \/ Step(r) \/ LateUpsert(r) \/ Crash(r) \/ SellFromBulk(r)
    \/ \E b \in Requests : WriteKeepingLocks(b) \/ WriteDroppingLocks(b)
    \/ \E s \in Seats : RedisLockExpires(s) \/ DbLockSwept(s)
    \/ RedisFlips
    \/ ScheduleCloses

Spec == Init /\ [][Next]_vars

\* The event loop resumes every handler whose awaited call has returned.
FairSpec == Spec /\ \A r \in Requests : WF_vars(Step(r))

-----------------------------------------------------------------------------
(* Properties *)

\* The re-check inside the transaction stops every double sale but these: each
\* booking was committed unseen by the other's check (two transactions that
\* overlap, or an agent's sale, which checks nothing), or one of the bookings
\* had been given up and was made live again later.
DoubleSaleNeedsOverlap ==
    \A r, q \in Requests :
        r # q /\ Live(r) /\ Live(q) /\ Overlap(r, q)
        => \/ r \in revived \/ q \in revived
           \/ q \notin seen[r] /\ r \notin seen[q]

\* What createBooking promises ("Lock seats atomically", "Double-check seats are
\* not booked"): of the bookings it made, unless one was given up and made live
\* again, no two share a seat.
NoDoubleSale ==
    \A r, q \in Requests :
        /\ r # q /\ Live(r) /\ Live(q)
        /\ locked[r] # {} /\ locked[q] # {}
        /\ r \notin revived /\ q \notin revived
        => ~Overlap(r, q)

\* A call turned away leaves no lock of its own behind, whatever other calls
\* overwrote in between: none in Redis, unless Redis was down when it released;
\* none in seat_locks, unless deleting them failed too or it went on while some of
\* its upserts were still running.
RefusedLeavesNoLock ==
    \A r \in Requests \ Keyed :
        /\ pc[r] \in {"refused", "failed"} /\ r \notin unreleased
           => \A s \in Seats : redis[s] # Token[r]
        /\ pc[r] = "refused" /\ r \notin late
           => \A s \in Seats : dbLock[s] # Token[r]

\* Requests that share an idempotency key leave at most one booking, however
\* their lookups and transactions interleave.
OneBookingPerKey ==
    \A r, q \in Requests :
        r # q /\ SameKey(r, q) => ~(Exists(r) /\ Exists(q))

\* No step of a request makes the Redis lock of another session disappear:
\* only the holder's own release or the time to live does.
OnlyOwnLockReleased ==
    [][\A s \in Seats :
        redis[s] # NoToken /\ redis'[s] = NoToken /\ pc' # pc
        => \E r \in Requests : pc'[r] # pc[r] /\ Token[r] = redis[s]]_vars

\* Every accepted call is answered, also while Redis is unreachable.
EveryCallEnds ==
    \A r \in Requests : pc[r] = "validate" ~> pc[r] \in Ended

=============================================================================
