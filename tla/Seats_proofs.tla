---------------------------- MODULE Seats_proofs ----------------------------
(***************************************************************************)
(* Proofs about SeatReservation, for any seats, requests and tokens, and   *)
(* about Fleet, for any coaches, layouts, calls and customers: the two     *)
(* modules about who has which seat.                                       *)
(***************************************************************************)
EXTENDS SeatReservation, Fleet, FiniteSetTheorems, TLAPS

-----------------------------------------------------------------------------
(* Type correctness *)

LEMMA InitTypeOK == Init => TypeOK
BY TokenAssumption DEF Init, TypeOK, Statuses

LEMMA StepTypeOK == TypeOK /\ [Next]_vars => TypeOK'
<1> SUFFICES ASSUME TypeOK, [Next]_vars PROVE TypeOK'
  OBVIOUS
<1> USE TokenAssumption DEF TypeOK, Statuses, InFlight, Ended, Goto
<1>1. ASSUME NEW r \in Requests, Begin(r) PROVE TypeOK'
  BY <1>1 DEF Begin
<1>2. ASSUME NEW r \in Requests, Step(r) PROVE TypeOK'
  <2>1. CASE Validate(r)
    BY <2>1 DEF Validate
  <2>2. CASE GetLocks(r)
    BY <2>2 DEF GetLocks, Upserting, FreeFor
  <2>3. CASE SetLocks(r)
    BY <2>3 DEF SetLocks, Upserting, Written
  <2>4. CASE ReleaseLocks(r) \/ UnlockRedis(r)
    BY <2>4 DEF ReleaseLocks, UnlockRedis, ReleaseRedis, RedisReleased
  <2>5. CASE UpsertDbLocks(r) \/ UpsertFails(r)
    BY <2>5 DEF UpsertDbLocks, UpsertFails, Written
  <2>6. CASE Price(r) \/ Abort(r)
    BY <2>6 DEF Price, Abort
  <2>7. CASE CheckSeats(r)
    BY <2>7 DEF CheckSeats
  <2>8. CASE Insert(r)
    BY <2>8 DEF Insert
  <2>9. CASE UndoDbLocks(r) \/ UndoFails(r)
    BY <2>9 DEF UndoDbLocks, UndoFails
  <2>10. QED
    BY <1>2, <2>1, <2>2, <2>3, <2>4, <2>5, <2>6, <2>7, <2>8, <2>9 DEF Step
<1>3. ASSUME NEW r \in Requests, LateUpsert(r) \/ Crash(r) \/ SellFromBulk(r)
      PROVE TypeOK'
  BY <1>3 DEF LateUpsert, Crash, SellFromBulk, Written
<1>4. ASSUME NEW b \in Requests, WriteKeepingLocks(b) \/ WriteDroppingLocks(b)
      PROVE TypeOK'
  BY <1>4 DEF WriteKeepingLocks, WriteDroppingLocks, WriteStatus, DbUnlocked, Written
<1>5. ASSUME NEW s \in Seats, RedisLockExpires(s) \/ DbLockSwept(s) PROVE TypeOK'
  BY <1>5 DEF RedisLockExpires, DbLockSwept
<1>6. CASE RedisFlips \/ ScheduleCloses
  BY <1>6 DEF RedisFlips, ScheduleCloses
<1>7. CASE UNCHANGED vars
  BY <1>7 DEF vars
<1>8. QED
  BY <1>1, <1>2, <1>3, <1>4, <1>5, <1>6, <1>7 DEF Next

\* Every variable keeps its type.
THEOREM TypeCorrect == Spec => []TypeOK
BY InitTypeOK, StepTypeOK, PTL DEF Spec

-----------------------------------------------------------------------------
(* Double sale.  A booking exists only behind a finished insert, a snapshot  *)
(* holds only inserted bookings, and from its check on a request knows that  *)
(* no booking of its snapshot occupies its seats unless it is revived.       *)

InsertedIsBooked == \A r \in Requests : booking[r] # "NONE" => pc[r] = "booked"

SeenIsInserted == \A r \in Requests : \A q \in seen[r] : booking[q] # "NONE"

CheckedSeatsWereFree ==
    \A r, q \in Requests :
        pc[r] \in {"insert", "booked"} /\ q \in seen[r] /\ r # q /\ Overlap(r, q)
        => ~Live(q) \/ q \in revived

UncheckedSawNothing == \A r \in Requests : pc[r] = "idle" => seen[r] = {}

SaleInv ==
    /\ TypeOK
    /\ UncheckedSawNothing
    /\ InsertedIsBooked
    /\ SeenIsInserted
    /\ CheckedSeatsWereFree
    /\ DoubleSaleNeedsOverlap

LEMMA InitSaleInv == Init => SaleInv
BY InitTypeOK DEF Init, SaleInv, UncheckedSawNothing, InsertedIsBooked,
   SeenIsInserted, CheckedSeatsWereFree, DoubleSaleNeedsOverlap, Live

\* A step that leaves bookings and snapshots alone and moves a request neither
\* to nor from the places SaleInv speaks of keeps it.
LEMMA SaleFrame ==
  ASSUME SaleInv, TypeOK',
         UNCHANGED <<booking, seen, revived>>,
         \A r \in Requests : pc[r] = "booked" => pc'[r] = "booked",
         \A r \in Requests : pc'[r] = "idle" => pc[r] = "idle",
         \A r \in Requests : pc'[r] \in {"insert", "booked"} => pc'[r] = pc[r],
         \A r \in Requests : pc[r] # "idle" => seatIds'[r] = seatIds[r]
  PROVE  SaleInv'
<1>1. InsertedIsBooked' /\ SeenIsInserted' /\ UncheckedSawNothing'
  BY DEF SaleInv, TypeOK, InsertedIsBooked, SeenIsInserted, UncheckedSawNothing
<1>2. \A r, q \in Requests :
         booking[q] # "NONE" /\ pc'[r] \in {"insert", "booked"} /\ Overlap(r, q)'
         => Overlap(r, q)
  BY DEF SaleInv, InsertedIsBooked, Overlap
<1>3. CheckedSeatsWereFree'
  <2> SUFFICES ASSUME NEW r \in Requests, NEW q \in Requests,
                      pc'[r] \in {"insert", "booked"}, q \in seen[r], r # q,
                      Overlap(r, q)'
               PROVE  ~Live(q) \/ q \in revived
    BY DEF CheckedSeatsWereFree, Live
  <2>1. booking[q] # "NONE" /\ pc[r] \in {"insert", "booked"}
    BY DEF SaleInv, SeenIsInserted
  <2>2. QED
    BY <1>2, <2>1 DEF SaleInv, CheckedSeatsWereFree
<1>4. DoubleSaleNeedsOverlap'
  <2> SUFFICES ASSUME NEW r \in Requests, NEW q \in Requests, r # q,
                      Live(r), Live(q), Overlap(r, q)'
               PROVE  \/ r \in revived \/ q \in revived
                      \/ q \notin seen[r] /\ r \notin seen[q]
    BY DEF DoubleSaleNeedsOverlap, Live
  <2>1. pc[r] = "booked" /\ booking[q] # "NONE"
    BY DEF SaleInv, InsertedIsBooked, Live
  <2>2. Overlap(r, q)
    BY <1>2, <2>1
  <2>3. QED
    BY <2>2 DEF SaleInv, DoubleSaleNeedsOverlap
<1>5. QED
  BY <1>1, <1>3, <1>4 DEF SaleInv

LEMMA CheckSeatsSaleInv ==
  ASSUME SaleInv, TypeOK', NEW r \in Requests, CheckSeats(r)
  PROVE  SaleInv'
<1> USE DEF CheckSeats, Goto, TypeOK, SaleInv, Live, Overlap
<1>1. booking[r] = "NONE" /\ r \notin seen'[r]
  BY DEF InsertedIsBooked
<1>2. InsertedIsBooked' /\ SeenIsInserted' /\ UncheckedSawNothing'
  BY DEF InsertedIsBooked, SeenIsInserted, UncheckedSawNothing
<1>3. CheckedSeatsWereFree'
  BY DEF CheckedSeatsWereFree
<1>4. DoubleSaleNeedsOverlap'
  BY <1>1 DEF DoubleSaleNeedsOverlap
<1>5. QED
  BY <1>2, <1>3, <1>4

LEMMA InsertSaleInv ==
  ASSUME SaleInv, TypeOK', NEW r \in Requests, Insert(r)
  PROVE  SaleInv'
<1> USE DEF Insert, Goto, TypeOK, SaleInv, Live, Overlap
<1>1. booking[r] = "NONE" /\ \A q \in Requests : r \notin seen[q]
  BY DEF InsertedIsBooked, SeenIsInserted
<1>2. InsertedIsBooked' /\ SeenIsInserted' /\ UncheckedSawNothing'
  BY DEF InsertedIsBooked, SeenIsInserted, UncheckedSawNothing
<1>3. CheckedSeatsWereFree'
  BY <1>1 DEF CheckedSeatsWereFree
<1>4. DoubleSaleNeedsOverlap'
  BY <1>1 DEF DoubleSaleNeedsOverlap, CheckedSeatsWereFree
<1>5. QED
  BY <1>2, <1>3, <1>4

LEMMA SellSaleInv ==
  ASSUME SaleInv, TypeOK', NEW r \in Requests, SellFromBulk(r)
  PROVE  SaleInv'
<1> USE DEF SellFromBulk, Goto, TypeOK, SaleInv, Live, Overlap
<1>1. booking[r] = "NONE" /\ seen[r] = {} /\ \A q \in Requests : r \notin seen[q]
  BY DEF InsertedIsBooked, SeenIsInserted, UncheckedSawNothing
<1>2. InsertedIsBooked' /\ SeenIsInserted' /\ UncheckedSawNothing'
  BY DEF InsertedIsBooked, SeenIsInserted, UncheckedSawNothing
<1>3. CheckedSeatsWereFree'
  BY <1>1 DEF CheckedSeatsWereFree
<1>4. DoubleSaleNeedsOverlap'
  BY <1>1 DEF DoubleSaleNeedsOverlap
<1>5. QED
  BY <1>2, <1>3, <1>4

LEMMA WriteStatusSaleInv ==
  ASSUME SaleInv, TypeOK', NEW b \in Requests, NEW written \in Statuses \ {"NONE"},
         WriteStatus(b, written)
  PROVE  SaleInv'
<1> USE DEF WriteStatus, Exists, TypeOK, SaleInv, Live, Overlap
<1>1. InsertedIsBooked' /\ SeenIsInserted' /\ UncheckedSawNothing'
  BY DEF InsertedIsBooked, SeenIsInserted, UncheckedSawNothing
<1>2. CheckedSeatsWereFree'
  BY DEF CheckedSeatsWereFree
<1>3. DoubleSaleNeedsOverlap'
  BY DEF DoubleSaleNeedsOverlap
<1>4. QED
  BY <1>1, <1>2, <1>3

LEMMA NextSaleInv == SaleInv /\ [Next]_vars => SaleInv'
<1> SUFFICES ASSUME SaleInv, [Next]_vars PROVE SaleInv'
  OBVIOUS
<1>t. TypeOK /\ TypeOK'
  BY StepTypeOK DEF SaleInv
<1> USE DEF Goto, TypeOK
<1>1. ASSUME NEW r \in Requests, Begin(r) \/ LateUpsert(r) \/ Crash(r) PROVE SaleInv'
  BY <1>1, <1>t, SaleFrame DEF Begin, LateUpsert, Crash, InFlight
<1>2. ASSUME NEW r \in Requests, Step(r) PROVE SaleInv'
  <2>1. CASE CheckSeats(r)
    BY <2>1, <1>t, CheckSeatsSaleInv
  <2>2. CASE Insert(r)
    BY <2>2, <1>t, InsertSaleInv
  <2>3. CASE \/ Validate(r) \/ GetLocks(r) \/ SetLocks(r) \/ ReleaseLocks(r)
             \/ UpsertDbLocks(r) \/ UpsertFails(r) \/ Price(r) \/ Abort(r)
             \/ UnlockRedis(r) \/ UndoDbLocks(r) \/ UndoFails(r)
    <3>1. UNCHANGED <<booking, seen, revived, seatIds>>
      BY <2>3 DEF Validate, GetLocks, Upserting, SetLocks, ReleaseLocks, UpsertDbLocks,
                  UpsertFails, Price, Abort, UnlockRedis, UndoDbLocks, UndoFails
    <3>2. \E label \in {"get", "refused", "failed", "set", "upsert", "release", "price",
                        "check", "unlock", "undo"} : pc' = [pc EXCEPT ![r] = label]
      BY <2>3 DEF Validate, GetLocks, Upserting, SetLocks, ReleaseLocks, UpsertDbLocks,
                  UpsertFails, Price, Abort, UnlockRedis, UndoDbLocks, UndoFails
    <3>3. pc[r] # "booked"
      BY <2>3 DEF Validate, GetLocks, Upserting, SetLocks, ReleaseLocks, UpsertDbLocks,
                  UpsertFails, Price, Abort, UnlockRedis, UndoDbLocks, UndoFails
    <3>4. QED
      BY <3>1, <3>2, <3>3, <1>t, SaleFrame
  <2>4. QED
    BY <1>2, <2>1, <2>2, <2>3 DEF Step
<1>3. ASSUME NEW b \in Requests, WriteKeepingLocks(b) \/ WriteDroppingLocks(b)
      PROVE SaleInv'
  BY <1>3, <1>t, WriteStatusSaleInv DEF WriteKeepingLocks, WriteDroppingLocks, Statuses
<1>4. ASSUME NEW s \in Seats, RedisLockExpires(s) \/ DbLockSwept(s) PROVE SaleInv'
  BY <1>4, <1>t, SaleFrame DEF RedisLockExpires, DbLockSwept
<1>5. CASE RedisFlips \/ ScheduleCloses \/ UNCHANGED vars
  BY <1>5, <1>t, SaleFrame DEF RedisFlips, ScheduleCloses, vars
<1>6. ASSUME NEW r \in Requests, SellFromBulk(r) PROVE SaleInv'
  BY <1>6, <1>t, SellSaleInv
<1>7. QED
  BY <1>1, <1>2, <1>3, <1>4, <1>5, <1>6 DEF Next

\* Two live bookings share a seat only if neither was seen by the other's check
\* or one of them had been given up and came back.
THEOREM DoubleSale == Spec => []DoubleSaleNeedsOverlap
<1>1. SaleInv => DoubleSaleNeedsOverlap
  BY DEF SaleInv
<1>2. QED
  BY InitSaleInv, NextSaleInv, <1>1, PTL DEF Spec

-----------------------------------------------------------------------------
(* Idempotency key *)

\* Calls with the same idempotency key leave at most one booking.
THEOREM OneBooking == Spec => []OneBookingPerKey
<1>1. Init => OneBookingPerKey
  BY DEF Init, OneBookingPerKey, Exists
<1>2. TypeOK /\ OneBookingPerKey /\ [Next]_vars => OneBookingPerKey'
  <2> SUFFICES ASSUME TypeOK, OneBookingPerKey, [Next]_vars PROVE OneBookingPerKey'
    OBVIOUS
  <2> USE DEF OneBookingPerKey, Exists, SameKey
  <2>1. ASSUME NEW r \in Requests, Insert(r) PROVE OneBookingPerKey'
    BY <2>1 DEF Insert, TypeOK
  <2>2. ASSUME NEW b \in Requests, WriteKeepingLocks(b) \/ WriteDroppingLocks(b)
        PROVE OneBookingPerKey'
    BY <2>2 DEF WriteKeepingLocks, WriteDroppingLocks, WriteStatus, TypeOK
  <2>3. ASSUME NEW r \in Requests, SellFromBulk(r) PROVE OneBookingPerKey'
    BY <2>3 DEF SellFromBulk, TypeOK
  <2>4. CASE UNCHANGED booking
    BY <2>4
  <2>5. QED
    BY <2>1, <2>2, <2>3, <2>4 DEF Next, Step, vars, Begin, Validate, GetLocks, Upserting,
       SetLocks, ReleaseLocks, UpsertDbLocks, UpsertFails, LateUpsert, Price,
       CheckSeats, Abort, UnlockRedis, UndoDbLocks, UndoFails, Crash, RedisLockExpires,
       DbLockSwept, RedisFlips, ScheduleCloses
<1>3. QED
  BY <1>1, <1>2, TypeCorrect, PTL DEF Spec

-----------------------------------------------------------------------------
(* Ownership of the Redis locks *)

\* A request never makes another session's lock disappear.
THEOREM ReleaseOwnLock == Spec => OnlyOwnLockReleased
<1> DEFINE Released(s) == redis[s] # NoToken /\ redis'[s] = NoToken /\ pc' # pc
           Owned(s) == \E r \in Requests : pc'[r] # pc[r] /\ Token[r] = redis[s]
<1>1. TypeOK /\ [Next]_vars => [\A s \in Seats : Released(s) => Owned(s)]_vars
  <2> SUFFICES ASSUME TypeOK, Next, NEW s \in Seats, Released(s) PROVE Owned(s)
    OBVIOUS
  <2> USE TokenAssumption DEF TypeOK
  <2>1. ASSUME NEW r \in Requests, SetLocks(r) PROVE Owned(s)
    BY <2>1 DEF SetLocks, Upserting, Written
  <2>2. ASSUME NEW r \in Requests, ReleaseLocks(r) \/ UnlockRedis(r) PROVE Owned(s)
    <3>1. redis[s] = Token[r]
      BY <2>2 DEF ReleaseLocks, UnlockRedis, ReleaseRedis, RedisReleased
    <3>2. pc'[r] # pc[r]
      BY <2>2 DEF ReleaseLocks, UnlockRedis, Goto
    <3>3. QED
      BY <3>1, <3>2
  <2>3. CASE redis' = redis
    BY <2>3
  <2>4. CASE pc' = pc
    BY <2>4
  <2>5. QED
    BY <2>1, <2>2, <2>3, <2>4 DEF Next, Step, Begin, Validate, GetLocks, Upserting,
       UpsertDbLocks, UpsertFails, LateUpsert, Price, CheckSeats, Insert, Abort,
       UndoDbLocks, UndoFails, Crash, SellFromBulk, WriteKeepingLocks, WriteDroppingLocks,
       WriteStatus, RedisLockExpires,
       DbLockSwept, RedisFlips, ScheduleCloses
<1>2. QED
  BY <1>1, TypeCorrect, PTL DEF Spec, OnlyOwnLockReleased

-----------------------------------------------------------------------------
(* Locks of refused calls.  Where a lock under the token of an unkeyed call  *)
(* can still be found, by the place the call stands at.                      *)

HoldsRedis == {"release", "upsert", "price", "check", "insert", "unlock",
               "booked", "crashed"}

HoldsDb == {"upsert", "price", "check", "insert", "unlock", "undo", "booked",
            "failed", "crashed"}

PastUpsert == {"price", "check", "insert", "unlock", "undo", "booked", "refused",
               "failed", "crashed"}

RedisTrail ==
    \A r \in Requests \ Keyed, s \in Seats :
        redis[s] = Token[r]
        => /\ s \in locked[r]
           /\ pc[r] \in HoldsRedis \/ r \in unreleased

DbTrail ==
    \A r \in Requests \ Keyed, s \in Seats :
        dbLock[s] = Token[r]
        => /\ s \in locked[r]
           /\ pc[r] \in HoldsDb \/ r \in late

LockedWereWanted == \A r \in Requests : locked[r] \subseteq seatIds[r]

\* A call is done locking by the time its release can meet an outage, and no
\* two actions stand between the outage and the end of the call.
UnreleasedIsLeaving ==
    \A r \in unreleased : pc[r] \in {"undo", "refused", "failed", "crashed"}

LateIsPastUpsert == \A r \in late : pc[r] \in PastUpsert

NothingWantedYet == \A r \in Requests : pc[r] = "idle" => locked[r] = {}

LockInv ==
    /\ TypeOK
    /\ RedisTrail
    /\ DbTrail
    /\ LockedWereWanted
    /\ UnreleasedIsLeaving
    /\ LateIsPastUpsert
    /\ NothingWantedYet

LEMMA InitLockInv == Init => LockInv
BY InitTypeOK, TokenAssumption DEF Init, LockInv, RedisTrail, DbTrail,
   LockedWereWanted, UnreleasedIsLeaving, LateIsPastUpsert, NothingWantedYet

LEMMA TokensDiffer ==
  ASSUME NEW r \in Requests \ Keyed, NEW q \in Requests, r # q
  PROVE  Token[q] # Token[r] /\ Token[r] # NoToken
BY TokenAssumption

LEMMA TokenIsALock == \A r \in Requests : Token[r] # NoToken
BY TokenAssumption

\* A step that adds no lock, keeps locked and seatIds of every started call, and
\* lets no call walk away from a lock it can still hold.
LEMMA LockFrame ==
  ASSUME LockInv, TypeOK',
         \A s \in Seats : redis'[s] \in {redis[s], NoToken},
         \A s \in Seats : dbLock'[s] \in {dbLock[s], NoToken},
         UNCHANGED <<locked, unreleased, late>>,
         \A r \in Requests : pc[r] # "idle" => seatIds'[r] = seatIds[r],
         \A r \in Requests : pc'[r] = "idle" => pc[r] = "idle",
         \A r \in Requests : pc[r] \in HoldsRedis => pc'[r] \in HoldsRedis,
         \A r \in Requests : pc[r] \in HoldsDb => pc'[r] \in HoldsDb,
         \A r \in Requests : pc[r] \in PastUpsert => pc'[r] \in PastUpsert,
         \A r \in Requests : pc[r] \in {"undo", "refused", "failed", "crashed"}
                            => pc'[r] \in {"undo", "refused", "failed", "crashed"}
  PROVE  LockInv'
<1>1. RedisTrail'
  BY TokenAssumption DEF LockInv, TypeOK, RedisTrail
<1>2. DbTrail'
  BY TokenAssumption DEF LockInv, TypeOK, DbTrail
<1>3. LockedWereWanted'
  BY DEF LockInv, LockedWereWanted, NothingWantedYet
<1>4. UnreleasedIsLeaving' /\ LateIsPastUpsert' /\ NothingWantedYet'
  BY DEF LockInv, TypeOK, UnreleasedIsLeaving, LateIsPastUpsert, NothingWantedYet
<1>5. QED
  BY <1>1, <1>2, <1>3, <1>4 DEF LockInv

LEMMA StepLockInv ==
  ASSUME LockInv, TypeOK', NEW r \in Requests, Step(r)
  PROVE  LockInv'
<1> USE DEF Goto, LockInv, TypeOK
<1>1. CASE GetLocks(r)
  <2> USE <1>1 DEF GetLocks, Upserting
  <2>1. RedisTrail'
    BY DEF RedisTrail, HoldsRedis, UnreleasedIsLeaving
  <2>2. DbTrail'
    BY DEF DbTrail, HoldsDb, LateIsPastUpsert, PastUpsert
  <2>3. LockedWereWanted'
    BY DEF LockedWereWanted, FreeFor
  <2>4. UnreleasedIsLeaving' /\ LateIsPastUpsert' /\ NothingWantedYet'
    BY DEF UnreleasedIsLeaving, LateIsPastUpsert, NothingWantedYet, PastUpsert
  <2>5. QED
    BY <2>1, <2>2, <2>3, <2>4
<1>2. CASE SetLocks(r)
  <2> USE <1>2 DEF SetLocks, Upserting
  <2>1. RedisTrail'
    BY TokensDiffer DEF RedisTrail, HoldsRedis, Written
  <2>2. DbTrail'
    BY DEF DbTrail, HoldsDb
  <2>3. LockedWereWanted' /\ UnreleasedIsLeaving' /\ NothingWantedYet'
    BY DEF LockedWereWanted, UnreleasedIsLeaving, NothingWantedYet
  <2>4. LateIsPastUpsert'
    BY DEF LateIsPastUpsert, PastUpsert
  <2>5. QED
    BY <2>1, <2>2, <2>3, <2>4
<1>3. CASE UpsertDbLocks(r) \/ UpsertFails(r)
  <2> USE <1>3 DEF UpsertDbLocks, UpsertFails
  <2>1. RedisTrail'
    BY DEF RedisTrail, HoldsRedis
  <2>2. DbTrail'
    BY TokensDiffer DEF DbTrail, HoldsDb, Written
  <2>3. LockedWereWanted' /\ UnreleasedIsLeaving' /\ NothingWantedYet'
    BY DEF LockedWereWanted, UnreleasedIsLeaving, NothingWantedYet
  <2>4. LateIsPastUpsert'
    BY DEF LateIsPastUpsert, PastUpsert
  <2>5. QED
    BY <2>1, <2>2, <2>3, <2>4
<1>4. CASE ReleaseLocks(r) \/ UnlockRedis(r)
  <2> USE <1>4 DEF ReleaseLocks, UnlockRedis, ReleaseRedis
  <2>1. RedisTrail'
    BY TokenAssumption DEF RedisTrail, HoldsRedis, RedisReleased
  <2>2. DbTrail'
    BY DEF DbTrail, HoldsDb
  <2>3. LockedWereWanted' /\ NothingWantedYet'
    BY DEF LockedWereWanted, NothingWantedYet
  <2>4. UnreleasedIsLeaving' /\ LateIsPastUpsert'
    BY DEF UnreleasedIsLeaving, LateIsPastUpsert, PastUpsert
  <2>5. QED
    BY <2>1, <2>2, <2>3, <2>4
<1>5. CASE UndoDbLocks(r)
  <2> USE <1>5 DEF UndoDbLocks
  <2>1. RedisTrail'
    BY DEF RedisTrail, HoldsRedis
  <2>2. DbTrail'
    <3> SUFFICES ASSUME NEW q \in Requests \ Keyed, NEW s \in Seats,
                        dbLock'[s] = Token[q]
                 PROVE  /\ s \in locked[q]
                        /\ pc'[q] \in HoldsDb \/ q \in late'
      BY DEF DbTrail
    <3>1. Token[q] # NoToken
      BY TokenIsALock
    <3>2. dbLock'[s] = IF s \in seatIds[r] /\ dbLock[s] = Token[r]
                       THEN NoToken ELSE dbLock[s]
      OBVIOUS
    <3>3. dbLock[s] = Token[q] /\ ~(s \in seatIds[r] /\ Token[q] = Token[r])
      BY <3>1, <3>2
    <3>4. s \in locked[q] /\ (pc[q] \in HoldsDb \/ q \in late)
      BY <3>3 DEF DbTrail
    <3>5. q # r
      BY <3>3, <3>4 DEF LockedWereWanted
    <3>6. QED
      BY <3>4, <3>5
  <2>3. LockedWereWanted' /\ UnreleasedIsLeaving' /\ NothingWantedYet'
    BY DEF LockedWereWanted, UnreleasedIsLeaving, NothingWantedYet
  <2>4. LateIsPastUpsert'
    BY DEF LateIsPastUpsert, PastUpsert
  <2>5. QED
    BY <2>1, <2>2, <2>3, <2>4
<1>6. CASE \/ Validate(r) \/ Price(r) \/ CheckSeats(r) \/ Insert(r) \/ Abort(r)
           \/ UndoFails(r)
  BY <1>6, LockFrame DEF Validate, Price, CheckSeats, Insert, Abort, UndoFails,
     HoldsRedis, HoldsDb, PastUpsert
<1>7. QED
  BY <1>1, <1>2, <1>3, <1>4, <1>5, <1>6 DEF Step

LEMMA NextLockInv == LockInv /\ [Next]_vars => LockInv'
<1> SUFFICES ASSUME LockInv, [Next]_vars PROVE LockInv'
  OBVIOUS
<1>t. TypeOK /\ TypeOK'
  BY StepTypeOK DEF LockInv
<1> USE DEF Goto, TypeOK, HoldsRedis, HoldsDb, PastUpsert
<1>1. ASSUME NEW r \in Requests, Begin(r) PROVE LockInv'
  BY <1>1, <1>t, LockFrame DEF Begin
<1>2. ASSUME NEW r \in Requests, Step(r) PROVE LockInv'
  BY <1>2, <1>t, StepLockInv
<1>3. ASSUME NEW r \in Requests, Crash(r) \/ SellFromBulk(r) PROVE LockInv'
  BY <1>3, <1>t, LockFrame DEF Crash, SellFromBulk, InFlight
<1>4. ASSUME NEW b \in Requests, WriteKeepingLocks(b) \/ WriteDroppingLocks(b)
      PROVE LockInv'
  BY <1>4, <1>t, LockFrame DEF WriteKeepingLocks, WriteDroppingLocks, WriteStatus,
     DbUnlocked, Written
<1>5. ASSUME NEW s \in Seats, RedisLockExpires(s) \/ DbLockSwept(s) PROVE LockInv'
  BY <1>5, <1>t, LockFrame DEF RedisLockExpires, DbLockSwept
<1>6. CASE RedisFlips \/ ScheduleCloses \/ UNCHANGED vars
  BY <1>6, <1>t, LockFrame DEF RedisFlips, ScheduleCloses, vars
<1>7. ASSUME NEW r \in Requests, LateUpsert(r) PROVE LockInv'
  <2> USE <1>7 DEF LateUpsert
  <2>1. DbTrail'
    BY <1>t, TokensDiffer DEF LockInv, DbTrail, Written
  <2>2. QED
    BY <1>t, <2>1 DEF LockInv, RedisTrail, LockedWereWanted, UnreleasedIsLeaving,
       LateIsPastUpsert, NothingWantedYet
<1>8. QED
  BY <1>1, <1>2, <1>3, <1>4, <1>5, <1>6, <1>7 DEF Next

\* A call turned away without an idempotency key leaves no lock behind: none in
\* Redis unless Redis was down when it released, none in seat_locks unless deleting
\* them failed or it went on with upserts still running.
THEOREM RefusedClean == Spec => []RefusedLeavesNoLock
<1>1. LockInv => RefusedLeavesNoLock
  BY DEF LockInv, RedisTrail, DbTrail, HoldsRedis, HoldsDb, RefusedLeavesNoLock
<1>2. QED
  BY InitLockInv, NextLockInv, <1>1, PTL DEF Spec

-----------------------------------------------------------------------------
(* Fleet.  Two calls about one coach may undo each other's work, which is why *)
(* the invariant says how far a call has come that has its coach to itself.   *)

\* The types of Fleet's variables.
FleetTypeOK ==
    /\ total \in [Coaches -> Nat]
    /\ seats \subseteq CoachSeats
    /\ stage \in [Calls -> {"idle", "clear", "insert", "stamp", "seed", "done"}]
    /\ coach \in [Calls -> Coaches \cup {None}]
    /\ \A c \in Calls : coach[c] = None <=> stage[c] \in {"idle", "done"}
    /\ layout \in [Calls -> SUBSET Labels]
    /\ stamps \subseteq Calls
    /\ trip \in Coaches \cup {None}
    /\ removal \in {"idle", "bookings", "trip"}
    /\ status \in [Customers -> {"none", "live", "over", "deleted"}]
    /\ seatOf \in [Customers -> CoachSeats \cup {None}]
    /\ anchored \in [Customers -> BOOLEAN]
    /\ locks \subseteq CoachSeats
    /\ mixed \in [Calls -> BOOLEAN]
    /\ spoiled \in [Coaches -> BOOLEAN]
    /\ sold \in [Customers -> CoachSeats \cup {None}]
    /\ unchecked \subseteq Customers

\* A coach that does not exist has no seats.
NoCoachNoSeats == \A k \in Coaches : total[k] = 0 => LabelsOf(k) = {}

\* Of two calls about one coach, each is marked.
Mixing ==
    \A c, d \in Calls :
        (c # d /\ coach[c] = coach[d] /\ coach[c] # None) => mixed[c]

CallShape(c) ==
    /\ coach[c] # None => total[coach[c]] > 0
    /\ stage[c] \in {"clear", "insert", "stamp"} => layout[c] \in Layouts
    /\ stage[c] = "seed" => layout[c] \subseteq SeedLayout /\ layout[c] # {}
    /\ c \in stamps => stage[c] \in {"clear", "insert", "stamp"}

\* How far a call that has its coach to itself has come.
CallAlone(c) ==
    /\ (stage[c] \in {"clear", "insert"} /\ c \notin stamps)
          => total[coach[c]] = Cardinality(layout[c])
    /\ stage[c] = "insert" => LabelsOf(coach[c]) = {}
    /\ stage[c] = "stamp" => LabelsOf(coach[c]) = layout[c]
    /\ stage[c] = "seed" =>
          /\ total[coach[c]] = Cardinality(SeedLayout)
          /\ ~spoiled[coach[c]] =>
                /\ LabelsOf(coach[c]) \subseteq SeedLayout
                /\ SeedLayout \ layout[c] \subseteq LabelsOf(coach[c])

CallInv(c) == CallShape(c) /\ (mixed[c] \/ CallAlone(c))

CoachIInv ==
    /\ NoCoachNoSeats
    /\ Mixing
    /\ \A c \in Calls : CallInv(c)
    /\ LayoutWhole

\* The trip has a coach, and whatever is locked or booked is a seat that exists.
SeatsExist ==
    /\ trip # None => total[trip] > 0
    /\ locks \subseteq seats
    /\ \A b \in Customers : seatOf[b] # None => seatOf[b] \in seats

\* A sale that looked at the bookings, and lost nothing since, has the seat it sold.
SoldIsHeld ==
    \A b \in Customers :
        (status[b] = "live" /\ b \notin unchecked)
            => sold[b] # None /\ seatOf[b] = sold[b]

-----------------------------------------------------------------------------
(* Every variable keeps its type *)

\* A layout is a finite set of labels and holds one at least.
LEMMA LayoutFacts ==
    \A L \in Layouts \cup {SeedLayout} :
        /\ L \subseteq Labels /\ L # {} /\ IsFiniteSet(L)
        /\ Cardinality(L) \in Nat /\ Cardinality(L) > 0
<1> SUFFICES ASSUME NEW L \in Layouts \cup {SeedLayout}
             PROVE  /\ L \subseteq Labels /\ L # {} /\ IsFiniteSet(L)
                    /\ Cardinality(L) \in Nat /\ Cardinality(L) > 0
  OBVIOUS
<1>1. L \subseteq Labels /\ L # {} /\ IsFiniteSet(Labels)
  BY LayoutAssumption
<1>2. IsFiniteSet(L)
  BY <1>1, FS_Subset
<1>3. Cardinality(L) \in Nat /\ Cardinality(L) # 0
  BY <1>1, <1>2, FS_CardinalityType, FS_EmptySet
<1>4. QED
  BY <1>1, <1>2, <1>3

\* So is a number of seats that an admin gives the number of some layout's.
LEMMA SizeFacts == Sizes \subseteq Nat \ {0}
BY LayoutFacts DEF Sizes

\* Initially a coach has the seats of the layout it was made with.
LEMMA FleetInitMade ==
    ASSUME FleetInit
    PROVE  \E made \in [Coaches -> Layouts \cup {{}}] :
              /\ total = [k \in Coaches |-> Cardinality(made[k])]
              /\ seats \subseteq CoachSeats
              /\ \A k \in Coaches : LabelsOf(k) = made[k]
<1>1. PICK made \in [Coaches -> Layouts \cup {{}}] :
         /\ total = [k \in Coaches |-> Cardinality(made[k])]
         /\ seats = UNION {Row(k, made[k]) : k \in Coaches}
  BY DEF FleetInit
<1>2. \A k \in Coaches : made[k] \subseteq Labels
  BY LayoutFacts
<1>3. seats \subseteq CoachSeats
  BY <1>1, <1>2 DEF Row, CoachSeats
<1>4. ASSUME NEW k \in Coaches PROVE LabelsOf(k) = made[k]
  BY <1>1, <1>2 DEF Row, LabelsOf
<1>5. QED
  BY <1>1, <1>3, <1>4

LEMMA FleetInitTypeOK == FleetInit => FleetTypeOK
<1> SUFFICES ASSUME FleetInit PROVE FleetTypeOK
  OBVIOUS
<1>1. PICK made \in [Coaches -> Layouts \cup {{}}] :
         total = [k \in Coaches |-> Cardinality(made[k])] /\ seats \subseteq CoachSeats
  BY FleetInitMade
<1>2. \A k \in Coaches : Cardinality(made[k]) \in Nat
  <2>1. Cardinality({}) = 0
    BY FS_EmptySet
  <2>2. \A L \in Layouts \cup {{}} : Cardinality(L) \in Nat
    BY <2>1, LayoutFacts
  <2>3. QED
    BY <2>2
<1>3. total \in [Coaches -> Nat]
  BY <1>1, <1>2
<1>4. QED
  BY <1>1, <1>3 DEF FleetInit, FleetTypeOK


LEMMA CoachTypeOK ==
    ASSUME FleetTypeOK, NEW c \in Calls, CoachStep(c)
    PROVE  FleetTypeOK'
<1> USE DEF FleetTypeOK, sales, bookings
<1> Managed \subseteq Coaches /\ None \notin Coaches
  BY LayoutAssumption
<1>1. ASSUME NEW k \in Managed, NEW L \in Layouts, GenerateSeats(c, k, L)
      PROVE  FleetTypeOK'
  BY <1>1, LayoutFacts DEF GenerateSeats, Starts
<1>2. ASSUME NEW k \in Managed, NEW L \in Layouts, NEW n \in Sizes,
             CreateCoach(c, k, L, n)
      PROVE  FleetTypeOK'
  BY <1>2, LayoutFacts, SizeFacts DEF CreateCoach, Starts
<1>3. ASSUME NEW k \in Managed, NEW L \in Layouts, NEW n \in Sizes,
             UpdateCoach(c, k, L, n)
      PROVE  FleetTypeOK'
  BY <1>3, LayoutFacts, SizeFacts DEF UpdateCoach, Starts
<1>4. ASSUME NEW k \in Managed, SeedCoach(c, k)
      PROVE  FleetTypeOK'
  BY <1>4, LayoutFacts DEF SeedCoach, Starts
<1>5. CASE Clear(c)
  <2>1. CASE \E b \in Customers : seatOf[b] \in Row(coach[c], Labels) \cap seats
    BY <1>5, <2>1 DEF Clear, Ends
  <2>2. CASE ~\E b \in Customers : seatOf[b] \in Row(coach[c], Labels) \cap seats
    BY <1>5, <2>2 DEF Clear
  <2>3. QED
    BY <2>1, <2>2
<1>6. CASE InsertSeats(c)
  <2>1. coach[c] \in Coaches
    BY <1>6 DEF InsertSeats
  <2>2. Row(coach[c], layout[c]) \subseteq CoachSeats
    BY <2>1 DEF Row, CoachSeats
  <2>3. CASE Ends(c, TRUE) \/ Ends(c, FALSE)
    BY <1>6, <2>1, <2>2, <2>3 DEF InsertSeats, Ends
  <2>4. CASE stage' = [stage EXCEPT ![c] = "stamp"] /\ UNCHANGED <<coach, layout, stamps, mixed, spoiled>>
    BY <1>6, <2>1, <2>2, <2>4 DEF InsertSeats
  <2>5. QED
    BY <1>6, <2>3, <2>4 DEF InsertSeats
<1>7. CASE Stamp(c)
  <2>1. Cardinality(layout[c]) \in Nat
    BY LayoutAssumption, FS_Subset, FS_CardinalityType
  <2>2. QED
    BY <1>7, <2>1 DEF Stamp, Ends
<1>8. ASSUME NEW l \in Labels, SeedSeat(c, l) PROVE FleetTypeOK'
  <2>1. coach[c] \in Coaches /\ <<coach[c], l>> \in CoachSeats
    BY <1>8 DEF SeedSeat, CoachSeats
  <2>2. CASE layout[c] = {l}
    <3>1. Ends(c, ~spoiled[coach[c]]) /\ UNCHANGED <<total, sales, locks>>
      BY <1>8, <2>2 DEF SeedSeat
    <3>2. seats' \subseteq CoachSeats
      BY <1>8, <2>1 DEF SeedSeat
    <3>3. QED
      BY <2>1, <3>1, <3>2 DEF Ends
  <2>3. CASE layout[c] # {l}
    BY <1>8, <2>1, <2>3 DEF SeedSeat
  <2>4. QED
    BY <2>2, <2>3
<1>9. CASE Dies(c)
  BY <1>9 DEF Dies, Ends
<1>10. QED
  BY <1>1, <1>2, <1>3, <1>4, <1>5, <1>6, <1>7, <1>8, <1>9 DEF CoachStep

LEMMA SalesTypeOK ==
    ASSUME FleetTypeOK,
           \/ TripStep \/ LockExpires
           \/ \E x \in seats \cap Named : LockSeat(x)
           \/ \E b \in Customers : CustomerStep(b)
    PROVE  FleetTypeOK'
<1> USE DEF FleetTypeOK, fleet, calls, sales, bookings
<1> Named \subseteq CoachSeats
  BY LayoutAssumption
<1>1. ASSUME NEW k \in Coaches, SwapCoach(k) PROVE FleetTypeOK'
  BY <1>1 DEF SwapCoach
<1>2. CASE RemoveEmpty \/ StripBookings \/ RemoveTrip \/ RemovalDies
  BY <1>2 DEF RemoveEmpty, StripBookings, RemoveTrip, RemovalDies
<1>3. CASE RemoveBookings
  BY <1>3 DEF RemoveBookings, Deletes
<1>4. CASE LockExpires
  BY <1>4 DEF LockExpires
<1>5. ASSUME NEW x \in seats \cap Named, LockSeat(x) PROVE FleetTypeOK'
  BY <1>5 DEF LockSeat
<1>6. ASSUME NEW b \in Customers, NEW x \in seats \cap Named, Book(b, x) PROVE FleetTypeOK'
  BY <1>6 DEF Book
<1>7. ASSUME NEW b \in Customers, NEW x \in Named, AgentSells(b, x) PROVE FleetTypeOK'
  BY <1>7 DEF AgentSells, CoachSeats
<1>8. ASSUME NEW b \in Customers, Pay(b) \/ Revive(b) \/ DeleteBooking(b) PROVE FleetTypeOK'
  BY <1>8 DEF Pay, Revive, DeleteBooking, Deletes
<1>9. ASSUME NEW b \in Customers, Over(b) PROVE FleetTypeOK'
  BY <1>9 DEF Over
<1>10. QED
  BY <1>1, <1>2, <1>3, <1>4, <1>5, <1>6, <1>7, <1>8, <1>9 DEF TripStep, CustomerStep

LEMMA FleetStepTypeOK == FleetTypeOK /\ [FleetNext]_fleetVars => FleetTypeOK'
<1> SUFFICES ASSUME FleetTypeOK, [FleetNext]_fleetVars PROVE FleetTypeOK'
  OBVIOUS
<1>1. CASE FleetNext
  BY <1>1, CoachTypeOK, SalesTypeOK DEF FleetNext
<1>2. CASE UNCHANGED fleetVars
  BY <1>2 DEF FleetTypeOK, fleetVars, fleet, calls, sales, bookings
<1>3. QED
  BY <1>1, <1>2

-----------------------------------------------------------------------------
(* The seats of a coach that no call is about are whole *)

\* Any coach is whole, or has a call about it, or was spoiled.
WholeAt(k) ==
    (Busy(k) = {} /\ ~spoiled[k] /\ total[k] > 0)
        => LabelsOf(k) \in Layouts \cup {SeedLayout} /\ total[k] = Cardinality(LabelsOf(k))

LEMMA LayoutWholeIs == LayoutWhole <=> \A k \in Coaches : WholeAt(k)
BY DEF LayoutWhole, WholeAt

LEMMA FleetInitCoach == FleetInit => CoachIInv
<1> SUFFICES ASSUME FleetInit PROVE CoachIInv
  OBVIOUS
<1>1. PICK made \in [Coaches -> Layouts \cup {{}}] :
         /\ total = [k \in Coaches |-> Cardinality(made[k])]
         /\ \A k \in Coaches : LabelsOf(k) = made[k]
  BY FleetInitMade
<1>2. Cardinality({}) = 0
  BY FS_EmptySet
<1>3. NoCoachNoSeats
  BY <1>1, LayoutFacts DEF NoCoachNoSeats
<1>4. Mixing /\ \A c \in Calls : CallInv(c)
  BY DEF FleetInit, Mixing, CallInv, CallShape, CallAlone
<1>5. \A k \in Coaches : WholeAt(k)
  BY <1>1, <1>2 DEF WholeAt
<1>6. QED
  BY <1>3, <1>4, <1>5, LayoutWholeIs DEF CoachIInv

\* A step of c, about coach k, leaves the other coaches alone.
Elsewhere(k) ==
    \A j \in Coaches : j # k =>
        total'[j] = total[j] /\ LabelsOf(j)' = LabelsOf(j) /\ spoiled'[j] = spoiled[j]

\* What it does not take part in keeps its state: calls about other coaches, and
\* these coaches themselves.
LEMMA OtherCalls ==
    ASSUME FleetTypeOK, CoachIInv, NEW c \in Calls, NEW k \in Coaches, NEW d \in Calls,
           d # c, Elsewhere(k), total'[k] \in Nat, total'[k] > 0,
           stage'[d] = stage[d], coach'[d] = coach[d], layout'[d] = layout[d],
           d \in stamps' <=> d \in stamps, mixed[d] => mixed'[d],
           coach[d] = k => mixed'[d]
    PROVE  CallInv(d)'
<1>1. CallInv(d)
  BY DEF CoachIInv
<1>2. CASE coach[d] = k
  BY <1>1, <1>2 DEF CallInv, CallShape
<1>3. CASE coach[d] # k /\ coach[d] # None
  <2>1. PICK j \in Coaches : j = coach[d] /\ j # k
    BY <1>3 DEF FleetTypeOK
  <2>2. /\ total'[j] = total[j] /\ LabelsOf(j)' = LabelsOf(j) /\ spoiled'[j] = spoiled[j]
    BY <2>1 DEF Elsewhere
  <2>3. /\ LabelsOf(coach[d])' = LabelsOf(j)'
        /\ total'[coach'[d]] = total'[j] /\ spoiled'[coach'[d]] = spoiled'[j]
    BY <2>1 DEF LabelsOf
  <2>4. CallShape(d)'
    BY <1>1, <2>1, <2>2, <2>3 DEF CallInv, CallShape
  <2>5. mixed[d] \/ CallAlone(d)'
    BY <1>1, <2>1, <2>2, <2>3 DEF CallInv, CallAlone
  <2>6. QED
    BY <2>4, <2>5 DEF CallInv
<1>4. CASE coach[d] = None
  BY <1>1, <1>4 DEF CallInv, CallShape, CallAlone, FleetTypeOK
<1>5. QED
  BY <1>2, <1>3, <1>4

LEMMA OtherCoaches ==
    ASSUME FleetTypeOK, CoachIInv, NEW k \in Coaches, Elsewhere(k),
           \A j \in Coaches : j # k => Busy(j)' = Busy(j),
           total'[k] \in Nat, total'[k] > 0,
           WholeAt(k)'
    PROVE  NoCoachNoSeats' /\ LayoutWhole'
<1>1. ASSUME NEW j \in Coaches, j # k PROVE WholeAt(j)'
  BY <1>1, LayoutWholeIs DEF WholeAt, CoachIInv, Elsewhere
<1>2. ASSUME NEW j \in Coaches PROVE WholeAt(j)'
  BY <1>1, <1>2
<1>3. LayoutWhole'
  BY <1>2 DEF LayoutWhole, WholeAt
<1>4. NoCoachNoSeats'
  BY DEF NoCoachNoSeats, CoachIInv, Elsewhere
<1>5. QED
  BY <1>3, <1>4

\* A call starts.
LEMMA CallStarts ==
    ASSUME FleetTypeOK, CoachIInv, NEW c \in Calls, NEW k \in Coaches,
           NEW step, NEW L, NEW agree, Starts(c, k, step, L, agree),
           Elsewhere(k), total'[k] \in Nat, total'[k] > 0,
           stamps' \in {stamps, stamps \cup {c}},
           CallShape(c)', Busy(k) = {} /\ agree => CallAlone(c)'
    PROVE  CoachIInv'
<1> None \notin Coaches
  BY LayoutAssumption
<1>1. /\ stage[c] = "idle" /\ coach[c] = None
      /\ coach' = [coach EXCEPT ![c] = k]
      /\ mixed' = [d \in Calls |-> IF d = c THEN Busy(k) # {} \/ ~agree
                                   ELSE mixed[d] \/ d \in Busy(k)]
  BY DEF Starts, FleetTypeOK
<1>2. ASSUME NEW d \in Calls, d # c PROVE CallInv(d)'
  <2>1. /\ stage'[d] = stage[d] /\ coach'[d] = coach[d] /\ layout'[d] = layout[d]
        /\ d \in stamps' <=> d \in stamps
    BY <1>2 DEF Starts, FleetTypeOK
  <2>2. (mixed[d] => mixed'[d]) /\ (coach[d] = k => mixed'[d])
    BY <1>1, <1>2 DEF Busy
  <2>3. QED
    BY <1>2, <2>1, <2>2, OtherCalls
<1>3. CallInv(c)'
  BY <1>1 DEF CallInv
<1>4. Mixing'
  <2> SUFFICES ASSUME NEW d \in Calls, NEW e \in Calls, d # e,
                      coach'[d] = coach'[e], coach'[d] # None
               PROVE  mixed'[d]
    BY DEF Mixing
  <2>1. CASE d = c
    BY <1>1, <2>1 DEF Busy, FleetTypeOK
  <2>2. CASE e = c
    BY <1>1, <2>2 DEF Busy, FleetTypeOK
  <2>3. CASE d # c /\ e # c
    BY <1>1, <2>3 DEF CoachIInv, Mixing, FleetTypeOK
  <2>4. QED
    BY <2>1, <2>2, <2>3
<1>5. WholeAt(k)'
  <2>1. c \in Busy(k)'
    BY <1>1 DEF Busy, FleetTypeOK
  <2>2. QED
    BY <2>1 DEF WholeAt
<1>6. \A j \in Coaches : j # k => Busy(j)' = Busy(j)
  BY <1>1 DEF Busy, FleetTypeOK
<1>7. NoCoachNoSeats' /\ LayoutWhole'
  BY <1>5, <1>6, OtherCoaches
<1>8. QED
  BY <1>2, <1>3, <1>4, <1>7 DEF CoachIInv

\* A call goes on.
LEMMA CallGoesOn ==
    ASSUME FleetTypeOK, CoachIInv, NEW c \in Calls, NEW k \in Coaches, coach[c] = k,
           UNCHANGED <<coach, stamps, mixed, spoiled, total>>, Elsewhere(k),
           \A d \in Calls : d # c => stage'[d] = stage[d] /\ layout'[d] = layout[d],
           CallShape(c)', ~mixed[c] => CallAlone(c)'
    PROVE  CoachIInv'
<1> None \notin Coaches
  BY LayoutAssumption
<1>1. total[k] \in Nat /\ total[k] > 0
  BY DEF CoachIInv, CallInv, CallShape, FleetTypeOK
<1>2. ASSUME NEW d \in Calls, d # c PROVE CallInv(d)'
  <2>1. coach[d] = k => mixed[d]
    BY <1>2 DEF CoachIInv, Mixing
  <2>2. QED
    BY <1>1, <1>2, <2>1, OtherCalls
<1>3. CallInv(c)'
  BY DEF CallInv
<1>4. Mixing'
  BY DEF CoachIInv, Mixing
<1>5. WholeAt(k)'
  <2>1. c \in Busy(k)'
    BY DEF Busy
  <2>2. QED
    BY <2>1 DEF WholeAt
<1>6. \A j \in Coaches : j # k => Busy(j)' = Busy(j)
  BY DEF Busy
<1>7. NoCoachNoSeats' /\ LayoutWhole'
  BY <1>1, <1>5, <1>6, OtherCoaches
<1>8. QED
  BY <1>2, <1>3, <1>4, <1>7 DEF CoachIInv

\* A call ends: if it did what it set out to do, alone, its coach must be whole.
LEMMA CallEnds ==
    ASSUME FleetTypeOK, CoachIInv, NEW c \in Calls, NEW k \in Coaches, coach[c] = k,
           NEW well \in BOOLEAN, Ends(c, well),
           \A j \in Coaches : j # k => total'[j] = total[j] /\ LabelsOf(j)' = LabelsOf(j),
           total'[k] \in Nat, total'[k] > 0,
           (well /\ ~mixed[c]) => /\ LabelsOf(k)' \in Layouts \cup {SeedLayout}
                                  /\ total'[k] = Cardinality(LabelsOf(k)')
    PROVE  CoachIInv'
<1> None \notin Coaches
  BY LayoutAssumption
<1>1. /\ stage' = [stage EXCEPT ![c] = "done"]
      /\ coach' = [coach EXCEPT ![c] = None]
      /\ layout' = [layout EXCEPT ![c] = {}]
      /\ stamps' = stamps \ {c}
      /\ mixed' = [mixed EXCEPT ![c] = FALSE]
      /\ spoiled' = [spoiled EXCEPT ![k] = ~well \/ mixed[c]]
  BY DEF Ends
<1>2. Elsewhere(k)
  BY <1>1 DEF Elsewhere, FleetTypeOK
<1>3. ASSUME NEW d \in Calls, d # c PROVE CallInv(d)'
  <2>1. /\ stage'[d] = stage[d] /\ coach'[d] = coach[d] /\ layout'[d] = layout[d]
        /\ d \in stamps' <=> d \in stamps
        /\ mixed'[d] = mixed[d]
    BY <1>1, <1>3 DEF FleetTypeOK
  <2>2. coach[d] = k => mixed[d]
    BY <1>3 DEF CoachIInv, Mixing
  <2>3. QED
    BY <1>2, <1>3, <2>1, <2>2, OtherCalls
<1>4. CallInv(c)'
  BY <1>1 DEF CallInv, CallShape, CallAlone, FleetTypeOK
<1>5. Mixing'
  BY <1>1 DEF CoachIInv, Mixing, FleetTypeOK
<1>6. WholeAt(k)'
  BY <1>1 DEF WholeAt, FleetTypeOK
<1>7. \A j \in Coaches : j # k => Busy(j)' = Busy(j)
  BY <1>1 DEF Busy, FleetTypeOK
<1>8. NoCoachNoSeats' /\ LayoutWhole'
  BY <1>2, <1>6, <1>7, OtherCoaches
<1>9. QED
  BY <1>3, <1>4, <1>5, <1>8 DEF CoachIInv

\* create, update and generateSeatsForCoach begin.
LEMMA AdminStarts ==
    ASSUME FleetTypeOK, CoachIInv, NEW c \in Calls, NEW k \in Managed, NEW L \in Layouts,
           \/ GenerateSeats(c, k, L)
           \/ \E n \in Sizes : CreateCoach(c, k, L, n) \/ UpdateCoach(c, k, L, n)
    PROVE  CoachIInv'
<1> k \in Coaches /\ None \notin Coaches
  BY LayoutAssumption
<1>1. CASE GenerateSeats(c, k, L)
  <2>1. /\ Starts(c, k, "clear", L, TRUE) /\ stamps' = stamps \cup {c}
        /\ total' = total /\ seats' = seats /\ spoiled' = spoiled
        /\ total[k] \in Nat /\ total[k] > 0
    BY <1>1 DEF GenerateSeats, FleetTypeOK
  <2>2. Elsewhere(k)
    BY <2>1 DEF Elsewhere, LabelsOf
  <2>3. stage'[c] = "clear" /\ coach'[c] = k /\ layout'[c] = L
    BY <2>1 DEF Starts, FleetTypeOK
  <2>4. CallShape(c)' /\ CallAlone(c)'
    BY <2>1, <2>3 DEF CallShape, CallAlone
  <2>5. QED
    BY <2>1, <2>2, <2>4, CallStarts
<1>2. ASSUME NEW n \in Sizes, CreateCoach(c, k, L, n)
      PROVE  CoachIInv'
  <2>1. /\ Starts(c, k, "insert", L, n = Cardinality(L)) /\ stamps' = stamps
        /\ total' = [total EXCEPT ![k] = n] /\ seats' = seats /\ spoiled' = spoiled
        /\ total[k] = 0
    BY <1>2 DEF CreateCoach
  <2>2. Elsewhere(k)
    BY <2>1 DEF Elsewhere, LabelsOf, FleetTypeOK
  <2>3. total'[k] = n /\ n \in Nat /\ n > 0
    BY <2>1, SizeFacts DEF FleetTypeOK
  <2>4. stage'[c] = "insert" /\ coach'[c] = k /\ layout'[c] = L
    BY <2>1 DEF Starts, FleetTypeOK
  <2>5. c \notin stamps
    BY <2>1 DEF Starts, CoachIInv, CallInv, CallShape
  <2>6. LabelsOf(coach[c])' = {}
    BY <2>1, <2>4 DEF CoachIInv, NoCoachNoSeats, LabelsOf
  <2>7. CallShape(c)'
    BY <2>1, <2>3, <2>4, <2>5 DEF CallShape
  <2>8. n = Cardinality(L) => CallAlone(c)'
    BY <2>1, <2>3, <2>4, <2>6 DEF CallAlone
  <2>9. QED
    BY <2>1, <2>2, <2>3, <2>7, <2>8, CallStarts
<1>3. ASSUME NEW n \in Sizes, UpdateCoach(c, k, L, n)
      PROVE  CoachIInv'
  <2>1. /\ Starts(c, k, "clear", L, n = Cardinality(L)) /\ stamps' = stamps
        /\ total' = [total EXCEPT ![k] = n] /\ seats' = seats /\ spoiled' = spoiled
    BY <1>3 DEF UpdateCoach
  <2>2. Elsewhere(k)
    BY <2>1 DEF Elsewhere, LabelsOf, FleetTypeOK
  <2>3. total'[k] = n /\ n \in Nat /\ n > 0
    BY <2>1, SizeFacts DEF FleetTypeOK
  <2>4. stage'[c] = "clear" /\ coach'[c] = k /\ layout'[c] = L
    BY <2>1 DEF Starts, FleetTypeOK
  <2>5. CallShape(c)'
    BY <2>1, <2>3, <2>4 DEF CallShape
  <2>6. n = Cardinality(L) => CallAlone(c)'
    BY <2>1, <2>3, <2>4 DEF CallAlone
  <2>7. QED
    BY <2>1, <2>2, <2>3, <2>5, <2>6, CallStarts
<1>4. QED
  BY <1>1, <1>2, <1>3

LEMMA SeedStarts ==
    ASSUME FleetTypeOK, CoachIInv, NEW c \in Calls, NEW k \in Managed, SeedCoach(c, k)
    PROVE  CoachIInv'
<1> k \in Coaches /\ None \notin Coaches
  BY LayoutAssumption
<1>1. /\ Starts(c, k, "seed", SeedLayout, TRUE) /\ stamps' = stamps /\ seats' = seats
      /\ total' = [total EXCEPT ![k] = Cardinality(SeedLayout)]
      /\ spoiled' = [spoiled EXCEPT ![k] = @ \/ ~(LabelsOf(k) \subseteq SeedLayout)]
  BY DEF SeedCoach
<1>2. Elsewhere(k)
  BY <1>1 DEF Elsewhere, LabelsOf, FleetTypeOK
<1>3. total'[k] = Cardinality(SeedLayout) /\ total'[k] \in Nat /\ total'[k] > 0
  BY <1>1, LayoutFacts DEF FleetTypeOK
<1>4. stage'[c] = "seed" /\ coach'[c] = k /\ layout'[c] = SeedLayout
  BY <1>1 DEF Starts, FleetTypeOK
<1>5. c \notin stamps
  BY <1>1 DEF Starts, CoachIInv, CallInv, CallShape
<1>6. CallShape(c)'
  BY <1>1, <1>3, <1>4, <1>5, LayoutFacts DEF CallShape
<1>7. LabelsOf(coach[c])' = LabelsOf(k)
  BY <1>1, <1>4 DEF LabelsOf
<1>8. ~spoiled'[k] => LabelsOf(k) \subseteq SeedLayout
  BY <1>1 DEF FleetTypeOK
<1>9. CallAlone(c)'
  BY <1>3, <1>4, <1>7, <1>8 DEF CallAlone
<1>10. QED
  BY <1>1, <1>2, <1>3, <1>6, <1>9, CallStarts

LEMMA ClearKeeps ==
    ASSUME FleetTypeOK, CoachIInv, NEW c \in Calls, Clear(c)
    PROVE  CoachIInv'
<1>1. PICK k \in Coaches : k = coach[c]
  BY DEF Clear, FleetTypeOK
<1> DEFINE old == Row(k, Labels) \cap seats
<1>2. CallInv(c) /\ stage[c] = "clear" /\ total' = total
  BY DEF CoachIInv, Clear
<1>3. total[k] \in Nat /\ total[k] > 0
  BY <1>1, <1>2, LayoutAssumption DEF CallInv, CallShape, FleetTypeOK
<1>4. CASE Ends(c, FALSE) /\ seats' = seats
  <2>1. \A j \in Coaches : j # k => total'[j] = total[j] /\ LabelsOf(j)' = LabelsOf(j)
    BY <1>2, <1>4 DEF LabelsOf
  <2>2. QED
    BY <1>1, <1>2, <1>3, <1>4, <2>1, CallEnds
<1>5. CASE /\ seats' = seats \ old
           /\ stage' = [stage EXCEPT ![c] = "insert"]
           /\ UNCHANGED <<coach, layout, stamps, mixed, spoiled>>
  <2>1. Elsewhere(k)
    BY <1>2, <1>5 DEF Elsewhere, LabelsOf, Row
  <2>2. LabelsOf(coach[c])' = {}
    BY <1>1, <1>5 DEF LabelsOf, Row
  <2>3. /\ stage'[c] = "insert"
        /\ \A d \in Calls : d # c => stage'[d] = stage[d] /\ layout'[d] = layout[d]
    BY <1>5 DEF FleetTypeOK
  <2>4. CallShape(c)'
    BY <1>2, <1>5, <2>3 DEF CallInv, CallShape
  <2>5. ~mixed[c] => CallAlone(c)'
    BY <1>2, <1>5, <2>2, <2>3 DEF CallInv, CallAlone
  <2>6. QED
    BY <1>1, <1>2, <1>5, <2>1, <2>3, <2>4, <2>5, CallGoesOn
<1>6. QED
  BY <1>1, <1>4, <1>5 DEF Clear

LEMMA InsertSeatsKeeps ==
    ASSUME FleetTypeOK, CoachIInv, NEW c \in Calls, InsertSeats(c)
    PROVE  CoachIInv'
<1>1. PICK k \in Coaches : k = coach[c]
  BY DEF InsertSeats, FleetTypeOK
<1> DEFINE clash == LabelsOf(k) \cap layout[c] # {}
<1>2. /\ CallInv(c) /\ stage[c] = "insert" /\ total' = total
      /\ seats' = IF clash THEN seats ELSE seats \cup Row(k, layout[c])
  BY <1>1 DEF CoachIInv, InsertSeats
<1>3. total[k] \in Nat /\ total[k] > 0
  BY <1>1, <1>2, LayoutAssumption DEF CallInv, CallShape, FleetTypeOK
<1>4. layout[c] \in Layouts /\ layout[c] \subseteq Labels
  BY <1>2 DEF CallInv, CallShape, FleetTypeOK
<1>5. \A j \in Coaches : j # k => total'[j] = total[j] /\ LabelsOf(j)' = LabelsOf(j)
  BY <1>2 DEF LabelsOf, Row
<1>6. ~mixed[c] => ~clash /\ LabelsOf(k)' = layout[c]
  <2>1. ~mixed[c] => LabelsOf(k) = {}
    BY <1>1, <1>2 DEF CallInv, CallAlone
  <2>2. ~mixed[c] => seats' = seats \cup Row(k, layout[c])
    BY <1>2, <2>1
  <2>3. ~mixed[c] => LabelsOf(k)' = layout[c]
    BY <1>4, <2>1, <2>2 DEF LabelsOf, Row
  <2>4. QED
    BY <2>1, <2>3
<1>7. CASE (clash \/ c \notin stamps) /\ Ends(c, ~clash)
  <2>1. (~clash /\ ~mixed[c]) => total[k] = Cardinality(layout[c])
    BY <1>1, <1>2, <1>7 DEF CallInv, CallAlone
  <2>2. (~clash /\ ~mixed[c]) => /\ LabelsOf(k)' \in Layouts \cup {SeedLayout}
                                 /\ total'[k] = Cardinality(LabelsOf(k)')
    BY <1>2, <1>4, <1>6, <2>1
  <2>3. (~clash) \in BOOLEAN
    OBVIOUS
  <2> HIDE DEF clash
  <2>4. QED
    BY <1>1, <1>2, <1>3, <1>5, <1>7, <2>2, <2>3, CallEnds
<1>8. CASE /\ ~clash /\ c \in stamps
           /\ stage' = [stage EXCEPT ![c] = "stamp"]
           /\ UNCHANGED <<coach, layout, stamps, mixed, spoiled>>
  <2>1. Elsewhere(k)
    BY <1>5, <1>8 DEF Elsewhere
  <2>2. ~mixed[c] => LabelsOf(coach[c])' = layout[c]
    BY <1>1, <1>6, <1>8 DEF LabelsOf
  <2>3. /\ stage'[c] = "stamp"
        /\ \A d \in Calls : d # c => stage'[d] = stage[d] /\ layout'[d] = layout[d]
    BY <1>8 DEF FleetTypeOK
  <2>4. CallShape(c)'
    BY <1>2, <1>8, <2>3 DEF CallInv, CallShape
  <2>5. ~mixed[c] => CallAlone(c)'
    BY <1>8, <2>2, <2>3 DEF CallAlone
  <2>6. QED
    BY <1>1, <1>2, <1>8, <2>1, <2>3, <2>4, <2>5, CallGoesOn
<1>9. QED
  BY <1>1, <1>7, <1>8 DEF InsertSeats

LEMMA StampKeeps ==
    ASSUME FleetTypeOK, CoachIInv, NEW c \in Calls, Stamp(c)
    PROVE  CoachIInv'
<1>1. PICK k \in Coaches : k = coach[c]
  BY DEF Stamp, FleetTypeOK
<1>2. /\ CallInv(c) /\ stage[c] = "stamp" /\ seats' = seats
      /\ total' = [total EXCEPT ![k] = Cardinality(layout[c])]
      /\ Ends(c, TRUE)
  BY <1>1 DEF CoachIInv, Stamp
<1>3. layout[c] \in Layouts
  BY <1>2 DEF CallInv, CallShape
<1>4. total'[k] = Cardinality(layout[c]) /\ total'[k] \in Nat /\ total'[k] > 0
  BY <1>2, <1>3, LayoutFacts DEF FleetTypeOK
<1>5. \A j \in Coaches : j # k => total'[j] = total[j] /\ LabelsOf(j)' = LabelsOf(j)
  BY <1>2 DEF LabelsOf, FleetTypeOK
<1>6. ~mixed[c] => LabelsOf(k)' = layout[c]
  BY <1>1, <1>2 DEF CallInv, CallAlone, LabelsOf
<1>7. ~mixed[c] => /\ LabelsOf(k)' \in Layouts \cup {SeedLayout}
                   /\ total'[k] = Cardinality(LabelsOf(k)')
  BY <1>3, <1>4, <1>6
<1>8. QED
  BY <1>1, <1>2, <1>4, <1>5, <1>7, CallEnds

LEMMA SeedSeatKeeps ==
    ASSUME FleetTypeOK, CoachIInv, NEW c \in Calls, NEW l \in Labels, SeedSeat(c, l)
    PROVE  CoachIInv'
<1>1. PICK k \in Coaches : k = coach[c]
  BY DEF SeedSeat, FleetTypeOK
<1>2. /\ CallInv(c) /\ stage[c] = "seed" /\ l \in layout[c]
      /\ total' = total /\ seats' = seats \cup {<<k, l>>}
  BY <1>1 DEF CoachIInv, SeedSeat
<1>3. /\ total[k] \in Nat /\ total[k] > 0
      /\ layout[c] \subseteq SeedLayout /\ c \notin stamps
  BY <1>1, <1>2, LayoutAssumption DEF CallInv, CallShape, FleetTypeOK
<1>4. \A j \in Coaches : j # k => total'[j] = total[j] /\ LabelsOf(j)' = LabelsOf(j)
  BY <1>2 DEF LabelsOf
<1>5. LabelsOf(k)' = LabelsOf(k) \cup {l}
  BY <1>2 DEF LabelsOf
<1>6. ~mixed[c] =>
         /\ total[k] = Cardinality(SeedLayout)
         /\ ~spoiled[k] => /\ LabelsOf(k) \subseteq SeedLayout
                           /\ SeedLayout \ layout[c] \subseteq LabelsOf(k)
  BY <1>1, <1>2 DEF CallInv, CallAlone
<1>7. CASE layout[c] = {l} /\ Ends(c, ~spoiled[k])
  <2>1. (~spoiled[k] /\ ~mixed[c]) => LabelsOf(k)' = SeedLayout
    BY <1>2, <1>3, <1>5, <1>6, <1>7
  <2>2. (~spoiled[k] /\ ~mixed[c]) => /\ LabelsOf(k)' \in Layouts \cup {SeedLayout}
                                      /\ total'[k] = Cardinality(LabelsOf(k)')
    BY <1>2, <1>6, <2>1
  <2>3. (~spoiled[k]) \in BOOLEAN
    OBVIOUS
  <2>4. QED
    BY <1>1, <1>2, <1>3, <1>4, <1>7, <2>2, <2>3, CallEnds
<1>8. CASE /\ layout[c] # {l} /\ layout' = [layout EXCEPT ![c] = @ \ {l}]
           /\ UNCHANGED <<stage, coach, stamps, mixed, spoiled>>
  <2>1. Elsewhere(k)
    BY <1>4, <1>8 DEF Elsewhere
  <2>2. /\ layout'[c] = layout[c] \ {l}
        /\ \A d \in Calls : d # c => stage'[d] = stage[d] /\ layout'[d] = layout[d]
    BY <1>8 DEF FleetTypeOK
  <2>3. LabelsOf(coach[c])' = LabelsOf(k) \cup {l}
    BY <1>1, <1>5, <1>8 DEF LabelsOf
  <2>4. CallShape(c)'
    BY <1>1, <1>2, <1>3, <1>8, <2>2 DEF CallShape
  <2>5. ~mixed[c] => CallAlone(c)'
    BY <1>1, <1>2, <1>3, <1>6, <1>8, <2>2, <2>3 DEF CallAlone
  <2>6. QED
    BY <1>1, <1>2, <1>8, <2>1, <2>2, <2>4, <2>5, CallGoesOn
<1>9. QED
  BY <1>1, <1>7, <1>8 DEF SeedSeat

LEMMA DiesKeeps ==
    ASSUME FleetTypeOK, CoachIInv, NEW c \in Calls, Dies(c)
    PROVE  CoachIInv'
<1>1. PICK k \in Coaches : k = coach[c]
  BY DEF Dies, FleetTypeOK
<1>2. CallInv(c) /\ total' = total /\ seats' = seats /\ Ends(c, FALSE)
  BY DEF CoachIInv, Dies
<1>3. total[k] \in Nat /\ total[k] > 0
  BY <1>1, <1>2, LayoutAssumption DEF CallInv, CallShape, FleetTypeOK
<1>4. \A j \in Coaches : j # k => total'[j] = total[j] /\ LabelsOf(j)' = LabelsOf(j)
  BY <1>2 DEF LabelsOf
<1>5. QED
  BY <1>1, <1>2, <1>3, <1>4, CallEnds

LEMMA CoachStepKeeps ==
    ASSUME FleetTypeOK, CoachIInv, NEW c \in Calls, CoachStep(c)
    PROVE  CoachIInv'
BY AdminStarts, SeedStarts, ClearKeeps, InsertSeatsKeeps, StampKeeps, SeedSeatKeeps,
   DiesKeeps DEF CoachStep

\* An agent's sale may make a seat, which marks the coach and the calls about it.
LEMMA AgentKeeps ==
    ASSUME FleetTypeOK, CoachIInv, NEW b \in Customers, NEW x \in CoachSeats,
           AgentSells(b, x), x \notin seats
    PROVE  CoachIInv'
<1> None \notin Coaches
  BY LayoutAssumption
<1>1. PICK k \in Coaches, l \in Labels : x = <<k, l>>
  BY DEF CoachSeats
<1>2. /\ total[k] \in Nat /\ total[k] > 0 /\ seats' = seats \cup {<<k, l>>}
      /\ UNCHANGED <<total, stage, coach, layout, stamps>>
  BY <1>1 DEF AgentSells, FleetTypeOK
<1>3. /\ spoiled' = [spoiled EXCEPT ![k] = TRUE]
      /\ mixed' = [c \in Calls |-> mixed[c] \/ c \in Busy(k)]
  BY <1>1 DEF AgentSells, FleetTypeOK
<1>4. Elsewhere(k)
  BY <1>2, <1>3 DEF Elsewhere, LabelsOf, FleetTypeOK
<1>5. \A j \in Coaches : Busy(j)' = Busy(j)
  BY <1>2 DEF Busy
<1>6. ASSUME NEW d \in Calls PROVE CallInv(d)'
  <2>1. CallInv(d)
    BY DEF CoachIInv
  <2>2. CallShape(d)'
    BY <1>2, <2>1 DEF CallInv, CallShape
  <2>3. CASE coach[d] = k
    BY <1>3, <2>2, <2>3 DEF CallInv, Busy
  <2>4. CASE coach[d] # k /\ coach[d] # None
    <3>1. PICK j \in Coaches : j = coach[d] /\ j # k
      BY <2>4 DEF FleetTypeOK
    <3>2. LabelsOf(j)' = LabelsOf(j) /\ spoiled'[j] = spoiled[j]
      BY <3>1, <1>4 DEF Elsewhere
    <3>3. LabelsOf(coach[d])' = LabelsOf(coach[d]) /\ spoiled'[coach'[d]] = spoiled[coach[d]]
      BY <1>2, <3>1, <3>2 DEF LabelsOf
    <3>4. mixed'[d] \/ CallAlone(d)'
      BY <1>2, <1>3, <2>1, <3>3 DEF CallInv, CallAlone
    <3>5. QED
      BY <2>2, <3>4 DEF CallInv
  <2>5. CASE coach[d] = None
    BY <1>2, <2>2, <2>5 DEF CallInv, CallAlone, FleetTypeOK
  <2>6. QED
    BY <2>3, <2>4, <2>5
<1>7. Mixing'
  BY <1>2, <1>3 DEF CoachIInv, Mixing
<1>8. WholeAt(k)'
  BY <1>3 DEF WholeAt, FleetTypeOK
<1>9. NoCoachNoSeats' /\ LayoutWhole'
  BY <1>2, <1>4, <1>5, <1>8, OtherCoaches
<1>10. QED
  BY <1>6, <1>7, <1>9 DEF CoachIInv

\* The rest of the system never writes the state of coaches and calls.
LEMMA FleetKeeps ==
    ASSUME CoachIInv, UNCHANGED fleet
    PROVE  CoachIInv'
BY DEF fleet, calls, CoachIInv, NoCoachNoSeats, Mixing, CallInv, CallShape, CallAlone,
       LayoutWhole, LabelsOf, Busy

LEMMA SalesKeepFleet ==
    ASSUME FleetTypeOK,
           \/ TripStep \/ LockExpires
           \/ \E x \in seats \cap Named : LockSeat(x)
           \/ \E b \in Customers : CustomerStep(b)
    PROVE  \/ UNCHANGED fleet
           \/ \E b \in Customers, x \in CoachSeats : AgentSells(b, x) /\ x \notin seats
<1>1. CASE TripStep \/ LockExpires
  BY <1>1 DEF TripStep, SwapCoach, RemoveEmpty, StripBookings, RemoveBookings, RemoveTrip,
              RemovalDies, LockExpires
<1>2. ASSUME NEW x \in seats, LockSeat(x) PROVE UNCHANGED fleet
  BY <1>2 DEF LockSeat
<1>3. ASSUME NEW b \in Customers, NEW x \in seats, Book(b, x) PROVE UNCHANGED fleet
  BY <1>3 DEF Book
<1>4. ASSUME NEW b \in Customers, Pay(b) \/ Over(b) \/ Revive(b) \/ DeleteBooking(b)
      PROVE  UNCHANGED fleet
  BY <1>4 DEF Pay, Over, Revive, DeleteBooking
<1>5. ASSUME NEW b \in Customers, NEW x \in Named, AgentSells(b, x), x \in seats
      PROVE  UNCHANGED fleet
  <2>1. UNCHANGED <<total, stage, coach, layout, stamps>> /\ seats' = seats
    BY <1>5 DEF AgentSells
  <2>2. spoiled' = spoiled /\ mixed' = mixed
    BY <1>5, LayoutAssumption DEF AgentSells, FleetTypeOK, CoachSeats
  <2>3. QED
    BY <2>1, <2>2 DEF fleet, calls
<1>6. QED
  BY <1>1, <1>2, <1>3, <1>4, <1>5, LayoutAssumption DEF CustomerStep

LEMMA CoachInductive == FleetTypeOK /\ CoachIInv /\ [FleetNext]_fleetVars => CoachIInv'
<1> SUFFICES ASSUME FleetTypeOK, CoachIInv, [FleetNext]_fleetVars PROVE CoachIInv'
  OBVIOUS
<1>1. ASSUME NEW c \in Calls, CoachStep(c) PROVE CoachIInv'
  BY <1>1, CoachStepKeeps
<1>2. CASE UNCHANGED fleet
  BY <1>2, FleetKeeps
<1>3. ASSUME NEW b \in Customers, NEW x \in CoachSeats, AgentSells(b, x), x \notin seats
      PROVE  CoachIInv'
  BY <1>3, AgentKeeps
<1>4. CASE UNCHANGED fleetVars
  BY <1>4, FleetKeeps DEF fleetVars
<1>5. QED
  BY <1>1, <1>2, <1>3, <1>4, SalesKeepFleet DEF FleetNext

-----------------------------------------------------------------------------
(* The two numbers of free seats agree *)

\* The seats of the trip's coach.
TripSeats == {x \in seats : x[1] = trip}

Taken == BookedSeats \cup locks

LEMMA TripSeatsCount ==
    ASSUME FleetTypeOK, trip # None
    PROVE  /\ IsFiniteSet(TripSeats)
           /\ Cardinality(TripSeats) = Cardinality(LabelsOf(trip))
<1> DEFINE pair == [l \in LabelsOf(trip) |-> <<trip, l>>]
<1>1. trip \in Coaches
  BY DEF FleetTypeOK
<1>2. pair \in [LabelsOf(trip) -> TripSeats]
  BY DEF LabelsOf, TripSeats
<1>3. \A l, m \in LabelsOf(trip) : pair[l] = pair[m] => l = m
  OBVIOUS
<1>4. \A x \in TripSeats : \E l \in LabelsOf(trip) : pair[l] = x
  BY DEF TripSeats, LabelsOf, FleetTypeOK, CoachSeats
<1>5. ExistsBijection(LabelsOf(trip), TripSeats)
  <2> HIDE DEF pair
  <2>1. pair \in Bijection(LabelsOf(trip), TripSeats)
    BY <1>2, <1>3, <1>4 DEF Bijection, Injection, Surjection, IsInjective
  <2>2. QED
    BY <2>1 DEF ExistsBijection
<1>6. IsFiniteSet(LabelsOf(trip))
  BY LayoutAssumption, FS_Subset DEF LabelsOf
<1>7. QED
  BY <1>5, <1>6, FS_Bijection

LEMMA MaxOfDifference ==
    ASSUME NEW m \in Nat, NEW n \in Nat, n <= m
    PROVE  Max({0, m - n}) = m - n
<1> DEFINE x == Max({0, m - n})
<1>1. x \in {0, m - n} /\ \A y \in {0, m - n} : x >= y
  BY DEF Max
<1>2. QED
  BY <1>1

LEMMA FreeSeats ==
    ASSUME FleetTypeOK, SeatsExist, LayoutWhole
    PROVE  AvailabilityAgrees
<1> SUFFICES ASSUME trip # None, Busy(trip) = {}, ~spoiled[trip],
                    \A x \in BookedSeats \cup locks : x[1] = trip
             PROVE  Advertised = Cardinality(Offered)
  BY DEF AvailabilityAgrees
<1>1. trip \in Coaches /\ total[trip] > 0
  BY DEF FleetTypeOK, SeatsExist
<1>2. total[trip] = Cardinality(TripSeats) /\ IsFiniteSet(TripSeats)
  BY <1>1, TripSeatsCount DEF LayoutWhole
<1>3. Taken \subseteq TripSeats
  BY DEF Taken, BookedSeats, TripSeats, SeatsExist
<1>4. Offered = TripSeats \ Taken
  BY DEF Offered, TripSeats, Taken
<1>5. TripSeats \cap Taken = Taken
  BY <1>3
<1>6. Cardinality(Offered) = Cardinality(TripSeats) - Cardinality(Taken)
  <2>1. /\ IsFiniteSet(TripSeats \ Taken)
        /\ Cardinality(TripSeats \ Taken)
              = Cardinality(TripSeats) - Cardinality(TripSeats \cap Taken)
    BY <1>2, FS_Difference
  <2>2. QED
    BY <1>4, <1>5, <2>1
<1>7. Cardinality(Taken) <= Cardinality(TripSeats) /\ IsFiniteSet(Taken)
  BY <1>2, <1>3, FS_Subset
<1>8. Cardinality(TripSeats) \in Nat /\ Cardinality(Taken) \in Nat
  BY <1>2, <1>7, FS_CardinalityType
<1>9. Max({0, total[trip] - Cardinality(Taken)}) = total[trip] - Cardinality(Taken)
  BY <1>2, <1>7, <1>8, MaxOfDifference
<1>10. QED
  BY <1>2, <1>6, <1>9 DEF Advertised, Taken

\* Steps that only add seats.
LEMMA SeatsGrow ==
    ASSUME FleetTypeOK, SeatsExist, seats \subseteq seats',
           \A k \in Coaches : total[k] > 0 => total'[k] > 0,
           UNCHANGED <<trip, locks, seatOf>>
    PROVE  SeatsExist'
BY DEF SeatsExist, FleetTypeOK

LEMMA CoachStepSeatsExist ==
    ASSUME FleetTypeOK, CoachIInv, SeatsExist, NEW c \in Calls, CoachStep(c)
    PROVE  SeatsExist'
<1> USE DEF sales, bookings
<1> Managed \subseteq Coaches /\ None \notin Coaches
  BY LayoutAssumption
<1>1. ASSUME NEW k \in Managed, NEW L \in Layouts, GenerateSeats(c, k, L)
      PROVE  SeatsExist'
  BY <1>1, SeatsGrow DEF GenerateSeats
<1>2. ASSUME NEW k \in Managed, NEW L \in Layouts, NEW n \in Sizes,
             CreateCoach(c, k, L, n) \/ UpdateCoach(c, k, L, n)
      PROVE  SeatsExist'
  <2>1. /\ total' = [total EXCEPT ![k] = n] /\ seats' = seats
        /\ UNCHANGED <<trip, locks, seatOf>>
    BY <1>2 DEF CreateCoach, UpdateCoach
  <2>2. \A j \in Coaches : total[j] > 0 => total'[j] > 0
    BY <2>1, SizeFacts DEF FleetTypeOK
  <2>3. QED
    BY <2>1, <2>2, SeatsGrow
<1>3. ASSUME NEW k \in Managed, SeedCoach(c, k) PROVE SeatsExist'
  <2>1. \A j \in Coaches : total[j] > 0 => total'[j] > 0
    BY <1>3, LayoutFacts DEF SeedCoach, FleetTypeOK
  <2>2. QED
    BY <1>3, <2>1, SeatsGrow DEF SeedCoach
<1>4. CASE Clear(c)
  <2> DEFINE old == Row(coach[c], Labels) \cap seats
  <2>1. CASE seats' = seats /\ locks' = locks
    BY <1>4, <2>1, SeatsGrow DEF Clear
  <2>2. CASE /\ \A b \in Customers : seatOf[b] \notin old
             /\ seats' = seats \ old /\ locks' = locks \ old
    <3>1. UNCHANGED <<total, trip, seatOf>>
      BY <1>4 DEF Clear
    <3> HIDE DEF old
    <3>2. QED
      BY <2>2, <3>1 DEF SeatsExist, FleetTypeOK
  <2>3. QED
    BY <1>4, <2>1, <2>2 DEF Clear
<1>5. CASE InsertSeats(c)
  <2>1. /\ seats \subseteq seats' /\ total' = total
        /\ UNCHANGED <<trip, locks, seatOf>>
    BY <1>5 DEF InsertSeats
  <2>2. QED
    BY <2>1, SeatsGrow
<1>6. CASE Stamp(c)
  <2>1. layout[c] \in Layouts
    BY <1>6 DEF Stamp, CoachIInv, CallInv, CallShape
  <2>2. \A j \in Coaches : total[j] > 0 => total'[j] > 0
    BY <1>6, <2>1, LayoutFacts DEF Stamp, FleetTypeOK
  <2>3. QED
    BY <1>6, <2>2, SeatsGrow DEF Stamp
<1>7. ASSUME NEW l \in Labels, SeedSeat(c, l) PROVE SeatsExist'
  BY <1>7, SeatsGrow DEF SeedSeat
<1>8. CASE Dies(c)
  BY <1>8, SeatsGrow DEF Dies
<1>9. QED
  BY <1>1, <1>2, <1>3, <1>4, <1>5, <1>6, <1>7, <1>8 DEF CoachStep

LEMMA SalesSeatsExist ==
    ASSUME FleetTypeOK, SeatsExist,
           \/ TripStep \/ LockExpires
           \/ \E x \in seats \cap Named : LockSeat(x)
           \/ \E b \in Customers : CustomerStep(b)
    PROVE  SeatsExist'
<1> USE DEF fleet, sales, bookings, SeatsExist, FleetTypeOK
<1>1. ASSUME NEW k \in Coaches, SwapCoach(k) PROVE SeatsExist'
  BY <1>1 DEF SwapCoach
<1>2. CASE RemoveEmpty
  BY <1>2 DEF RemoveEmpty
<1>3. CASE StripBookings
  BY <1>3 DEF StripBookings
<1>4. CASE RemoveBookings
  BY <1>4 DEF RemoveBookings, Deletes
<1>5. CASE RemoveTrip
  BY <1>5 DEF RemoveTrip
<1>6. CASE RemovalDies \/ LockExpires
  BY <1>6 DEF RemovalDies, LockExpires
<1>7. ASSUME NEW x \in seats \cap Named, LockSeat(x) PROVE SeatsExist'
  BY <1>7 DEF LockSeat
<1>8. ASSUME NEW b \in Customers, NEW x \in seats \cap Named, Book(b, x) PROVE SeatsExist'
  BY <1>8 DEF Book
<1>9. ASSUME NEW b \in Customers, NEW x \in Named, AgentSells(b, x) PROVE SeatsExist'
  BY <1>9 DEF AgentSells
<1>10. ASSUME NEW b \in Customers, Pay(b) \/ Revive(b) \/ DeleteBooking(b)
       PROVE  SeatsExist'
  BY <1>10 DEF Pay, Revive, DeleteBooking, Deletes
<1>11. ASSUME NEW b \in Customers, Over(b) PROVE SeatsExist'
  BY <1>11 DEF Over
<1>12. QED
  BY <1>1, <1>2, <1>3, <1>4, <1>5, <1>6, <1>7, <1>8, <1>9, <1>10, <1>11
     DEF TripStep, CustomerStep

LEMMA InitSeatsExist == FleetInit => SeatsExist
BY DEF FleetInit, SeatsExist

LEMMA SeatsExistInductive ==
    FleetTypeOK /\ CoachIInv /\ SeatsExist /\ [FleetNext]_fleetVars => SeatsExist'
<1> SUFFICES ASSUME FleetTypeOK, CoachIInv, SeatsExist, [FleetNext]_fleetVars
             PROVE  SeatsExist'
  OBVIOUS
<1>1. CASE FleetNext
  BY <1>1, CoachStepSeatsExist, SalesSeatsExist DEF FleetNext
<1>2. CASE UNCHANGED fleetVars
  BY <1>2 DEF SeatsExist, fleetVars, fleet, sales, bookings
<1>3. QED
  BY <1>1, <1>2

-----------------------------------------------------------------------------
(* No seat is sold twice *)

LEMMA SalesInductive ==
    FleetTypeOK /\ SoldIsHeld /\ SeatSoldOnce /\ [FleetNext]_fleetVars
        => SoldIsHeld' /\ SeatSoldOnce'
<1> SUFFICES ASSUME FleetTypeOK, SoldIsHeld, SeatSoldOnce, [FleetNext]_fleetVars
             PROVE  SoldIsHeld' /\ SeatSoldOnce'
  OBVIOUS
<1> USE DEF fleet, sales, bookings, SoldIsHeld, SeatSoldOnce, FleetTypeOK
<1>1. CASE UNCHANGED bookings
  BY <1>1
<1>2. ASSUME NEW c \in Calls, CoachStep(c) PROVE UNCHANGED bookings
  BY <1>2 DEF CoachStep, GenerateSeats, CreateCoach, UpdateCoach, SeedCoach, Clear,
              InsertSeats, Stamp, Dies, SeedSeat
<1>3. CASE StripBookings
  <2>1. \A b \in Customers : b \notin unchecked' => status[b] # "live" /\ b \notin unchecked
    BY <1>3 DEF StripBookings, Booked
  <2>2. status' = status
    BY <1>3 DEF StripBookings
  <2>3. QED
    BY <2>1, <2>2
<1>4. ASSUME NEW B \in SUBSET Customers, Deletes(B) PROVE SoldIsHeld' /\ SeatSoldOnce'
  <2>1. \A b \in Customers : status'[b] = "live" =>
           /\ b \notin B /\ status[b] = "live" /\ seatOf'[b] = seatOf[b] /\ sold'[b] = sold[b]
           /\ b \in unchecked' <=> b \in unchecked
    BY <1>4 DEF Deletes
  <2>2. QED
    BY <2>1
<1>5. CASE RemoveBookings
  <2>1. CASE UNCHANGED bookings
    BY <1>1, <2>1
  <2>2. CASE Deletes({b \in Customers : Booked(b)})
    <3>1. {b \in Customers : Booked(b)} \in SUBSET Customers
      OBVIOUS
    <3>2. QED
      BY <1>4, <2>2, <3>1
  <2>3. QED
    BY <1>5, <2>1, <2>2 DEF RemoveBookings
<1>6. CASE TripStep \/ LockExpires \/ \E x \in seats : LockSeat(x)
  BY <1>1, <1>3, <1>5, <1>6 DEF TripStep, SwapCoach, RemoveEmpty, RemoveTrip, RemovalDies,
                                LockExpires, LockSeat
<1>7. ASSUME NEW b \in Customers, NEW x \in seats, Book(b, x)
      PROVE  SoldIsHeld' /\ SeatSoldOnce'
  <2>1. \A a \in Customers :
           (status[a] = "live" /\ a \notin unchecked) => sold[a] # x
    BY <1>7 DEF Book, BookedSeats
  <2>2. /\ status' = [status EXCEPT ![b] = "live"] /\ unchecked' = unchecked
        /\ seatOf' = [seatOf EXCEPT ![b] = x]
        /\ sold' = [sold EXCEPT ![b] = x]
        /\ x # None
    BY <1>7, LayoutAssumption DEF Book
  <2>3. SoldIsHeld'
    BY <2>2
  <2>4. SeatSoldOnce'
    BY <2>1, <2>2
  <2>5. QED
    BY <2>3, <2>4
<1>8. ASSUME NEW b \in Customers, NEW x \in Named, AgentSells(b, x)
      PROVE  SoldIsHeld' /\ SeatSoldOnce'
  <2>1. /\ b \in unchecked'
        /\ \A a \in Customers \ {b} :
              /\ status'[a] = status[a] /\ seatOf'[a] = seatOf[a] /\ sold'[a] = sold[a]
              /\ a \in unchecked' <=> a \in unchecked
    BY <1>8 DEF AgentSells
  <2>2. QED
    BY <2>1
<1>9. ASSUME NEW b \in Customers, Over(b) PROVE SoldIsHeld' /\ SeatSoldOnce'
  BY <1>9 DEF Over
<1>10. ASSUME NEW b \in Customers, Pay(b) \/ Revive(b) PROVE SoldIsHeld' /\ SeatSoldOnce'
  <2>1. /\ b \in unchecked' \/ status[b] = "live"
        /\ status' = [status EXCEPT ![b] = "live"]
        /\ unchecked' \in {unchecked, unchecked \cup {b}}
        /\ UNCHANGED <<seatOf, sold>>
    BY <1>10 DEF Pay, Revive
  <2>2. QED
    BY <2>1
<1>11. ASSUME NEW b \in Customers, CustomerStep(b) PROVE SoldIsHeld' /\ SeatSoldOnce'
  <2>1. CASE DeleteBooking(b)
    BY <1>4, <2>1 DEF DeleteBooking
  <2>2. QED
    BY <1>7, <1>8, <1>9, <1>10, <1>11, <2>1 DEF CustomerStep
<1>12. CASE FleetNext
  <2>1. CASE \E c \in Calls : CoachStep(c)
    BY <1>1, <1>2, <2>1
  <2>2. QED
    BY <1>6, <1>11, <1>12, <2>1 DEF FleetNext
<1>13. QED
  BY <1>1, <1>12 DEF fleetVars

-----------------------------------------------------------------------------
(* The inductive invariant and what follows from it *)

FleetIInv == FleetTypeOK /\ CoachIInv /\ SeatsExist /\ SoldIsHeld /\ SeatSoldOnce

\* The conjuncts that the theorems below rest on hold from the start and after
\* every step.
THEOREM FleetInvariance == FleetSpec => []FleetIInv
<1>1. FleetInit => SoldIsHeld /\ SeatSoldOnce
  BY DEF FleetInit, SoldIsHeld, SeatSoldOnce
<1>2. FleetInit => FleetIInv
  BY <1>1, FleetInitTypeOK, FleetInitCoach, InitSeatsExist DEF FleetIInv
<1>3. FleetIInv /\ [FleetNext]_fleetVars => FleetIInv'
  BY FleetStepTypeOK, CoachInductive, SeatsExistInductive, SalesInductive DEF FleetIInv
<1>4. QED
  BY <1>2, <1>3, PTL DEF FleetSpec

\* A coach that nothing spoiled, neither a call that failed or met another nor an
\* agent's sale that made a seat, and that no call is about, has the seats of one
\* whole layout, and as many as totalSeats says: whatever the layouts, and however
\* many admins create, update and regenerate coaches while seats are sold.
THEOREM WholeLayouts == FleetSpec => []LayoutWhole
<1>1. FleetIInv => LayoutWhole
  BY DEF FleetIInv, CoachIInv
<1>2. QED
  BY FleetInvariance, <1>1, PTL

\* As long as nothing spoiled its coach, and no seat of another is locked or booked
\* for the trip, the number of free seats in the list of trips is the number of seats
\* on the seat map, however many sales, agents, admins and removals are under way.
THEOREM FreeSeatsAgree == FleetSpec => []AvailabilityAgrees
<1>1. FleetIInv => AvailabilityAgrees
  BY FreeSeats DEF FleetIInv, CoachIInv
<1>2. QED
  BY FleetInvariance, <1>1, PTL

\* Two live bookings were sold one seat only if an agent made one of them, a
\* payment or its approval revived it, or a removal of the trip has stripped it of its seat; the
\* races within createBooking are the subject of DoubleSale.
THEOREM SoldOnce == FleetSpec => []SeatSoldOnce
<1>1. FleetIInv => SeatSoldOnce
  BY DEF FleetIInv
<1>2. QED
  BY FleetInvariance, <1>1, PTL

=============================================================================
