------------------------------- MODULE Fleet -------------------------------
(***************************************************************************)
(* Coaches, their seats, and the trip that sells them: create, update and  *)
(* generateSeatsForCoach (src/src/coaches/coaches.service.ts), the coaches *)
(* of the seed script (src/prisma/seed.ts), the removal of a trip, and the *)
(* two views of it that customers see, the number of free seats in the     *)
(* list of trips and the seat map (src/src/schedules/schedules.service.ts).*)
(*                                                                         *)
(* No writer here uses a transaction.  What stops a half-done one is the   *)
(* database: a seat with a booking_seats row, and a booking with payments, *)
(* a cancellation or discount usages, cannot be deleted.                   *)
(*                                                                         *)
(* A seat is a coach and a label; a call may name any seat of any coach,   *)
(* and an agent's sale any label, whose row it makes if it is missing.     *)
(* createBooking is one step; its races are those of SeatReservation.      *)
(***************************************************************************)
EXTENDS Integers, FiniteSets, FiniteSetsExt

CONSTANTS
    Coaches, Calls, Customers,
    Managed,       \* bound of the model: the coaches that the calls are about
    Named,         \* bound of the model: the seats that customers and agents name
    MaxLocks,      \* bound of the model: locks of the trip at one time
    Labels,        \* seat numbers
    Layouts,       \* the sets of labels an admin may ask for
    SeedLayout,    \* layoutDoubleDeck1x2Config
    None

CoachSeats == Coaches \X Labels

ASSUME LayoutAssumption ==
    /\ IsFiniteSet(Labels) /\ Managed \subseteq Coaches /\ Named \subseteq CoachSeats
    /\ Layouts \cup {SeedLayout} \subseteq (SUBSET Labels) \ {{}}
    /\ None \notin CoachSeats \cup Coaches

VARIABLES
    total,     \* total[k]: totalSeats of coach k; 0 when there is no such coach
    seats,     \* the seats table
    stage,     \* stage[c]: where a call about a coach stands
    coach,     \* coach[c]: which coach it is about
    layout,    \* layout[c]: the labels it has still to make
    stamps,    \* the calls that set totalSeats at their end
    trip,      \* the coach of the trip, None when the trip is deleted
    removal,   \* where hardRemove stands
    status,    \* status[b]: booking b
    seatOf,    \* seatOf[b]: its booking_seats row
    anchored,  \* anchored[b]: it has payments, a cancellation or discount usages
    locks,     \* unexpired seat_locks of the trip
    mixed,     \* history: mixed[c]: another writer of its coach's seats came in, or
               \* the admin gave it a layout and a number of seats that disagree
    spoiled,   \* history: spoiled[k]: the last call about k did not go its way, or
               \* an agent's sale has made a seat of k since
    sold,      \* history: sold[b]: the seat booking b was made for
    unchecked  \* history: bookings that an agent made, that a payment or an approval
               \* revived, or that a removal of the trip has gone through

calls == <<stage, coach, layout, stamps, mixed>>
bookings == <<status, seatOf, anchored, sold, unchecked>>
fleet == <<total, seats, spoiled, calls>>
sales == <<trip, removal, bookings>>
fleetVars == <<fleet, sales, locks>>

Row(k, L) == {k} \X L

\* A managed coach is not there yet, or was made by an earlier call, as the other
\* coaches were.
FleetInit ==
    /\ \E made \in [Coaches -> Layouts \cup {{}}] :
          /\ \A k \in Coaches \ Managed : made[k] = CHOOSE L \in Layouts : TRUE
          /\ total = [k \in Coaches |-> Cardinality(made[k])]
          /\ seats = UNION {Row(k, made[k]) : k \in Coaches}
    /\ stage = [c \in Calls |-> "idle"]
    /\ coach = [c \in Calls |-> None]
    /\ layout = [c \in Calls |-> {}]
    /\ stamps = {}
    /\ trip \in {k \in Coaches : total[k] > 0}
    /\ removal = "idle"
    /\ status = [b \in Customers |-> "none"]
    /\ seatOf = [b \in Customers |-> None]
    /\ anchored = [b \in Customers |-> FALSE]
    /\ locks = {}
    /\ mixed = [c \in Calls |-> FALSE]
    /\ spoiled = [k \in Coaches |-> FALSE]
    /\ sold = [b \in Customers |-> None]
    /\ unchecked = {}

Sizes == {Cardinality(L) : L \in Layouts \cup {SeedLayout}}    \* totalSeats an admin may give
LabelsOf(k) == {l \in Labels : <<k, l>> \in seats}
Busy(k) == {c \in Calls : coach[c] = k}

-----------------------------------------------------------------------------
(* Calls about coaches *)

Starts(c, k, step, L, agree) ==
    /\ stage[c] = "idle"
    /\ stage' = [stage EXCEPT ![c] = step]
    /\ coach' = [coach EXCEPT ![c] = k]
    /\ layout' = [layout EXCEPT ![c] = L]
    /\ mixed' = [d \in Calls |-> IF d = c THEN Busy(k) # {} \/ ~agree
                                 ELSE mixed[d] \/ d \in Busy(k)]

\* The call is over; well tells whether it did all it set out to do.
Ends(c, well) ==
    /\ stage' = [stage EXCEPT ![c] = "done"]
    /\ coach' = [coach EXCEPT ![c] = None]
    /\ layout' = [layout EXCEPT ![c] = {}]
    /\ stamps' = stamps \ {c}
    /\ mixed' = [mixed EXCEPT ![c] = FALSE]
    /\ spoiled' = [spoiled EXCEPT ![coach[c]] = ~well \/ mixed[c]]

\* create: the coach is committed before its seats, which follow the layout
\* whatever totalSeats says.
CreateCoach(c, k, L, n) ==
    /\ total[k] = 0
    /\ total' = [total EXCEPT ![k] = n]
    /\ Starts(c, k, "insert", L, n = Cardinality(L))
    /\ UNCHANGED <<stamps, seats, spoiled, sales, locks>>

\* update, of whatever column: the coach is committed, then its seats are made
\* anew, from a layout that is given or from totalSeats, which need not be given.
UpdateCoach(c, k, L, n) ==
    /\ total[k] > 0
    /\ total' = [total EXCEPT ![k] = n]
    /\ Starts(c, k, "clear", L, n = Cardinality(L))
    /\ UNCHANGED <<stamps, seats, spoiled, sales, locks>>

\* Faulty: the seats that are booked are left where they are.
ClearUnbooked(c) ==
    /\ stage[c] = "clear"
    /\ LET old == (Row(coach[c], Labels) \cap seats) \ {seatOf[b] : b \in Customers} IN
       /\ seats' = seats \ old
       /\ locks' = locks \ old
       /\ stage' = [stage EXCEPT ![c] = "insert"]
       /\ UNCHANGED <<coach, layout, stamps, mixed, spoiled>>
    /\ UNCHANGED <<total, sales>>

\* seat.deleteMany, all or nothing; it takes the seats' locks with it.
Clear(c) ==
    /\ stage[c] = "clear"
    /\ LET old == Row(coach[c], Labels) \cap seats IN
       IF \E b \in Customers : seatOf[b] \in old
       THEN Ends(c, FALSE) /\ UNCHANGED <<seats, locks>>
       ELSE /\ seats' = seats \ old
            /\ locks' = locks \ old
            /\ stage' = [stage EXCEPT ![c] = "insert"]
            /\ UNCHANGED <<coach, layout, stamps, mixed, spoiled>>
    /\ UNCHANGED <<total, sales>>

\* generateSeatsForCoach: the seats first, the coach last.
GenerateSeats(c, k, L) ==
    /\ total[k] > 0
    /\ Starts(c, k, "clear", L, TRUE)
    /\ stamps' = stamps \cup {c}
    /\ UNCHANGED <<total, seats, spoiled, sales, locks>>

\* seat.createMany, all or nothing; coach and label are a unique key.
InsertSeats(c) ==
    /\ stage[c] = "insert"
    /\ LET clash == LabelsOf(coach[c]) \cap layout[c] # {} IN
       /\ seats' = IF clash THEN seats ELSE seats \cup Row(coach[c], layout[c])
       /\ IF clash \/ c \notin stamps
          THEN Ends(c, ~clash)
          ELSE /\ stage' = [stage EXCEPT ![c] = "stamp"]
               /\ UNCHANGED <<coach, layout, stamps, mixed, spoiled>>
    /\ UNCHANGED <<total, sales, locks>>

\* The end of generateSeatsForCoach.
Stamp(c) ==
    /\ stage[c] = "stamp"
    /\ total' = [total EXCEPT ![coach[c]] = Cardinality(layout[c])]
    /\ Ends(c, TRUE)
    /\ UNCHANGED <<seats, sales, locks>>

\* The seed: totalSeats is set, then every label that is missing is added.  The
\* seats of another layout stay where they are, which spoils the coach.
SeedCoach(c, k) ==
    /\ total' = [total EXCEPT ![k] = Cardinality(SeedLayout)]
    /\ Starts(c, k, "seed", SeedLayout, TRUE)
    /\ spoiled' = [spoiled EXCEPT ![k] = @ \/ ~(LabelsOf(k) \subseteq SeedLayout)]
    /\ UNCHANGED <<stamps, seats, sales, locks>>

SeedSeat(c, l) ==
    /\ stage[c] = "seed" /\ l \in layout[c]
    /\ seats' = seats \cup {<<coach[c], l>>}
    /\ IF layout[c] = {l}
       THEN Ends(c, ~spoiled[coach[c]])
       ELSE /\ layout' = [layout EXCEPT ![c] = @ \ {l}]
            /\ UNCHANGED <<stage, coach, stamps, mixed, spoiled>>
    /\ UNCHANGED <<total, sales, locks>>

\* The process dies, or a statement fails.
Dies(c) ==
    /\ stage[c] \notin {"idle", "done"}
    /\ Ends(c, FALSE)
    /\ UNCHANGED <<total, seats, sales, locks>>

-----------------------------------------------------------------------------
(* The trip *)

\* update of the trip may give it another coach, whatever has been sold.
SwapCoach(k) ==
    /\ trip # None /\ k # trip /\ total[k] > 0
    /\ trip' = k
    /\ UNCHANGED <<fleet, removal, bookings, locks>>

Booked(b) == status[b] \in {"live", "over"}    \* the bookings row exists

\* The rows of the bookings B are gone.
Deletes(B) ==
    /\ status' = [b \in Customers |-> IF b \in B THEN "deleted" ELSE status[b]]
    /\ seatOf' = [b \in Customers |-> IF b \in B THEN None ELSE seatOf[b]]
    /\ anchored' = [b \in Customers |-> IF b \in B THEN FALSE ELSE anchored[b]]
    /\ sold' = [b \in Customers |-> IF b \in B THEN None ELSE sold[b]]
    /\ unchecked' = unchecked \ B

\* remove: refused by the database as soon as the trip has bookings.
RemoveEmpty ==
    /\ trip # None /\ \A b \in Customers : ~Booked(b)
    /\ trip' = None
    /\ locks' = {}
    /\ UNCHANGED <<fleet, removal, bookings>>

\* hardRemove: the tickets and the seats of all bookings go first, ...
StripBookings ==
    /\ trip # None /\ removal = "idle"
    /\ removal' = "bookings"
    /\ seatOf' = [b \in Customers |-> None]
    /\ unchecked' = unchecked \cup {b \in Customers : Booked(b)}
    /\ UNCHANGED <<fleet, trip, status, anchored, sold, locks>>

\* ... then the bookings, all or none, with what seats they have got since, ...
RemoveBookings ==
    /\ removal = "bookings"
    /\ IF \E b \in Customers : Booked(b) /\ anchored[b]
       THEN removal' = "idle" /\ UNCHANGED bookings
       ELSE removal' = "trip" /\ Deletes({b \in Customers : Booked(b)})
    /\ UNCHANGED <<fleet, trip, locks>>

\* ... then the trip, unless it has been booked again.
RemoveTrip ==
    /\ removal = "trip"
    /\ removal' = "idle"
    /\ IF \E b \in Customers : Booked(b)
       THEN UNCHANGED <<trip, locks>>
       ELSE trip' = None /\ locks' = {}
    /\ UNCHANGED <<fleet, bookings>>

RemovalDies ==
    /\ removal # "idle"
    /\ removal' = "idle"
    /\ UNCHANGED <<fleet, trip, bookings, locks>>

-----------------------------------------------------------------------------
(* Customers *)

BookedSeats == {seatOf[b] : b \in {x \in Customers : status[x] = "live"}} \ {None}

\* getSeats: what the seat map offers.
Offered == {x \in seats : x[1] = trip /\ x \notin BookedSeats \cup locks}

\* Faulty: the locks are not counted.
AdvertisedUnlocked == Max({0, total[trip] - Cardinality(BookedSeats)})

\* search, findOne and the agents' list: the number they show, which counts
\* taken seats of any coach against the totalSeats of this one.
Advertised == Max({0, total[trip] - Cardinality(BookedSeats \cup locks)})

\* lockSeats: the id is taken as it comes, no look at the coach of the trip nor
\* at bookings.
LockSeat(x) ==
    /\ trip # None /\ Cardinality(locks) < MaxLocks
    /\ locks' = locks \cup {x}
    /\ UNCHANGED <<fleet, sales>>

\* It lasts until it expires or a call that has failed releases it.
LockExpires ==
    /\ \E x \in locks : locks' = locks \ {x}
    /\ UNCHANGED <<fleet, sales>>

\* Faulty: bookings are not looked at.
BookAnyway(b, x) ==
    /\ trip # None /\ status[b] = "none"
    /\ status' = [status EXCEPT ![b] = "live"]
    /\ seatOf' = [seatOf EXCEPT ![b] = x]
    /\ sold' = [sold EXCEPT ![b] = x]
    /\ \E usage \in BOOLEAN : anchored' = [anchored EXCEPT ![b] = usage]
    /\ UNCHANGED <<fleet, trip, removal, unchecked, locks>>

\* createBooking, with a coupon or not, of any coach's seat that is not booked.
Book(b, x) ==
    /\ trip # None /\ status[b] = "none"
    /\ x \notin BookedSeats
    /\ status' = [status EXCEPT ![b] = "live"]
    /\ seatOf' = [seatOf EXCEPT ![b] = x]
    /\ sold' = [sold EXCEPT ![b] = x]
    /\ \E usage \in BOOLEAN : anchored' = [anchored EXCEPT ![b] = usage]
    /\ UNCHANGED <<fleet, trip, removal, unchecked, locks>>

\* sellTicketFromBulk sells a seat whoever has it, making its row if there is none;
\* the booking is paid without a row of payments.  The coach is the one the trip had
\* when the sale read it, before its transaction, which may have been any.
AgentSells(b, x) ==
    /\ trip # None /\ status[b] = "none" /\ total[x[1]] > 0
    /\ LET k == x[1]
           makes == x \notin seats
       IN  /\ seats' = seats \cup {x}
           /\ spoiled' = [spoiled EXCEPT ![k] = @ \/ makes]
           /\ mixed' = [c \in Calls |-> mixed[c] \/ (makes /\ c \in Busy(k))]
           /\ seatOf' = [seatOf EXCEPT ![b] = x]
           /\ sold' = [sold EXCEPT ![b] = x]
    /\ status' = [status EXCEPT ![b] = "live"]
    /\ unchecked' = unchecked \cup {b}
    /\ UNCHANGED <<total, stage, coach, layout, stamps, trip, removal, anchored, locks>>

\* An approved confirmBooking, also of a booking that has lost its seat; one that is
\* cancelled, perhaps since it was read, is alive again.
Pay(b) ==
    /\ status[b] = "over" \/ (status[b] = "live" /\ ~anchored[b])
    /\ status' = [status EXCEPT ![b] = "live"]
    /\ anchored' = [anchored EXCEPT ![b] = TRUE]
    /\ locks' = locks \ {seatOf[b]}
    /\ unchecked' = unchecked \cup {x \in {b} : status[x] = "over"}
    /\ UNCHANGED <<fleet, trip, removal, seatOf, sold>>

\* Expired, or rejected, without a row; cancelled with a cancellation; all but the
\* rejection release the locks.  The seat's row stays.
Over(b) ==
    /\ status[b] = "live"
    /\ status' = [status EXCEPT ![b] = "over"]
    /\ anchored' \in {anchored, [anchored EXCEPT ![b] = TRUE]}
    /\ locks' \in {locks, locks \ {seatOf[b]}}
    /\ UNCHANGED <<fleet, trip, removal, seatOf, sold, unchecked>>

\* confirmBooking with payment details puts it back on hold, seats unseen.
Revive(b) ==
    /\ status[b] = "over"
    /\ status' = [status EXCEPT ![b] = "live"]
    /\ unchecked' = unchecked \cup {b}
    /\ UNCHANGED <<fleet, trip, removal, seatOf, anchored, sold, locks>>

\* deleteBooking removes every row of the booking.
DeleteBooking(b) ==
    /\ Booked(b)
    /\ Deletes({b})
    /\ UNCHANGED <<fleet, trip, removal, locks>>

CoachStep(c) ==
    \/ \E k \in Managed :
          \/ \E L \in Layouts :
                \/ GenerateSeats(c, k, L)
                \/ \E n \in Sizes : CreateCoach(c, k, L, n) \/ UpdateCoach(c, k, L, n)
          \/ SeedCoach(c, k)
    \/ Clear(c) \/ InsertSeats(c) \/ Stamp(c) \/ Dies(c)
    \/ \E l \in Labels : SeedSeat(c, l)

TripStep ==
    \/ \E k \in Coaches : SwapCoach(k)
    \/ RemoveEmpty \/ StripBookings \/ RemoveBookings \/ RemoveTrip \/ RemovalDies

CustomerStep(b) ==
    \/ \E x \in seats \cap Named : Book(b, x)
    \/ \E x \in Named : AgentSells(b, x)
    \/ Pay(b) \/ Over(b) \/ Revive(b) \/ DeleteBooking(b)

FleetNext ==
    \/ \E c \in Calls : CoachStep(c)
    \/ \E b \in Customers : CustomerStep(b)
    \/ \E x \in seats \cap Named : LockSeat(x)
    \/ TripStep \/ LockExpires

FleetSpec == FleetInit /\ [][FleetNext]_fleetVars

-----------------------------------------------------------------------------
\* When no call about a coach is under way and the last one was neither refused,
\* cut off, mixed with another, nor given a number that is not its layout's, and no
\* agent's sale has made a seat of it since, the seats of the coach are the whole
\* of one layout and totalSeats is their number.  (update commits totalSeats and is
\* then refused its seats if one of them was ever booked; two updates may leave the
\* seats of one and the number of the other, or the seats of both.)
LayoutWhole ==
    \A k \in Coaches :
        (Busy(k) = {} /\ ~spoiled[k] /\ total[k] > 0)
            => /\ LabelsOf(k) \in Layouts \cup {SeedLayout}
               /\ total[k] = Cardinality(LabelsOf(k))

\* For such a coach the number of free seats in the list of trips is the number
\* of seats the seat map offers, unless a seat of another coach is locked or booked
\* for the trip, by a call that names one or because the trip has changed its coach.
\* The two are computed from different columns and agree also after seats were made
\* anew under customers' locks, while a removal has stripped bookings, and when an
\* agent has sold a seat that was taken.
AvailabilityAgrees ==
    (/\ trip # None /\ Busy(trip) = {} /\ ~spoiled[trip]
     /\ \A x \in BookedSeats \cup locks : x[1] = trip)
        => Advertised = Cardinality(Offered)

\* Apart from the races within createBooking (SeatReservation), two live bookings
\* were sold one seat only if an agent made one of them, a payment or its approval
\* revived one, or a removal of the trip that then failed has stripped one of its seat.
SeatSoldOnce ==
    \A a, b \in Customers :
        (a # b /\ status[a] = "live" /\ status[b] = "live" /\ sold[a] = sold[b])
            => a \in unchecked \/ b \in unchecked

=============================================================================
