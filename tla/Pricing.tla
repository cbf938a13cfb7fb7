------------------------------ MODULE Pricing ------------------------------
(***************************************************************************)
(* What a booking costs: the fare a customer is shown                      *)
(* (src/src/schedules/schedules.service.ts), the fares and the coupon that *)
(* createBooking charges, the resell fee of cancelBooking and what         *)
(* deleteBooking takes back (src/src/bookings/bookings.service.ts), under  *)
(* the admin's changes of fares (src/src/fares/fares.service.ts), of the   *)
(* coupon (src/src/discounts/discounts.service.ts), of the trip's route    *)
(* and coach and the removal of a route (src/src/routes/routes.service.ts).*)
(*                                                                         *)
(* One trip and one coupon; amounts are in cents.  The trip is read first, *)
(* then the coupon, then the fare of every seat by a query of its own, and *)
(* the coupon is counted at the end: anything may change in between.       *)
(***************************************************************************)
EXTENDS Integers, Sequences, SequencesExt, FiniteSets, FiniteSetsExt

CONSTANTS
    Bookings, Fares,
    SeatCount,    \* SeatCount[b]: how many seats b asks for
    Trips,        \* what the trip may be: its route and its coach's type
    FareRows,     \* the fares an admin may make
    Coupons,      \* the coupons an admin may make
    Fallback,     \* Fallback[r]: the price by city of route r, without fares
    MaxChanges,   \* bound of the model: changes of fares, trip or coupon
    None

Routes == {t.route : t \in Trips}
CoachTypes == {t.coachType : t \in Trips}

\* company is the trip's or another; from is effectiveFrom.
ASSUME AmountAssumption ==
    /\ Fallback \in [Routes -> Nat] /\ IsFiniteSet(Fares)
    /\ FareRows \subseteq [company : {"own", "other"}, route : Routes,
                           coachType : CoachTypes \cup {None}, amount : Nat,
                           from : Nat, isActive : BOOLEAN]
    /\ Coupons \subseteq [type : {"PERCENTAGE", "FIXED"}, value : Nat,
                          maxUses : Nat, isActive : BOOLEAN]
    /\ None \notin CoachTypes /\ None \notin Trips
    /\ None \notin Fares /\ None \notin FareRows /\ None \notin Coupons

Views == {"list", "detail"}

VARIABLES
    fare,      \* the fares
    trip,      \* the route and coach type of the trip, None when it is deleted
    coupon,    \* the discounts row, None when it has been deleted
    usedCount,
    usages,    \* the bookings with a discount_usages row
    pc,        \* pc[b]: where booking b stands
    shown,     \* shown[b]: the page: a trip and its fare, with the amount then
    given,     \* given[b]: the fare the call names, or None
    schedule,  \* schedule[b]: the trip as the call has read it
    discount,  \* discount[b]: the coupon as validated, or None
    seatFares, \* seatFares[b]: the fares found so far
    bill,      \* bill[b]: the row's amounts
    refund,    \* refund[b]: the cancellation's amounts
    changes,   \* bound of the model
    moved,     \* history: moved[b]: fares have changed since b was shown one
    plain,     \* history: plain[b]: b's page left no choice of a fare
    raced,     \* history: bookings whose coupon changed after its validation
    lowered    \* history: an admin has changed the coupon

rates == <<fare, trip, coupon>>
call == <<pc, shown, given, schedule, discount, seatFares>>
rows == <<usedCount, usages, bill, refund>>
history == <<moved, plain, raced, lowered>>
vars == <<rates, call, rows, changes, history>>

Init ==
    /\ fare \in {[f \in Fares |-> IF f = g THEN r ELSE None] : g \in Fares, r \in FareRows}
    /\ trip \in Trips
    /\ coupon \in Coupons
    /\ usedCount = 0
    /\ usages = {}
    /\ pc = [b \in Bookings |-> "idle"]
    /\ shown = [b \in Bookings |-> None]
    /\ given = [b \in Bookings |-> None]
    /\ schedule = [b \in Bookings |-> None]
    /\ discount = [b \in Bookings |-> None]
    /\ seatFares = [b \in Bookings |-> <<>>]
    /\ bill = [b \in Bookings |-> None]
    /\ refund = [b \in Bookings |-> None]
    /\ changes = 0
    /\ moved = [b \in Bookings |-> FALSE]
    /\ plain = [b \in Bookings |-> FALSE]
    /\ raced = {}
    /\ lowered = FALSE

Goto(b, label) == pc' = [pc EXCEPT ![b] = label]

\* n / d to the nearest integer, halves away from zero, as a column of type
\* Decimal(10, 2) stores it and toDecimalPlaces(2) gives it.
Rounded(n, d) ==
    IF n >= 0 THEN (2 * n + d) \div (2 * d) ELSE -((d - 2 * n) \div (2 * d))

-----------------------------------------------------------------------------
(* Which fare *)

Active == {f \in Fares : fare[f] # None /\ fare[f].isActive}
OnRoute(t) == {f \in Active : fare[f].route = t.route}
OfType(t, type) == {f \in OnRoute(t) : fare[f].coachType = type}
Own(F) == {f \in F : fare[f].company = "own"}
Latest(F) == {f \in F : \A g \in F : fare[g].from <= fare[f].from}
Dearest(F) == {f \in F : \A g \in F : fare[g].amount <= fare[f].amount}

\* search: the latest of the coach's type, else of no type, else of any.
\* findOne: the latest of the coach's type and of no type together.
\* Both take the fares of any company.
Shown(t, view) ==
    IF view = "detail" THEN Latest(OfType(t, t.coachType) \cup OfType(t, None))
    ELSE IF OfType(t, t.coachType) # {} THEN Latest(OfType(t, t.coachType))
    ELSE IF OfType(t, None) # {} THEN Latest(OfType(t, None))
    ELSE Latest(OnRoute(t))

\* Faulty: the fare that the call names is not looked at.
ChargedByType(b) ==
    LET t == schedule[b]
        ours == Own(OfType(t, t.coachType))
    IN  IF ours # {} THEN Latest(ours) ELSE Dearest(Own(OnRoute(t)))

\* calculateSeatFares: the fare the call names if it is active, of whatever
\* company, route and date, else the company's latest of the coach's type, else
\* its dearest of the route.
Charged(b) ==
    LET t == schedule[b]
        ours == Own(OfType(t, t.coachType))
    IN  IF given[b] \in Active THEN {given[b]}
        ELSE IF ours # {} THEN Latest(ours)
        ELSE Dearest(Own(OnRoute(t)))

\* The page of trip t leaves calculateSeatFares no other choice than fare f.
NoChoice(t, view, f) ==
    /\ f \in Own(OnRoute(t))
    /\ OnRoute(t) = {f} \/ (view = "list" /\ OfType(t, t.coachType) = {f})

Priced(b, f) ==
    [fare |-> f, amount |-> IF f = None THEN Fallback[schedule[b].route] ELSE fare[f].amount]

-----------------------------------------------------------------------------
(* createBooking *)

\* A page shows the trip's fare, 0 if there is none.
Look(b, view) ==
    /\ pc[b] = "idle" /\ trip # None
    /\ \E f \in IF Shown(trip, view) = {} THEN {None} ELSE Shown(trip, view) :
          /\ shown' = [shown EXCEPT ![b] =
                [trip |-> trip, fare |-> f, amount |-> IF f = None THEN 0 ELSE fare[f].amount]]
          /\ plain' = [plain EXCEPT ![b] = NoChoice(trip, view, f)]
    /\ Goto(b, "page")
    /\ UNCHANGED <<rates, given, schedule, discount, seatFares, rows, changes,
                   moved, raced, lowered>>

\* The call comes, naming any fare or none, and reads the trip.
ReadSchedule(b, f) ==
    /\ pc[b] = "page" /\ trip # None
    /\ given' = [given EXCEPT ![b] = f]
    /\ schedule' = [schedule EXCEPT ![b] = trip]
    /\ Goto(b, "coupon")
    /\ UNCHANGED <<rates, shown, discount, seatFares, rows, changes, history>>

\* Faulty: the limit is passed when it is reached.
ValidateOneMore(b) ==
    /\ pc[b] = "coupon"
    /\ \/ Goto(b, "fares") /\ UNCHANGED discount
       \/ /\ coupon # None
          /\ coupon.isActive /\ (coupon.maxUses = 0 \/ usedCount <= coupon.maxUses)
          /\ Goto(b, "fares")
          /\ discount' = [discount EXCEPT ![b] = coupon]
    /\ UNCHANGED <<rates, shown, given, schedule, seatFares, rows, changes, history>>

\* validateAndApplyDiscount: an expired coupon counts as inactive, a limit of 0
\* as none; the minimum amount is never looked at, because the total is not yet
\* known.  A call without a coupon goes on; one with a refused coupon has failed.
ValidateDiscount(b) ==
    /\ pc[b] = "coupon"
    /\ \/ Goto(b, "fares") /\ UNCHANGED discount
       \/ /\ coupon # None
          /\ coupon.isActive /\ (coupon.maxUses = 0 \/ usedCount < coupon.maxUses)
          /\ Goto(b, "fares")
          /\ discount' = [discount EXCEPT ![b] = coupon]
    /\ UNCHANGED <<rates, shown, given, schedule, seatFares, rows, changes, history>>

SeatFare(b) ==
    /\ pc[b] = "fares" /\ Len(seatFares[b]) < SeatCount[b]
    /\ \E f \in IF Charged(b) = {} THEN {None} ELSE Charged(b) :
          seatFares' = [seatFares EXCEPT ![b] = Append(@, Priced(b, f))]
    /\ UNCHANGED <<rates, pc, shown, given, schedule, discount, rows, changes, history>>

Total(b) == SumFunction([i \in DOMAIN seatFares[b] |-> seatFares[b][i].amount])

\* The exact discount, in hundredths of a cent.
Deduction(b) ==
    IF discount[b] = None THEN 0
    ELSE IF discount[b].type = "PERCENTAGE" THEN Total(b) * discount[b].value
    ELSE discount[b].value * 100

\* Discount and net amount are each exact until the row is written.
Billed(b) ==
    [totalAmount |-> Total(b),
     discountAmount |-> Rounded(Deduction(b), 100),
     netAmount |-> Rounded(Total(b) * 100 - Deduction(b), 100)]

\* The page is gone once the booking is made.
Leaves(b) ==
    /\ shown' = [shown EXCEPT ![b] = None]
    /\ given' = [given EXCEPT ![b] = None]
    /\ schedule' = [schedule EXCEPT ![b] = None]
    /\ moved' = [moved EXCEPT ![b] = FALSE]
    /\ plain' = [plain EXCEPT ![b] = FALSE]

\* The transaction: trip and coupon must still exist; that they are still the same,
\* and the coupon below its limit, is not looked at.  A fare that is gone is charged
\* all the same.
Insert(b) ==
    /\ pc[b] = "fares" /\ Len(seatFares[b]) = SeatCount[b] /\ trip # None
    /\ bill' = [bill EXCEPT ![b] = Billed(b)]
    /\ IF discount[b] = None
       THEN UNCHANGED <<usages, usedCount, raced>>
       ELSE /\ coupon # None
            /\ usages' = usages \cup {b}
            /\ usedCount' = usedCount + 1
            /\ raced' = raced \cup
                  {c \in Bookings \ {b} : pc[c] = "fares" /\ discount[c] # None}
    /\ Goto(b, "made")
    /\ Leaves(b)
    /\ UNCHANGED <<rates, discount, seatFares, refund, changes, lowered>>

\* Faulty: the fee is rounded, the refund computed apart from it.
FeeRoundedTwice(b, percentage) ==
    [chargeAmount |-> Rounded(bill[b].netAmount * percentage, 100),
     refundAmount |-> (bill[b].netAmount * (100 - percentage)) \div 100]

\* The resell fee: 20% when no more than 24 hours are left, else nothing.
Fee(b, percentage) ==
    LET charge == Rounded(bill[b].netAmount * percentage, 100) IN
    [chargeAmount |-> charge, refundAmount |-> bill[b].netAmount - charge]

Cancel(b) ==
    /\ pc[b] = "made" /\ refund[b] = None
    /\ \E percentage \in {0, 20} : refund' = [refund EXCEPT ![b] = Fee(b, percentage)]
    /\ UNCHANGED <<rates, call, usedCount, usages, bill, changes, history>>

\* deleteBooking removes the usage and leaves usedCount as it is.
DeleteBooking(b) ==
    /\ pc[b] = "made"
    /\ usages' = usages \ {b}
    /\ bill' = [bill EXCEPT ![b] = None]
    /\ refund' = [refund EXCEPT ![b] = None]
    /\ discount' = [discount EXCEPT ![b] = None]
    /\ seatFares' = [seatFares EXCEPT ![b] = <<>>]
    /\ Goto(b, "deleted")
    /\ UNCHANGED <<rates, shown, given, schedule, usedCount, changes, history>>

-----------------------------------------------------------------------------
(* The admin *)

Changes == changes < MaxChanges /\ changes' = changes + 1

FaresMoved == moved' = [b \in Bookings |-> moved[b] \/ pc[b] \in {"page", "coupon", "fares"}]

\* create, update, remove (which deactivates) and hardRemove of a fare.
ChangeFare(f, r) ==
    /\ Changes
    /\ (fare[f] = None) # (r = None) \/ fare[f] # r
    /\ fare' = [fare EXCEPT ![f] = r]
    /\ FaresMoved
    /\ UNCHANGED <<trip, coupon, call, rows, plain, raced, lowered>>

\* hardRemove of a route deletes its fares, then its trips, which bookings prevent.
RemoveRoute(r) ==
    /\ Changes
    /\ fare' = [f \in Fares |->
                  IF fare[f] # None /\ fare[f].route = r THEN None ELSE fare[f]]
    /\ \/ UNCHANGED trip
       \/ /\ trip # None /\ trip.route = r /\ \A b \in Bookings : pc[b] # "made"
          /\ trip' = None
    /\ FaresMoved
    /\ UNCHANGED <<coupon, call, rows, plain, raced, lowered>>

\* The trip gets another route or coach, or its coach another type.
ChangeTrip(t) ==
    /\ Changes
    /\ trip # None /\ t # trip
    /\ trip' = t
    /\ UNCHANGED <<fare, coupon, call, rows, history>>

\* update and delete of the coupon; usages keep it from being deleted.
ChangeCoupon(c) ==
    /\ Changes
    /\ coupon # None /\ c # coupon
    /\ c = None => usages = {}
    /\ c # None => c.type = coupon.type
    /\ coupon' = c
    /\ lowered' = TRUE
    /\ UNCHANGED <<fare, trip, call, rows, moved, plain, raced>>

BookingStep(b) ==
    \/ \E view \in Views : Look(b, view)
    \/ \E f \in Fares \cup {None} : ReadSchedule(b, f)
    \/ ValidateDiscount(b) \/ SeatFare(b) \/ Insert(b) \/ Cancel(b) \/ DeleteBooking(b)

AdminStep ==
    \/ \E f \in Fares : \E r \in FareRows \cup {None} : ChangeFare(f, r)
    \/ \E r \in Routes : RemoveRoute(r)
    \/ \E t \in Trips : ChangeTrip(t)
    \/ \E c \in Coupons \cup {None} : ChangeCoupon(c)

Next == (\E b \in Bookings : BookingStep(b)) \/ AdminStep

Spec == Init /\ [][Next]_vars

-----------------------------------------------------------------------------
\* The amounts of a booking fit together, whatever changed while it was made:
\* the seats add up to the total; discount and net add up to it to the cent,
\* but for the one cent that storing two halves of a cent adds; fee and refund
\* add up to the net amount exactly, also where the coupon made it negative.
AmountsAgree ==
    \A b \in Bookings : bill[b] # None =>
        /\ bill[b].totalAmount = Total(b)
        /\ LET over == bill[b].discountAmount + bill[b].netAmount - bill[b].totalAmount IN
           /\ over \in {0, 1}
           /\ over = 1 => Deduction(b) % 100 = 50
        /\ refund[b] # None =>
              refund[b].chargeAmount + refund[b].refundAmount = bill[b].netAmount

\* A customer pays for every seat what the page said, unless fares have changed
\* since, in two cases.  The call names the fare of the page: then also if the trip
\* has changed meanwhile.  Or it names none and finds the trip as the page had it,
\* where the fare was the company's own and the only one of the route, or, in the
\* list of trips, the only one of the coach's type.  (Otherwise the three places
\* choose by different rules, two of them among the fares of all companies.)
PricedAsShown ==
    \A b \in Bookings :
        (/\ ~moved[b] /\ shown[b] # None /\ shown[b].fare # None
         /\ \/ given[b] = shown[b].fare
            \/ given[b] = None /\ plain[b] /\ schedule[b] = shown[b].trip)
            => \A s \in ToSet(seatFares[b]) : s.amount = shown[b].amount

\* A coupon is used more often than its limit allows only after a booking that
\* had validated it before the use of another was counted, or after any change of
\* the coupon; and no use goes uncounted, so that deleting bookings never makes
\* room for more.
CouponLimit ==
    /\ (coupon # None /\ coupon.maxUses > 0 /\ usedCount > coupon.maxUses)
          => lowered \/ \E b \in raced : pc[b] \in {"made", "deleted"}
    /\ Cardinality(usages) <= usedCount

=============================================================================
