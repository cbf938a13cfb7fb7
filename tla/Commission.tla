----------------------------- MODULE Commission -----------------------------
(***************************************************************************)
(* The commission account of one counter agent                             *)
(* (src/src/counter-agent/counter-agent.service.ts): a booking creates a   *)
(* commission row (distributeCommission, started without await when the    *)
(* booking is created and when it is confirmed), every read of a dashboard *)
(* settles the rows whose day of departure has come                        *)
(* (settleDepartureCommissions), a cancellation takes them back            *)
(* (reverseCommissionOnResell).  The amounts are added up in               *)
(* commissionEarned of the agent's bulk orders, up to a cap per order.     *)
(*                                                                         *)
(* None of these handlers runs in a transaction: every statement is an     *)
(* action, and the list of rows or orders it works through may be out of   *)
(* date.  The loops over agents touch one agent's rows and orders at a     *)
(* time, so one agent is modelled; orders and rows are taken in any order. *)
(***************************************************************************)
EXTENDS Integers, FiniteSets

CONSTANTS
    Calls,      \* handler calls; a row is named after the call that created it
    Bookings,   \* bookings that pay this agent
    Orders,     \* the agent's approved bulk orders
    NoBooking,  \* no booking
    Share,      \* agentShare of a row
    Cap         \* commissionCap of an order

ASSUME AmountAssumption == Share \in Nat \ {0} /\ Cap \in Nat \ {0}
ASSUME NoBookingAssumption == NoBooking \notin Bookings

VARIABLES
    row,        \* row[d]: status of the commission row created by call d
    earned,     \* earned[o]: commissionEarned
    active,     \* active[o]: status of the order is ACTIVE
    exists,     \* exists[b]: the booking has not been deleted
    cancelled,  \* cancelled[b]: the booking is CANCELLED
    refunded,   \* refunded[b]: the booking has its (unique) row in cancellations
    departed,   \* departed[b]: the day of departure has come (Asia/Dhaka)
    pc,         \* pc[c]: where call c stands
    booking,    \* booking[c]: booking that c is about, NoBooking for settlements
    due,        \* due[c]: distribution c found that the day had come
    todo,       \* todo[c]: rows that c has listed and not yet handled
    settled,    \* settled[c]: rows that reversal c read as PENDING or PAID
    current,    \* current[c]: row that c handles
    listed,     \* listed[c]: orders that c has listed and not yet handled
    amount,     \* amount[c][o]: commissionEarned that c read
    left,       \* left[c]: amount still to be added or deducted for the row
    credited,   \* history: credited[d]: amount added for row d
    debited,    \* history: debited[d]: amount deducted for row d
    settlers,   \* history: settlers[d]: settlements that listed row d
    crowded,    \* history: bookings with two creations of a row under way
    stale,      \* history: orders written from an amount that was out of date
    escaped     \* history: rows of cancelled bookings that no reversal will get, or
                \* that a settlement will reopen

rows == <<row, credited, debited, escaped>>
orders == <<earned, active, stale>>
trips == <<exists, cancelled, refunded, departed>>
work == <<todo, settled, current, listed, amount, left>>
vars == <<rows, orders, trips, pc, booking, due, work, settlers, crowded>>

TypeOK ==
    /\ row \in [Calls -> {"none", "HELD_UNTIL_DEPARTURE", "PENDING", "PAID", "CANCELLED"}]
    /\ earned \in [Orders -> Int]
    /\ active \in [Orders -> BOOLEAN]
    /\ exists \in [Bookings -> BOOLEAN]
    /\ cancelled \in [Bookings -> BOOLEAN]
    /\ refunded \in [Bookings -> BOOLEAN]
    /\ departed \in [Bookings -> BOOLEAN]
    /\ pc \in [Calls -> {"idle", "find", "create", "credit", "settle", "orders",
                         "cancelBooking", "lookup", "reverse", "debit", "cancel", "referral", "done"}]
    /\ booking \in [Calls -> Bookings \cup {NoBooking}]
    /\ due \in [Calls -> BOOLEAN]
    /\ todo \in [Calls -> SUBSET Calls]
    /\ settled \in [Calls -> SUBSET Calls]
    /\ current \in [Calls -> Calls]
    /\ listed \in [Calls -> SUBSET Orders]
    /\ amount \in [Calls -> [Orders -> Int]]
    /\ left \in [Calls -> Int]
    /\ credited \in [Calls -> Int]
    /\ debited \in [Calls -> Int]
    /\ settlers \in [Calls -> SUBSET Calls]
    /\ crowded \subseteq Bookings
    /\ stale \subseteq Orders
    /\ escaped \subseteq Calls

Init ==
    /\ row = [d \in Calls |-> "none"]
    /\ earned = [o \in Orders |-> 0]
    /\ active = [o \in Orders |-> TRUE]
    /\ exists = [b \in Bookings |-> TRUE]
    /\ cancelled = [b \in Bookings |-> FALSE]
    /\ refunded = [b \in Bookings |-> FALSE]
    /\ departed \in [Bookings -> BOOLEAN]
    /\ pc = [c \in Calls |-> "idle"]
    /\ booking = [c \in Calls |-> NoBooking]
    /\ due = [c \in Calls |-> FALSE]
    /\ todo = [c \in Calls |-> {}]
    /\ settled = [c \in Calls |-> {}]
    /\ current = [c \in Calls |-> c]
    /\ listed = [c \in Calls |-> {}]
    /\ amount = [c \in Calls |-> [o \in Orders |-> 0]]
    /\ left = [c \in Calls |-> 0]
    /\ credited = [d \in Calls |-> 0]
    /\ debited = [d \in Calls |-> 0]
    /\ settlers = [d \in Calls |-> {}]
    /\ crowded = {}
    /\ stale = {}
    /\ escaped = {}

Goto(c, label) == pc' = [pc EXCEPT ![c] = label]

RowsOf(b) == {d \in Calls : row[d] # "none" /\ booking[d] = b}

Pays(d) == row[d] \in {"HELD_UNTIL_DEPARTURE", "PENDING"}

\* A reversal will list the rows of booking b.
LooksFor(b) == \E c \in Calls : pc[c] = "lookup" /\ booking[c] = b

Lesser(x, y) == IF x <= y THEN x ELSE y

\* findMany over some of the orders, before a loop for the whole share.
ListOrders(c, S) ==
    /\ listed' = [listed EXCEPT ![c] = S]
    /\ amount' = [amount EXCEPT ![c] = earned]
    /\ left' = [left EXCEPT ![c] = Share]

-----------------------------------------------------------------------------
(* distributeCommission *)

Capacity == {o \in Orders : active[o] /\ Cap - earned[o] > 0}

\* The booking, the day and the orders with capacity left are read first.
DistributeRead(c) ==
    /\ pc[c] = "idle"
    /\ \E b \in {x \in Bookings : exists[x]} :
          /\ booking' = [booking EXCEPT ![c] = b]
          /\ due' = [due EXCEPT ![c] = departed[b]]
    /\ ListOrders(c, Capacity)
    /\ Goto(c, IF Capacity = {} THEN "done" ELSE "find")
    /\ UNCHANGED <<rows, orders, trips, todo, settled, current, settlers, crowded>>

\* Faulty: no look for an existing row.
DistributeFindNothing(c) ==
    /\ pc[c] = "find"
    /\ Goto(c, "create")
    /\ UNCHANGED <<rows, orders, trips, booking, due, work, settlers, crowded>>

DistributeFind(c) ==
    /\ pc[c] = "find"
    /\ Goto(c, IF RowsOf(booking[c]) = {} THEN "create" ELSE "done")
    /\ crowded' = crowded \cup
          {b \in Bookings : b = booking[c] /\ \E d \in Calls \ {c} :
                               pc[d] \in {"create", "referral"} /\ booking[d] = b}
    /\ UNCHANGED <<rows, orders, trips, booking, due, work, settlers>>

\* The foreign key refuses a row for a deleted booking.
DistributeCreate(c) ==
    /\ pc[c] = "create" /\ exists[booking[c]]
    /\ row' = [row EXCEPT ![c] = IF due[c] THEN "PENDING" ELSE "HELD_UNTIL_DEPARTURE"]
    /\ escaped' = IF cancelled[booking[c]] /\ ~LooksFor(booking[c])
                  THEN escaped \cup {c} ELSE escaped
    /\ current' = [current EXCEPT ![c] = c]
    /\ Goto(c, IF due[c] THEN "credit" ELSE "done")
    /\ UNCHANGED <<credited, debited, orders, trips, booking, due, todo, settled,
                   listed, amount, left, settlers, crowded>>

-----------------------------------------------------------------------------
(* Crediting a row, after its distribution or its settlement *)

AddTo(c, o, sum) ==
    /\ earned' = [earned EXCEPT ![o] = @ + sum]
    /\ stale' = IF earned[o] = amount[c][o] THEN stale ELSE stale \cup {o}
    /\ left' = [left EXCEPT ![c] = @ - sum]
    /\ credited' = [credited EXCEPT ![current[c]] = @ + sum]
    /\ listed' = [listed EXCEPT ![c] = @ \ {o}]

\* Out of the loop once nothing is left to add or no order is left to take it.
AfterCredit(c, o, sum) ==
    IF left[c] - sum > 0 /\ listed[c] # {o} THEN "credit"
    ELSE IF booking[c] = NoBooking THEN "settle" ELSE "done"

\* Faulty: the cap is not looked at.
CreditAll(c) ==
    /\ pc[c] = "credit"
    /\ \E o \in listed[c] :
          /\ AddTo(c, o, left[c])
          /\ active' = [active EXCEPT ![o] = amount[c][o] + left[c] < Cap]
          /\ Goto(c, AfterCredit(c, o, left[c]))
    /\ UNCHANGED <<row, debited, escaped, trips, booking, due, todo, settled, current,
                   amount, settlers, crowded>>

\* Faulty: the loop forgets what it has added.
CreditAgain(c) ==
    /\ pc[c] = "credit"
    /\ \E o \in listed[c] :
          LET sum == Lesser(left[c], Cap - amount[c][o]) IN
          /\ earned' = [earned EXCEPT ![o] = @ + sum]
          /\ credited' = [credited EXCEPT ![current[c]] = @ + sum]
          /\ listed' = [listed EXCEPT ![c] = @ \ {o}]
          /\ stale' = IF earned[o] = amount[c][o] THEN stale ELSE stale \cup {o}
          /\ active' = [active EXCEPT ![o] = amount[c][o] + sum < Cap]
          /\ Goto(c, AfterCredit(c, o, 0))
    /\ UNCHANGED <<row, debited, escaped, trips, booking, due, todo, settled, current,
                   amount, left, settlers, crowded>>

Credit(c) ==
    /\ pc[c] = "credit"
    /\ \E o \in listed[c] :
          LET sum == Lesser(left[c], Cap - amount[c][o]) IN
          /\ AddTo(c, o, sum)
          /\ active' = [active EXCEPT ![o] = amount[c][o] + sum < Cap]
          /\ Goto(c, AfterCredit(c, o, sum))
    /\ UNCHANGED <<row, debited, escaped, trips, booking, due, todo, settled, current,
                   amount, settlers, crowded>>

-----------------------------------------------------------------------------
(* settleDepartureCommissions *)

\* Faulty: every held row is taken.
HeldRows == {d \in Calls : row[d] = "HELD_UNTIL_DEPARTURE"}

DueRows == {d \in Calls : row[d] = "HELD_UNTIL_DEPARTURE" /\ departed[booking[d]]}

SettleRead(c) ==
    /\ pc[c] = "idle"
    /\ todo' = [todo EXCEPT ![c] = DueRows]
    /\ settlers' = [d \in Calls |->
          IF d \in DueRows THEN settlers[d] \cup {c} ELSE settlers[d]]
    /\ Goto(c, "settle")
    /\ UNCHANGED <<rows, orders, trips, booking, due, settled, current, listed,
                   amount, left, crowded>>

\* The row becomes PENDING by its id, whatever it has become since.
SettleRow(c) ==
    /\ pc[c] = "settle"
    /\ \E d \in todo[c] :
          /\ row[d] # "none"
          /\ row' = [row EXCEPT ![d] = "PENDING"]
          /\ todo' = [todo EXCEPT ![c] = @ \ {d}]
          /\ current' = [current EXCEPT ![c] = d]
    /\ Goto(c, "orders")
    /\ UNCHANGED <<credited, debited, escaped, orders, trips, booking, due, settled,
                   listed, amount, left, settlers, crowded>>

SettleOrders(c) ==
    /\ pc[c] = "orders"
    /\ ListOrders(c, {o \in Orders : active[o]})
    /\ Goto(c, IF \E o \in Orders : active[o] THEN "credit" ELSE "settle")
    /\ UNCHANGED <<rows, orders, trips, booking, due, todo, settled, current,
                   settlers, crowded>>

\* Settlement c has listed row d and will write it.
Reopens(c, d) == pc[c] \in {"settle", "orders", "credit"} /\ d \in todo[c]

\* The row pays the agent, or will once a settlement has written it.
Open(d) == Pays(d) \/ \E c \in Calls : Reopens(c, d)

-----------------------------------------------------------------------------
(* reverseCommissionOnResell, awaited by cancelBooking after its transaction *)

\* Not on the day of departure, nor later, by the day that was read here.
CancelRead(c) ==
    /\ pc[c] = "idle"
    /\ \E b \in {x \in Bookings :
                  exists[x] /\ ~cancelled[x] /\ ~refunded[x] /\ ~departed[x]} :
          booking' = [booking EXCEPT ![c] = b]
    /\ Goto(c, "cancelBooking")
    /\ UNCHANGED <<rows, orders, trips, due, work, settlers, crowded>>

\* The cancellation row is unique for the booking.
CancelBooking(c) ==
    /\ pc[c] = "cancelBooking" /\ exists[booking[c]] /\ ~refunded[booking[c]]
    /\ cancelled' = [cancelled EXCEPT ![booking[c]] = TRUE]
    /\ refunded' = [refunded EXCEPT ![booking[c]] = TRUE]
    /\ Goto(c, "lookup")
    /\ UNCHANGED <<rows, orders, exists, departed, booking, due, work, settlers, crowded>>

\* Reversal c will list row d, or has listed it and not yet cancelled it.
Reverses(c, d) ==
    \/ pc[c] = "lookup" /\ d \in RowsOf(booking[c])
    \/ pc[c] \in {"reverse", "debit", "cancel"} /\ d \in todo[c]
    \/ pc[c] \in {"debit", "cancel"} /\ d = current[c]

\* Faulty: a row that is still held is left alone.
ReverseReadSettled(c) ==
    /\ pc[c] = "lookup"
    /\ todo' = [todo EXCEPT ![c] =
          {d \in RowsOf(booking[c]) : row[d] \in {"PENDING", "PAID"}}]
    /\ settled' = [settled EXCEPT ![c] = todo'[c]]
    /\ Goto(c, "reverse")
    /\ UNCHANGED <<rows, orders, trips, booking, due, current, listed, amount, left,
                   settlers, crowded>>

ReverseRead(c) ==
    /\ pc[c] = "lookup"
    /\ todo' = [todo EXCEPT ![c] = RowsOf(booking[c])]
    /\ settled' = [settled EXCEPT ![c] =
          {d \in RowsOf(booking[c]) : row[d] \in {"PENDING", "PAID"}}]
    /\ Goto(c, "reverse")
    /\ UNCHANGED <<rows, orders, trips, booking, due, current, listed, amount, left,
                   settlers, crowded>>

\* A row that was settled when it was read is deducted before it is cancelled.
ReverseRow(c) ==
    /\ pc[c] = "reverse"
    /\ \E d \in todo[c] :
          /\ todo' = [todo EXCEPT ![c] = @ \ {d}]
          /\ current' = [current EXCEPT ![c] = d]
          /\ \/ /\ d \in settled[c]
                /\ ListOrders(c, Orders)
                /\ Goto(c, "debit")
             \/ /\ d \notin settled[c]
                /\ Goto(c, "cancel")
                /\ UNCHANGED <<listed, amount, left>>
    /\ UNCHANGED <<rows, orders, trips, booking, due, settled, settlers, crowded>>

Debit(c) ==
    /\ pc[c] = "debit"
    /\ \E o \in listed[c] :
          LET sum == Lesser(left[c], amount[c][o]) IN
          /\ listed' = [listed EXCEPT ![c] = @ \ {o}]
          /\ IF sum > 0
             THEN /\ earned' = [earned EXCEPT ![o] = @ - sum]
                  /\ active' = [active EXCEPT ![o] = TRUE]
                  /\ stale' = IF earned[o] = amount[c][o] THEN stale ELSE stale \cup {o}
                  /\ left' = [left EXCEPT ![c] = @ - sum]
                  /\ debited' = [debited EXCEPT ![current[c]] = @ + sum]
                  /\ Goto(c, IF left[c] - sum > 0 /\ listed[c] # {o} THEN "debit" ELSE "cancel")
             ELSE /\ Goto(c, IF listed[c] # {o} THEN "debit" ELSE "cancel")
                  /\ UNCHANGED <<orders, left, debited>>
    /\ UNCHANGED <<row, credited, escaped, trips, booking, due, todo, settled, current,
                   amount, settlers, crowded>>

\* Faulty: a status the enum does not have.
ReverseUnknownStatus(c) ==
    /\ pc[c] = "cancel" /\ row[current[c]] # "none"
    /\ row' = [row EXCEPT ![current[c]] = "REVERSED"]
    /\ Goto(c, "reverse")
    /\ UNCHANGED <<credited, debited, escaped, orders, trips, booking, due, work, settlers,
                   crowded>>

ReverseCancel(c) ==
    /\ pc[c] = "cancel" /\ row[current[c]] # "none"
    /\ row' = [row EXCEPT ![current[c]] = "CANCELLED"]
    /\ escaped' = escaped \cup {d \in {current[c]} : \E e \in Calls : Reopens(e, d)}
    /\ Goto(c, "reverse")
    /\ UNCHANGED <<credited, debited, orders, trips, booking, due, work, settlers,
                   crowded>>

-----------------------------------------------------------------------------
(* All handlers *)

Return(c) ==
    /\ pc[c] \in {"settle", "reverse"} /\ todo[c] = {}
    /\ Goto(c, "done")
    /\ UNCHANGED <<rows, orders, trips, booking, due, work, settlers, crowded>>

\* A write of a deleted row or order, or a second cancellation, throws, and the
\* rest of the handler is not run; or the process dies.
Fails(c) ==
    /\ pc[c] \notin {"idle", "done"}
    /\ Goto(c, "done")
    /\ escaped' = escaped \cup {d \in Calls : Reverses(c, d)}
    /\ UNCHANGED <<row, credited, debited, orders, trips, booking, due, work, settlers,
                   crowded>>

\* sellTicketFromBulk has committed the booking of the sale.
ReferralSale(c) ==
    /\ pc[c] = "idle"
    /\ \E b \in {x \in Bookings : /\ exists[x] /\ ~cancelled[x] /\ ~refunded[x]
                                 /\ \A d \in Calls : booking[d] # x} :
          booking' = [booking EXCEPT ![c] = b]
    /\ Goto(c, "referral")
    /\ UNCHANGED <<rows, orders, trips, due, work, settlers, crowded>>

\* Then it pays the agent who referred the seller: a PENDING row that is credited to
\* no order, whatever has become of the booking since and whatever rows it has.
ReferralRow(c) ==
    /\ pc[c] = "referral" /\ exists[booking[c]]
    /\ row' = [row EXCEPT ![c] = "PENDING"]
    /\ escaped' = IF cancelled[booking[c]] /\ ~LooksFor(booking[c])
                  THEN escaped \cup {c} ELSE escaped
    /\ Goto(c, "done")
    /\ UNCHANGED <<credited, debited, orders, trips, booking, due, work, settlers, crowded>>

\* markCommissionPaid asks nothing of the row.
MarkCommissionPaid(d) ==
    /\ row[d] # "none"
    /\ row' = [row EXCEPT ![d] = "PAID"]
    /\ UNCHANGED <<credited, debited, escaped, orders, trips, pc, booking, due, work,
                   settlers, crowded>>

\* rejectUserBookingPayment cancels whatever the booking is, and reverses nothing.
RejectBooking(b) ==
    /\ exists[b]
    /\ cancelled' = [cancelled EXCEPT ![b] = TRUE]
    /\ escaped' = escaped \cup
          {d \in RowsOf(b) : Open(d) /\ ~\E c \in Calls : Reverses(c, d)}
    /\ UNCHANGED <<row, credited, debited, orders, exists, refunded, departed, pc, booking,
                   due, work, settlers, crowded>>

\* confirmBooking takes a cancelled booking as it takes a held one.
Revive(b) ==
    /\ exists[b] /\ cancelled[b]
    /\ cancelled' = [cancelled EXCEPT ![b] = FALSE]
    /\ UNCHANGED <<rows, orders, exists, refunded, departed, pc, booking, due, work,
                   settlers, crowded>>

\* deleteBooking takes the rows with the booking.
DeleteBooking(b) ==
    /\ exists[b]
    /\ exists' = [exists EXCEPT ![b] = FALSE]
    /\ row' = [d \in Calls |-> IF booking[d] = b THEN "none" ELSE row[d]]
    /\ UNCHANGED <<credited, debited, escaped, orders, cancelled, refunded, departed, pc,
                   booking, due, work, settlers, crowded>>

DayComes(b) ==
    /\ ~departed[b]
    /\ departed' = [departed EXCEPT ![b] = TRUE]
    /\ UNCHANGED <<rows, orders, exists, cancelled, refunded, pc, booking, due, work,
                   settlers, crowded>>

\* Sales and admins write the status of the order for their own reasons.
QuotaWrites(o) ==
    /\ active' = [active EXCEPT ![o] = ~@]
    /\ UNCHANGED <<rows, earned, stale, trips, pc, booking, due, work, settlers,
                   crowded>>

Step(c) ==
    \/ DistributeRead(c) \/ DistributeFind(c) \/ DistributeCreate(c)
    \/ Credit(c)
    \/ SettleRead(c) \/ SettleRow(c) \/ SettleOrders(c)
    \/ CancelRead(c) \/ CancelBooking(c)
    \/ ReverseRead(c) \/ ReverseRow(c) \/ Debit(c) \/ ReverseCancel(c)
    \/ Return(c) \/ Fails(c) \/ ReferralSale(c) \/ ReferralRow(c)

Next ==
    \/ \E c \in Calls : Step(c) \/ MarkCommissionPaid(c)
    \/ \E b \in Bookings : RejectBooking(b) \/ Revive(b) \/ DeleteBooking(b) \/ DayComes(b)
    \/ \E o \in Orders : QuotaWrites(o)

Spec == Init /\ [][Next]_vars

-----------------------------------------------------------------------------
(* Properties *)

\* A booking pays the agent twice only if one of its distributions (started at
\* creation and at confirmation) looked for a row while another, or the sale that
\* owes its referrer, was about to create one.
OneRowPerBooking ==
    \A b \in Bookings : b \notin crowded =>
        \A d, e \in RowsOf(b) : d = e

\* No amount is added to an order for a row before its day of departure, whether
\* the row was created early or late, settled twice or reversed in between.
CreditedAfterDeparture ==
    \A d \in Calls : credited[d] # 0 => departed[booking[d]]

\* "Max commission = totalAmount": commissionEarned leaves 0..commissionCap only
\* when a handler wrote it from an amount that was out of date.
EarnedWithinCap ==
    \A o \in Orders : o \notin stale => earned[o] \in 0..Cap

\* A row is credited for more than its share only if two settlements listed it.
CreditedOnce ==
    \A d \in Calls :
        credited[d] > Share => \E c, e \in settlers[d] : c # e

\* A cancelled booking pays nothing once cancelBooking has reversed its rows, unless
\* a row was created after the reversal had looked for them (a distribution or an
\* agent's sale still ran), the reversal was cut off before it, a settlement that
\* listed the row while it was held writes it after the reversal, or an admin
\* rejected the payment instead, which reverses nothing.
CancelledPaysNothing ==
    \A d \in Calls :
        Pays(d) /\ cancelled[booking[d]]
            => d \in escaped \/ \E c \in Calls : Reverses(c, d)

\* Not kept by the code: reverseCommissionOnResell takes back what was credited "if
\* commission was already settled"; a referral row is PENDING without any credit.
DebitedWasCredited ==
    \A d \in Calls : debited[d] <= credited[d]

=============================================================================
