-------------------------- MODULE BookingLifecycle --------------------------
(***************************************************************************)
(* The life of one bookings row after createBooking (or the counter        *)
(* agent's sellTicketFromBulk) inserted it: the customer submits payment   *)
(* details, an admin approves or rejects them, the owner or staff cancels  *)
(* (resells), the minute cron expires, an admin deletes, and the gate      *)
(* verifies its tickets (src/src/bookings/bookings.service.ts,             *)
(* booking-expiration.task.ts, src/src/tickets/tickets.service.ts).        *)
(*                                                                         *)
(* Every handler reads the row, decides, and writes after at least one     *)
(* more await; no write repeats the decision in its WHERE clause.  A read  *)
(* with the checks that follow it without an await is one action, a        *)
(* transaction is one action: all its statements commit together.  Seats   *)
(* and their locks are in SeatReservation.  Amounts are abstracted to      *)
(* whether money was taken and whether a refund is owed.                   *)
(***************************************************************************)
EXTENDS Naturals, FiniteSets

CONSTANTS
    Calls,    \* handler calls on this booking; names the payment a call records
    Sale      \* names the tickets of a booking sold from an agent's bulk quota

ASSUME SaleAssumption == Sale \notin Calls

VARIABLES
    status,      \* bookings.status, DELETED once the row is gone
    payment,     \* bookings.paymentStatus
    hold,        \* bookings.expiresAt against now: "none" (null), "ahead", "past"
    approved,    \* bookings.approvedAt is set
    payments,    \* calls whose payments row exists
    tickets,     \* tickets[c]: status of the ticket issued by c (one passenger's)
    refund,      \* cancellations.refundStatus, "none" without a row
    seated,      \* the booking names a seat, hence a passenger
    departure,   \* "ahead", or "closed" from the day of departure (BST) on
    pc,          \* pc[c]: where call c stands
    readPayment, \* readPayment[c]: paymentStatus that cancelBooking c read
    verifying,   \* verifying[c]: ticket that call c found valid
    cron         \* the expiry job: "idle", or "found" between scan and update

row == <<status, payment, hold, approved>>
books == <<payments, tickets, refund>>
trip == <<seated, departure>>
reads == <<readPayment, verifying>>
local == <<pc, reads>>
vars == <<row, books, trip, local, cron>>

PaymentStatuses == {"PENDING", "PAID", "FAILED"}
Labels == {"idle", "submit", "approve", "stamp", "reject", "day", "cancel",
           "delete", "use", "done"}
Issuers == Calls \cup {Sale}

TypeOK ==
    /\ status \in {"HELD", "CONFIRMED", "CANCELLED", "EXPIRED", "DELETED"}
    /\ payment \in PaymentStatuses
    /\ hold \in {"none", "ahead", "past"}
    /\ approved \in BOOLEAN
    /\ payments \subseteq Calls
    /\ tickets \in [Issuers -> {"none", "ACTIVE", "USED", "CANCELLED"}]
    /\ refund \in {"none", "PENDING", "NOT_APPLICABLE"}
    /\ seated \in BOOLEAN
    /\ departure \in {"ahead", "closed"}
    /\ pc \in [Calls -> Labels]
    /\ readPayment \in [Calls -> PaymentStatuses]
    /\ verifying \in [Calls -> Issuers]
    /\ cron \in {"idle", "found"}

\* Inserted by createBooking: held, nothing paid, and perhaps no seat named.
HeldOnline ==
    /\ status = "HELD" /\ payment = "PENDING" /\ hold = "ahead"
    /\ tickets = [c \in Issuers |-> "none"]
    /\ seated \in BOOLEAN

\* Inserted by sellTicketFromBulk: confirmed, paid out of the quota, ticketed.
SoldByAgent ==
    /\ status = "CONFIRMED" /\ payment = "PAID" /\ hold = "none"
    /\ tickets = [c \in Issuers |-> IF c = Sale THEN "ACTIVE" ELSE "none"]
    /\ seated = TRUE

Init ==
    /\ HeldOnline \/ SoldByAgent
    /\ approved = FALSE
    /\ payments = {}
    /\ refund = "none"
    /\ departure = "ahead"
    /\ pc = [c \in Calls |-> "idle"]
    /\ readPayment = [c \in Calls |-> "PENDING"]
    /\ verifying = [c \in Calls |-> Sale]
    /\ cron = "idle"

Goto(c, label) == pc' = [pc EXCEPT ![c] = label]

\* A new call reads the row and goes on to label, or returns or throws.
Call(c, goesOn, label) ==
    /\ pc[c] = "idle"
    /\ Goto(c, IF status # "DELETED" /\ goesOn THEN label ELSE "done")
    /\ UNCHANGED <<row, books, trip, cron>>

\* An update or insert that needs the row: it throws once the row is gone.
Throws(c, label) ==
    /\ pc[c] = label
    /\ status = "DELETED"
    /\ Goto(c, "done")
    /\ UNCHANGED <<row, books, trip, reads, cron>>

-----------------------------------------------------------------------------
(* confirmBooking called by the customer *)

SubmitRead(c) == Call(c, status # "CONFIRMED", "submit") /\ UNCHANGED reads

SubmitWrite(c) ==
    /\ pc[c] = "submit" /\ status # "DELETED"
    /\ status' = "HELD" /\ payment' = "PENDING" /\ hold' = "ahead"
    /\ Goto(c, "done")
    /\ UNCHANGED <<approved, books, trip, reads, cron>>

-----------------------------------------------------------------------------
(* approveUserBookingPayment and the confirmBooking it calls *)

\* Already confirmed: only the approval is stamped.  A lapsed hold throws.
ApproveRead(c) ==
    /\ Call(c, hold # "past" \/ status = "CONFIRMED",
            IF status = "CONFIRMED" THEN "stamp" ELSE "approve")
    /\ UNCHANGED reads

\* One ticket per passenger.
Issued(c) == IF seated THEN [tickets EXCEPT ![c] = "ACTIVE"] ELSE tickets

\* Faulty: nothing ties the payment and the tickets to an existing row.
ApproveDeleted(c) ==
    /\ pc[c] = "approve"
    /\ IF status = "DELETED" THEN UNCHANGED <<status, payment, hold>>
       ELSE status' = "CONFIRMED" /\ payment' = "PAID" /\ hold' = "none"
    /\ payments' = payments \cup {c}
    /\ tickets' = Issued(c)
    /\ Goto(c, "stamp")
    /\ UNCHANGED <<approved, refund, trip, reads, cron>>

ApproveWrite(c) ==
    /\ pc[c] = "approve" /\ status # "DELETED"
    /\ status' = "CONFIRMED" /\ payment' = "PAID" /\ hold' = "none"
    /\ payments' = payments \cup {c}
    /\ tickets' = Issued(c)
    /\ Goto(c, "stamp")
    /\ UNCHANGED <<approved, refund, trip, reads, cron>>

ApproveStamp(c) ==
    /\ pc[c] = "stamp" /\ status # "DELETED"
    /\ approved' = TRUE
    /\ Goto(c, "done")
    /\ UNCHANGED <<status, payment, hold, books, trip, reads, cron>>

-----------------------------------------------------------------------------
(* rejectUserBookingPayment *)

RejectRead(c) == Call(c, TRUE, "reject") /\ UNCHANGED reads

\* Faulty: only paymentStatus is written.
RejectPaymentOnly(c) ==
    /\ pc[c] = "reject" /\ status # "DELETED"
    /\ payment' = "FAILED"
    /\ Goto(c, "done")
    /\ UNCHANGED <<status, hold, approved, books, trip, reads, cron>>

\* Faulty: a paymentStatus the enum does not have.
RejectUnknownStatus(c) ==
    /\ pc[c] = "reject" /\ status # "DELETED"
    /\ status' = "CANCELLED" /\ payment' = "REJECTED"
    /\ Goto(c, "done")
    /\ UNCHANGED <<hold, approved, books, trip, reads, cron>>

RejectWrite(c) ==
    /\ pc[c] = "reject" /\ status # "DELETED"
    /\ status' = "CANCELLED" /\ payment' = "FAILED"
    /\ Goto(c, "done")
    /\ UNCHANGED <<hold, approved, books, trip, reads, cron>>

-----------------------------------------------------------------------------
(* cancelBooking by an authorised caller *)

CancelRead(c) ==
    /\ Call(c, status \in {"HELD", "CONFIRMED"} /\ refund = "none", "day")
    /\ readPayment' = [readPayment EXCEPT ![c] = payment]
    /\ UNCHANGED verifying

\* Same-day and departed trips are refused.
CancelCheckDay(c) ==
    /\ pc[c] = "day"
    /\ Goto(c, IF departure = "closed" THEN "done" ELSE "cancel")
    /\ UNCHANGED <<row, books, trip, reads, cron>>

\* Faulty: every cancellation not rejected before owes a refund.
CancelRefundsAlways(c) ==
    /\ pc[c] = "cancel" /\ status # "DELETED" /\ refund = "none"
    /\ refund' = IF readPayment[c] # "FAILED" THEN "PENDING" ELSE "NOT_APPLICABLE"
    /\ status' = "CANCELLED"
    /\ tickets' = [t \in Issuers |-> IF tickets[t] = "none" THEN "none" ELSE "CANCELLED"]
    /\ Goto(c, "done")
    /\ UNCHANGED <<payment, hold, approved, payments, trip, reads, cron>>

\* Faulty: the tickets stay valid.
CancelKeepsTickets(c) ==
    /\ pc[c] = "cancel" /\ status # "DELETED" /\ refund = "none"
    /\ refund' = IF readPayment[c] = "PAID" THEN "PENDING" ELSE "NOT_APPLICABLE"
    /\ status' = "CANCELLED"
    /\ Goto(c, "done")
    /\ UNCHANGED <<payment, hold, approved, payments, tickets, trip, reads,
                   cron>>

\* cancellations.bookingId is unique: a second row cannot be inserted.
CancelWrite(c) ==
    /\ pc[c] = "cancel" /\ status # "DELETED" /\ refund = "none"
    /\ refund' = IF readPayment[c] = "PAID" THEN "PENDING" ELSE "NOT_APPLICABLE"
    /\ status' = "CANCELLED"
    /\ tickets' = [t \in Issuers |-> IF tickets[t] = "none" THEN "none" ELSE "CANCELLED"]
    /\ Goto(c, "done")
    /\ UNCHANGED <<payment, hold, approved, payments, trip, reads, cron>>

CancelTwice(c) ==
    /\ pc[c] = "cancel" /\ refund # "none"
    /\ Goto(c, "done")
    /\ UNCHANGED <<row, books, trip, reads, cron>>

-----------------------------------------------------------------------------
(* deleteBooking *)

DeleteRead(c) == Call(c, TRUE, "delete") /\ UNCHANGED reads

DeleteWrite(c) ==
    /\ pc[c] = "delete" /\ status # "DELETED"
    /\ status' = "DELETED"
    /\ payments' = {}
    /\ tickets' = [t \in Issuers |-> "none"]
    /\ refund' = "none"
    /\ Goto(c, "done")
    /\ UNCHANGED <<payment, hold, approved, trip, reads, cron>>

-----------------------------------------------------------------------------
(* verifyTicket and verifyByQrToken at the gate                            *)

\* Only the lookup by ticket number asks for a confirmed booking.
VerifyRead(c) ==
    \E t \in Issuers, byQrToken \in BOOLEAN :
        /\ tickets[t] # "none"
        /\ Call(c, tickets[t] = "ACTIVE" /\ (byQrToken \/ status = "CONFIRMED"), "use")
        /\ verifying' = [verifying EXCEPT ![c] = t]
        /\ UNCHANGED readPayment

VerifyWrite(c) ==
    /\ pc[c] = "use" /\ status # "DELETED" /\ tickets[verifying[c]] # "none"
    /\ tickets' = [tickets EXCEPT ![verifying[c]] = "USED"]
    /\ Goto(c, "done")
    /\ UNCHANGED <<row, payments, refund, trip, reads, cron>>

-----------------------------------------------------------------------------
(* expireHeldBookings, run by cron every minute *)

\* Faulty: the job looks only at trips that are still ahead.
CronScanAhead ==
    /\ cron = "idle"
    /\ status = "HELD" /\ hold = "past" /\ departure = "ahead"
    /\ cron' = "found"
    /\ UNCHANGED <<row, books, trip, local>>

CronScan ==
    /\ cron = "idle"
    /\ status = "HELD" /\ hold = "past"
    /\ cron' = "found"
    /\ UNCHANGED <<row, books, trip, local>>

\* The update of a row deleted since the scan throws and ends the run.
CronWrite ==
    /\ cron = "found"
    /\ cron' = "idle"
    /\ status' = IF status = "DELETED" THEN status ELSE "EXPIRED"
    /\ UNCHANGED <<payment, hold, approved, books, trip, local>>

-----------------------------------------------------------------------------
(* Time and failure *)

HoldLapses ==
    /\ hold = "ahead"
    /\ hold' = "past"
    /\ UNCHANGED <<status, payment, approved, books, trip, local, cron>>

DepartureDayComes ==
    /\ departure = "ahead"
    /\ departure' = "closed"
    /\ UNCHANGED <<row, books, seated, local, cron>>

\* The process dies with the call in it; what it committed stays.
Crash(c) ==
    /\ pc[c] \notin {"idle", "done"}
    /\ Goto(c, "done")
    /\ UNCHANGED <<row, books, trip, reads, cron>>

\* The run ends before its update of this row: the process dies, or the update
\* of a row before it in the list threw.
CronStops ==
    /\ cron = "found"
    /\ cron' = "idle"
    /\ UNCHANGED <<row, books, trip, local>>

Step(c) ==
    \/ SubmitRead(c) \/ SubmitWrite(c)
    \/ ApproveRead(c) \/ ApproveWrite(c) \/ ApproveStamp(c)
    \/ RejectRead(c) \/ RejectWrite(c)
    \/ CancelRead(c) \/ CancelCheckDay(c) \/ CancelWrite(c) \/ CancelTwice(c)
    \/ DeleteRead(c) \/ DeleteWrite(c)
    \/ VerifyRead(c) \/ VerifyWrite(c)
    \/ \E label \in {"submit", "approve", "stamp", "reject", "cancel", "delete",
                      "use"} : Throws(c, label)
    \/ Crash(c)

Next ==
    \/ \E c \in Calls : Step(c)
    \/ CronScan \/ CronWrite \/ CronStops
    \/ HoldLapses
    \/ DepartureDayComes

Spec == Init /\ [][Next]_vars

\* Time passes, and cron starts the job every minute: a job that keeps finding
\* the row reaches its update in the end.
FairSpec ==
    /\ Spec
    /\ WF_vars(HoldLapses)
    /\ WF_vars(CronScan)
    /\ SF_vars(CronWrite)

-----------------------------------------------------------------------------
(* Properties *)

Received == payments # {} \/ tickets[Sale] # "none"

\* A held booking always carries a deadline: no interleaving of submissions,
\* approvals and crashes leaves one that the cron query can never match.
HeldCanExpire == status = "HELD" => hold # "none"

\* A confirmed booking is paid, has no deadline and, if it has passengers at all,
\* a ticket that is valid or was used, also when cancellations and rejections ran against its approval.
ConfirmedIsTicketed ==
    status = "CONFIRMED" =>
        /\ payment = "PAID"
        /\ hold = "none"
        /\ seated => \E c \in Issuers : tickets[c] \in {"ACTIVE", "USED"}

\* cancelBooking decides on the refund from an old read, but it never promises
\* a refund for a booking that no money was received for.
RefundOfReceivedMoney == refund = "PENDING" => Received

\* A deleted booking leaves no payment, ticket or cancellation behind, and the
\* handlers still in flight cannot bring one back.
DeletedLeavesNothing ==
    status = "DELETED" =>
        /\ payments = {}
        /\ \A c \in Issuers : tickets[c] = "none"
        /\ refund = "none"

\* The tables this module writes keep the promises of BookingLedger.
Ledger == INSTANCE BookingLedger WITH open <- (status # "DELETED")
LedgerSpec == Ledger!Spec

\* Seats are not held for ever: a held booking is confirmed, given up or
\* expired in the end.
HeldIsResolved == status = "HELD" ~> status # "HELD"

\* Not kept by the code: expireHeldBookings is documented to expire held bookings
\* past their expiry, but its updates do not repeat the condition of its scan.
ExpiresLapsedHolds ==
    [][status # "EXPIRED" /\ status' = "EXPIRED"
       => status = "HELD" /\ hold = "past"]_vars

\* Not kept by the code: confirmBooking returns a confirmed booking as it is
\* ("Already confirmed") and takes no second payment, but two approvals can race.
ConfirmedOnce ==
    [][status = "CONFIRMED" => payments' \subseteq payments]_vars

=============================================================================
