--------------------------- MODULE BookingLedger ---------------------------
(***************************************************************************)
(* What the payments, tickets and cancellations tables promise about one   *)
(* booking, without the handlers that write them: a ticket is issued only  *)
(* together with a payment, a refund is promised at most once and only     *)
(* when money was taken, the refund voids every ticket in the same step,   *)
(* and a deleted booking keeps no record.  BookingLifecycle implements it. *)
(***************************************************************************)
CONSTANTS
    Calls,   \* calls that may collect a payment
    Sale     \* names the tickets of a booking an agent sold from bulk quota

VARIABLES
    open,      \* FALSE once the booking is deleted
    seated,    \* the booking has passengers
    payments,  \* calls that recorded a payment
    tickets,   \* tickets[c]: status of the tickets issued with payment c
    refund     \* "none", or the refundStatus of the cancellation

ledger == <<open, seated, payments, tickets, refund>>

Issuers == Calls \cup {Sale}

\* Money came in: by a payment, or through the agent's bulk order.
Received == payments # {} \/ tickets[Sale] # "none"

Init ==
    /\ open = TRUE
    /\ payments = {}
    /\ seated \in BOOLEAN
    /\ \E sold \in IF seated THEN {"none", "ACTIVE"} ELSE {"none"} :
          tickets = [c \in Issuers |-> IF c = Sale THEN sold ELSE "none"]
    /\ refund = "none"

\* A payment and its tickets are recorded together.
Collect(c) ==
    /\ open
    /\ c \notin payments
    /\ payments' = payments \cup {c}
    /\ tickets' = IF seated THEN [tickets EXCEPT ![c] = "ACTIVE"] ELSE tickets
    /\ UNCHANGED <<open, seated, refund>>

\* The cancellation: all tickets become void, money is owed only if received.
Settle(kind) ==
    /\ open
    /\ refund = "none"
    /\ kind = "PENDING" => Received
    /\ refund' = kind
    /\ tickets' = [t \in Issuers |-> IF tickets[t] = "none" THEN "none" ELSE "CANCELLED"]
    /\ UNCHANGED <<open, seated, payments>>

\* The gate marks an issued ticket used; a verification may be late.
Use(t) ==
    /\ open
    /\ tickets[t] # "none"
    /\ tickets' = [tickets EXCEPT ![t] = "USED"]
    /\ UNCHANGED <<open, seated, payments, refund>>

\* The booking and its records are deleted.
Erase ==
    /\ open
    /\ open' = FALSE
    /\ payments' = {}
    /\ tickets' = [t \in Issuers |-> "none"]
    /\ refund' = "none"
    /\ UNCHANGED seated

Next ==
    \/ \E c \in Calls : Collect(c)
    \/ \E kind \in {"PENDING", "NOT_APPLICABLE"} : Settle(kind)
    \/ \E t \in Issuers : Use(t)
    \/ Erase

Spec == Init /\ [][Next]_ledger

=============================================================================
