----------------------------- MODULE BulkQuota -----------------------------
(***************************************************************************)
(* The bulk ticket orders of one counter agent                             *)
(* (src/src/counter-agent/counter-agent.service.ts): the agent buys, an    *)
(* admin approves, rejects or deletes, and sellTicketFromBulk sells        *)
(* tickets out of the remaining quantities, oldest order first.            *)
(*                                                                         *)
(* A sale lists the orders, then writes remainingQuantity and status as    *)
(* absolute values computed from that list; an admin's call reads the      *)
(* order, then writes it.  No write repeats the condition of the read.     *)
(*                                                                         *)
(* Tickets of an order are numbered: those up to remaining are unsold, and *)
(* a sale takes the highest numbers its list showed as unsold.  The        *)
(* numbers are the model's, so that a ticket sold twice can be named.      *)
(*                                                                         *)
(* Two more write the table: the seed gives its three agents orders that   *)
(* are ACTIVE from the start, and the removal of an agent takes all of the *)
(* agent's orders along.                                                   *)
(***************************************************************************)
EXTENDS Integers, FiniteSets, FiniteSetsExt

CONSTANTS
    Orders,      \* ids of the agent's orders, in order of createdAt
    Sales,       \* calls of sellTicketFromBulk by the agent
    Admins,      \* calls that approve, reject or delete an order
    MaxQuantity  \* bound of the model: largest order

ASSUME QuotaAssumption == Orders \subseteq Nat /\ MaxQuantity \in Nat

VARIABLES
    status,      \* status[o]: bulk_ticket_orders.status, "none" before purchase
    quantity,    \* quantity[o]: tickets bought
    remaining,   \* remaining[o]: remainingQuantity
    approved,    \* approved[o]: approvedAt is set
    pc,          \* pc[s]: where sale s stands
    need,        \* need[s]: seats sale s asks for
    found,       \* found[s][o]: remainingQuantity that sale s listed, 0 if not listed
    seeded,      \* history: orders the seed made
    seen,        \* history: sales already made when s listed the orders
    taken,       \* history: taken[s][o]: tickets sale s took from order o
    admin        \* admin[a]: what call a is about to write, and to which order

orders == <<status, quantity, remaining, approved, seeded>>
sales == <<pc, need, found, seen, taken>>
vars == <<orders, sales, admin>>

BULK_MIN_QUANTITY == 2

TypeOK ==
    /\ status \in [Orders -> {"none", "PENDING_APPROVAL", "ACTIVE", "EXHAUSTED",
                              "REJECTED", "DELETED"}]
    /\ quantity \in [Orders -> 0..MaxQuantity]
    /\ remaining \in [Orders -> 0..MaxQuantity]
    /\ approved \in [Orders -> BOOLEAN]
    /\ seeded \subseteq Orders
    /\ pc \in [Sales -> {"idle", "deduct", "sold", "refused"}]
    /\ need \in [Sales -> Nat]
    /\ found \in [Sales -> [Orders -> 0..MaxQuantity]]
    /\ seen \in [Sales -> SUBSET Sales]
    /\ taken \in [Sales -> [Orders -> SUBSET (1..MaxQuantity)]]
    /\ admin \in [Admins -> [call : {"idle", "approve", "reject", "delete", "done"},
                             order : Orders \cup {-1}]]

Init ==
    /\ status = [o \in Orders |-> "none"]
    /\ quantity = [o \in Orders |-> 0]
    /\ remaining = [o \in Orders |-> 0]
    /\ approved = [o \in Orders |-> FALSE]
    /\ seeded = {}
    /\ pc = [s \in Sales |-> "idle"]
    /\ need = [s \in Sales |-> 0]
    /\ found = [s \in Sales |-> [o \in Orders |-> 0]]
    /\ seen = [s \in Sales |-> {}]
    /\ taken = [s \in Sales |-> [o \in Orders |-> {}]]
    /\ admin = [a \in Admins |-> [call |-> "idle", order |-> -1]]

Exists(o) == status[o] \notin {"none", "DELETED"}

Goto(s, label) == pc' = [pc EXCEPT ![s] = label]

-----------------------------------------------------------------------------
(* buyBulkTickets and the seed *)

Create(o, initial) ==
    /\ status[o] = "none"
    /\ \A p \in Orders : p < o => status[p] # "none"
    /\ \E q \in BULK_MIN_QUANTITY..MaxQuantity :
          /\ quantity' = [quantity EXCEPT ![o] = q]
          /\ remaining' = [remaining EXCEPT ![o] = q]
    /\ status' = [status EXCEPT ![o] = initial]
    /\ UNCHANGED <<approved, sales, admin>>

Buy(o) == Create(o, "PENDING_APPROVAL") /\ UNCHANGED seeded

\* The seed creates an order when the agent has none on one route; routes are not
\* told apart here, so any run of the seed may find none.
Seed(o) == Create(o, "ACTIVE") /\ seeded' = seeded \cup {o}

\* UsersService.remove: the agent's orders go, and none is made any more.
RemoveAgent ==
    /\ status' = [o \in Orders |-> "DELETED"]
    /\ UNCHANGED <<quantity, remaining, approved, seeded, sales, admin>>

-----------------------------------------------------------------------------
(* approveBulkOrder, rejectBulkOrder, deleteBulkOrder *)

Over == [call |-> "done", order |-> -1]

\* Only an approval looks at the status.
AdminRead(a) ==
    /\ admin[a].call = "idle"
    /\ \E o \in {p \in Orders : Exists(p)}, call \in {"approve", "reject", "delete"} :
          admin' = [admin EXCEPT ![a] =
              IF call = "approve" /\ status[o] # "PENDING_APPROVAL"
              THEN Over ELSE [call |-> call, order |-> o]]
    /\ UNCHANGED <<orders, sales>>

Returns(a) == admin' = [admin EXCEPT ![a] = Over]

ApproveWrite(a) ==
    /\ admin[a].call = "approve" /\ Exists(admin[a].order)
    /\ status' = [status EXCEPT ![admin[a].order] = "ACTIVE"]
    /\ approved' = [approved EXCEPT ![admin[a].order] = TRUE]
    /\ Returns(a)
    /\ UNCHANGED <<quantity, remaining, seeded, sales>>

RejectWrite(a) ==
    /\ admin[a].call = "reject" /\ Exists(admin[a].order)
    /\ status' = [status EXCEPT ![admin[a].order] = "REJECTED"]
    /\ Returns(a)
    /\ UNCHANGED <<quantity, remaining, approved, seeded, sales>>

DeleteWrite(a) ==
    /\ admin[a].call = "delete" /\ Exists(admin[a].order)
    /\ status' = [status EXCEPT ![admin[a].order] = "DELETED"]
    /\ Returns(a)
    /\ UNCHANGED <<quantity, remaining, approved, seeded, sales>>

\* The order is gone, or the process dies before the write.
AdminFails(a) ==
    /\ admin[a].call \notin {"idle", "done"}
    /\ Returns(a)
    /\ UNCHANGED <<orders, sales>>

-----------------------------------------------------------------------------
(* sellTicketFromBulk *)

\* Faulty: every order with tickets left is listed.
ListAnyStatus(s) == [o \in Orders |-> IF Exists(o) THEN remaining[o] ELSE 0]

\* The active orders with a remaining balance.
Listed(s) == [o \in Orders |-> IF status[o] = "ACTIVE" THEN remaining[o] ELSE 0]

\* The agent picks the seats; the balance must suffice for them.
ListOrders(s) ==
    /\ pc[s] = "idle"
    /\ \E n \in 1..(MaxQuantity + 1) :
          \/ /\ SumFunction(Listed(s)) < n
             /\ Goto(s, "refused")
             /\ UNCHANGED <<need, found, seen>>
          \/ /\ SumFunction(Listed(s)) >= n
             /\ need' = [need EXCEPT ![s] = n]
             /\ found' = [found EXCEPT ![s] = Listed(s)]
             /\ seen' = [seen EXCEPT ![s] = {t \in Sales : pc[t] = "sold"}]
             /\ Goto(s, "deduct")
    /\ UNCHANGED <<orders, taken, admin>>

\* How the loop spreads the seats over the list: oldest order first, each as far
\* as the list says it goes.
Deductions(s) ==
    {d \in [Orders -> 0..MaxQuantity] :
        /\ \A o \in Orders : d[o] <= found[s][o]
        /\ \A o, p \in Orders : o < p /\ d[p] > 0 => d[o] = found[s][o]
        /\ SumFunction(d) = need[s]}

\* Faulty: the first order pays for all seats.
DeductFromFirst(s) ==
    /\ pc[s] = "deduct"
    /\ \E o \in Orders :
          /\ found[s][o] > 0 /\ Exists(o)
          /\ \A p \in Orders : p < o => found[s][p] = 0
          /\ remaining' = [remaining EXCEPT ![o] = found[s][o] - need[s]]
          /\ status' = [status EXCEPT ![o] = "ACTIVE"]
          /\ taken' = [taken EXCEPT ![s][o] = 1..found[s][o]]
    /\ Goto(s, "sold")
    /\ UNCHANGED <<quantity, approved, seeded, need, found, seen, admin>>

\* Faulty: only the status is written.
DeductNothing(s) ==
    /\ pc[s] = "deduct"
    /\ \E d \in Deductions(s) :
          /\ \A o \in Orders : d[o] > 0 => Exists(o)
          /\ taken' = [taken EXCEPT ![s] =
                [o \in Orders |-> found[s][o] - d[o] + 1 .. found[s][o]]]
    /\ Goto(s, "sold")
    /\ UNCHANGED <<status, remaining, quantity, approved, seeded, need, found,
                   seen, admin>>

\* Faulty: an order is closed as soon as it pays for part of a sale.
DeductAll(s) ==
    /\ pc[s] = "deduct"
    /\ \E d \in Deductions(s) :
          /\ \A o \in Orders : d[o] > 0 => Exists(o)
          /\ remaining' = [o \in Orders |-> IF d[o] > 0 THEN 0 ELSE remaining[o]]
          /\ status' = [o \in Orders |-> IF d[o] > 0 THEN "EXHAUSTED" ELSE status[o]]
          /\ taken' = [taken EXCEPT ![s] =
                [o \in Orders |-> found[s][o] - d[o] + 1 .. found[s][o]]]
    /\ Goto(s, "sold")
    /\ UNCHANGED <<quantity, approved, seeded, need, found, seen, admin>>

\* The transaction: orders that are deducted from must still exist.
Deduct(s) ==
    /\ pc[s] = "deduct"
    /\ \E d \in Deductions(s) :
          /\ \A o \in Orders : d[o] > 0 => Exists(o)
          /\ remaining' = [o \in Orders |->
                IF d[o] > 0 THEN found[s][o] - d[o] ELSE remaining[o]]
          /\ status' = [o \in Orders |->
                IF d[o] = 0 THEN status[o]
                ELSE IF d[o] = found[s][o] THEN "EXHAUSTED" ELSE "ACTIVE"]
          /\ taken' = [taken EXCEPT ![s] =
                [o \in Orders |-> found[s][o] - d[o] + 1 .. found[s][o]]]
    /\ Goto(s, "sold")
    /\ UNCHANGED <<quantity, approved, seeded, need, found, seen, admin>>

\* The transaction fails (an order was deleted, time-out) or the process dies.
Rollback(s) ==
    /\ pc[s] = "deduct"
    /\ Goto(s, "refused")
    /\ UNCHANGED <<orders, need, found, seen, taken, admin>>

-----------------------------------------------------------------------------
(* Commission handlers write ACTIVE or EXHAUSTED to orders they read when   *)
(* active, or that have earned something: orders that were approved once,    *)
(* or came from the seed.                                                    *)

CommissionWrites(o) ==
    /\ Exists(o) /\ (approved[o] \/ o \in seeded)
    /\ \E new \in {"ACTIVE", "EXHAUSTED"} : status' = [status EXCEPT ![o] = new]
    /\ UNCHANGED <<quantity, remaining, approved, seeded, sales, admin>>

Next ==
    \/ \E o \in Orders : Buy(o) \/ Seed(o) \/ CommissionWrites(o)
    \/ RemoveAgent
    \/ \E a \in Admins :
          AdminRead(a) \/ ApproveWrite(a) \/ RejectWrite(a) \/ DeleteWrite(a)
          \/ AdminFails(a)
    \/ \E s \in Sales : ListOrders(s) \/ Deduct(s) \/ Rollback(s)

Spec == Init /\ [][Next]_vars

-----------------------------------------------------------------------------
(* Properties *)

\* Two sales from order o that both listed it before the other was committed.
Raced(o) ==
    \E s, t \in Sales :
        /\ s # t
        /\ taken[s][o] # {} /\ taken[t][o] # {}
        /\ s \notin seen[t] /\ t \notin seen[s]

\* A ticket of o was sold twice, or is sold and still offered.
Oversold(o) ==
    \E s \in Sales :
        \/ taken[s][o] \cap 1..remaining[o] # {}
        \/ \E t \in Sales \ {s} : taken[s][o] \cap taken[t][o] # {}

\* An agent gets more tickets out of an order than were bought only if two sales
\* from that order overlapped, however orders are approved, rejected, deleted and
\* reopened around them.
OversoldNeedsRace == \A o \in Orders : Oversold(o) => Raced(o)

\* Every ticket bought is in the order's balance or was sold: an overwritten
\* deduction never costs the agent a ticket.  (Whether the balance is on offer is
\* another matter: the status may be overwritten with EXHAUSTED.)
NoTicketLost ==
    \A o \in Orders : \A ticket \in 1..quantity[o] :
        ticket <= remaining[o] \/ \E s \in Sales : ticket \in taken[s][o]

\* Tickets are sold only out of orders whose payment an admin approved, also when
\* the order was rejected or its status overwritten in between, or out of the
\* orders the seed made, which nobody approved.
SoldWereApproved ==
    \A s \in Sales, o \in Orders :
        taken[s][o] # {} => approved[o] \/ o \in seeded

\* Not kept by the code: "Insufficient bulk ticket balance", no ticket of an order
\* is sold twice; of two overlapping sales one overwrites the other's deduction.
SoldWithinQuota ==
    \A s, t \in Sales, o \in Orders : s # t => taken[s][o] \cap taken[t][o] = {}

=============================================================================
