-------------------------- MODULE Commission_proofs --------------------------
(***************************************************************************)
(* Proofs about Commission, for any calls, bookings, orders, share, cap.   *)
(***************************************************************************)
EXTENDS Commission, TLAPS

LEMMA StepTypeOK == TypeOK /\ [Next]_vars => TypeOK'
<1> SUFFICES ASSUME TypeOK, [Next]_vars PROVE TypeOK'
  OBVIOUS
<1> USE AmountAssumption, NoBookingAssumption
    DEF TypeOK, Goto, ListOrders, AddTo, AfterCredit, Lesser, RowsOf, rows, orders, trips, work
<1>1. ASSUME NEW c \in Calls, DistributeRead(c) PROVE TypeOK'
  <2>1. PICK b \in Bookings :
           /\ booking' = [booking EXCEPT ![c] = b]
           /\ due' = [due EXCEPT ![c] = departed[b]]
    BY <1>1 DEF DistributeRead
  <2>2. booking' \in [Calls -> Bookings \cup {NoBooking}] /\ due' \in [Calls -> BOOLEAN]
    BY <2>1
  <2>3. pc' = [pc EXCEPT ![c] = "done"] \/ pc' = [pc EXCEPT ![c] = "find"]
    BY <1>1 DEF DistributeRead
  <2>4. /\ listed' = [listed EXCEPT ![c] = Capacity]
        /\ amount' = [amount EXCEPT ![c] = earned]
        /\ left' = [left EXCEPT ![c] = Share]
        /\ UNCHANGED <<rows, orders, trips, todo, settled, current, settlers, crowded>>
    BY <1>1 DEF DistributeRead
  <2>5. Capacity \subseteq Orders
    BY DEF Capacity
  <2>6. pc' \in [Calls -> {"idle", "find", "create", "credit", "settle", "orders",
                          "cancelBooking", "lookup", "reverse", "debit", "cancel",
                          "referral", "done"}]
    BY <2>3
  <2>7. /\ listed' \in [Calls -> SUBSET Orders]
        /\ amount' \in [Calls -> [Orders -> Int]]
        /\ left' \in [Calls -> Int]
    BY <2>4, <2>5
  <2>8. QED
    BY <2>2, <2>4, <2>6, <2>7
<1>2. ASSUME NEW c \in Calls, DistributeFind(c) PROVE TypeOK'
  BY <1>2 DEF DistributeFind
<1>3. ASSUME NEW c \in Calls, DistributeCreate(c) PROVE TypeOK'
  BY <1>3 DEF DistributeCreate
<1>4. ASSUME NEW c \in Calls, Credit(c) PROVE TypeOK'
  BY <1>4 DEF Credit
<1>5. ASSUME NEW c \in Calls, SettleRead(c) PROVE TypeOK'
  <2>1. DueRows \subseteq Calls
    BY DEF DueRows
  <2>2. todo' \in [Calls -> SUBSET Calls]
    BY <1>5, <2>1 DEF SettleRead
  <2>3. settlers' \in [Calls -> SUBSET Calls]
    BY <1>5 DEF SettleRead
  <2>4. QED
    BY <1>5, <2>2, <2>3 DEF SettleRead
<1>6. ASSUME NEW c \in Calls, SettleRow(c) PROVE TypeOK'
  BY <1>6 DEF SettleRow
<1>7. ASSUME NEW c \in Calls, SettleOrders(c) PROVE TypeOK'
  BY <1>7 DEF SettleOrders
<1>8. ASSUME NEW c \in Calls, CancelRead(c) PROVE TypeOK'
  BY <1>8 DEF CancelRead
<1>9. ASSUME NEW c \in Calls, CancelBooking(c) PROVE TypeOK'
  BY <1>9 DEF CancelBooking
<1>10. ASSUME NEW c \in Calls, ReverseRead(c) PROVE TypeOK'
  BY <1>10 DEF ReverseRead
<1>11. ASSUME NEW c \in Calls, ReverseRow(c) PROVE TypeOK'
  <2>1. PICK d \in todo[c] :
           /\ todo' = [todo EXCEPT ![c] = @ \ {d}]
           /\ current' = [current EXCEPT ![c] = d]
           /\ \/ ListOrders(c, Orders) /\ Goto(c, "debit")
              \/ Goto(c, "cancel") /\ UNCHANGED <<listed, amount, left>>
    BY <1>11 DEF ReverseRow
  <2>2. todo' \in [Calls -> SUBSET Calls] /\ current' \in [Calls -> Calls]
    BY <2>1
  <2>3. UNCHANGED <<rows, orders, trips, booking, due, settled, settlers, crowded>>
    BY <1>11 DEF ReverseRow
  <2>4. CASE ListOrders(c, Orders) /\ Goto(c, "debit")
    BY <2>2, <2>3, <2>4
  <2>5. CASE Goto(c, "cancel") /\ UNCHANGED <<listed, amount, left>>
    BY <2>2, <2>3, <2>5
  <2>6. QED
    BY <2>1, <2>4, <2>5
<1>12. ASSUME NEW c \in Calls, Debit(c) PROVE TypeOK'
  <2>1. PICK o \in listed[c] :
           LET sum == Lesser(left[c], amount[c][o]) IN
           /\ listed' = [listed EXCEPT ![c] = @ \ {o}]
           /\ earned' = earned \/ earned' = [earned EXCEPT ![o] = @ - sum]
           /\ active' = active \/ active' = [active EXCEPT ![o] = TRUE]
           /\ stale' = stale \/ stale' = stale \cup {o}
           /\ left' = left \/ left' = [left EXCEPT ![c] = @ - sum]
           /\ debited' = debited \/ debited' = [debited EXCEPT ![current[c]] = @ + sum]
           /\ pc' = [pc EXCEPT ![c] = "debit"] \/ pc' = [pc EXCEPT ![c] = "cancel"]
    BY <1>12 DEF Debit
  <2>2. o \in Orders /\ Lesser(left[c], amount[c][o]) \in Int
    OBVIOUS
  <2>3. UNCHANGED <<row, credited, escaped, trips, booking, due, todo, settled, current,
                    amount, settlers, crowded>>
    BY <1>12 DEF Debit
  <2>4. earned' \in [Orders -> Int] /\ left' \in [Calls -> Int] /\ debited' \in [Calls -> Int]
    BY <2>1, <2>2
  <2>5. /\ active' \in [Orders -> BOOLEAN]
        /\ stale' \subseteq Orders
        /\ listed' \in [Calls -> SUBSET Orders]
    BY <2>1, <2>2
  <2>6. pc' \in [Calls -> {"idle", "find", "create", "credit", "settle", "orders",
                          "cancelBooking", "lookup", "reverse", "debit", "cancel",
                          "referral", "done"}]
    BY <2>1
  <2>7. QED
    BY <2>3, <2>4, <2>5, <2>6
<1>13. ASSUME NEW c \in Calls, ReverseCancel(c) PROVE TypeOK'
  BY <1>13 DEF ReverseCancel
<1>14. ASSUME NEW c \in Calls, Return(c) PROVE TypeOK'
  BY <1>14 DEF Return
<1>15. ASSUME NEW c \in Calls, Fails(c) PROVE TypeOK'
  BY <1>15 DEF Fails
<1>16. ASSUME NEW c \in Calls, ReferralSale(c) PROVE TypeOK'
  BY <1>16 DEF ReferralSale
<1>17. ASSUME NEW c \in Calls, ReferralRow(c) PROVE TypeOK'
  BY <1>17 DEF ReferralRow
<1>18. ASSUME NEW c \in Calls, MarkCommissionPaid(c) PROVE TypeOK'
  BY <1>18 DEF MarkCommissionPaid
<1>19. ASSUME NEW b \in Bookings, RejectBooking(b) PROVE TypeOK'
  BY <1>19 DEF RejectBooking
<1>20. ASSUME NEW b \in Bookings, Revive(b) PROVE TypeOK'
  BY <1>20 DEF Revive
<1>21. ASSUME NEW b \in Bookings, DeleteBooking(b) PROVE TypeOK'
  BY <1>21 DEF DeleteBooking
<1>22. ASSUME NEW b \in Bookings, DayComes(b) PROVE TypeOK'
  BY <1>22 DEF DayComes
<1>23. ASSUME NEW o \in Orders, QuotaWrites(o) PROVE TypeOK'
  BY <1>23 DEF QuotaWrites
<1>24. CASE UNCHANGED vars
  BY <1>24 DEF vars
<1>25. QED
  BY <1>1, <1>2, <1>3, <1>4, <1>5, <1>6, <1>7, <1>8, <1>9, <1>10, <1>11, <1>12,
     <1>13, <1>14, <1>15, <1>16, <1>17, <1>18, <1>19, <1>20, <1>21, <1>22, <1>23,
     <1>24 DEF Next, Step

\* Every variable keeps its type.
THEOREM TypeCorrect == Spec => []TypeOK
<1>1. Init => TypeOK
  BY AmountAssumption, NoBookingAssumption DEF Init, TypeOK
<1>2. QED
  BY <1>1, StepTypeOK, PTL DEF Spec

-----------------------------------------------------------------------------
(* The inductive invariant *)

Early(c) == pc[c] \in {"idle", "find", "create", "referral"}

Arrived(d) == booking[d] \in Bookings /\ departed[booking[d]]

\* A call owns the row named after it; until it has created the row nobody else
\* has heard of it.
RowInv ==
    \A c \in Calls :
        /\ Early(c) => /\ row[c] = "none" /\ credited[c] = 0
                       /\ todo[c] = {} /\ settlers[c] = {}
        /\ pc[c] = "idle" => booking[c] = NoBooking /\ ~due[c]
        /\ pc[c] \in {"find", "create", "referral"} => booking[c] \in Bookings
        /\ row[c] # "none" => booking[c] \in Bookings

Creates(c, b) == pc[c] \in {"create", "referral"} /\ booking[c] = b

\* While a call is about to create the row of a booking, there is none, and nobody
\* else is about to create one.
SingleInv ==
    \A b \in Bookings : b \notin crowded =>
        /\ \A d, e \in RowsOf(b) : d = e
        /\ \A c \in Calls : Creates(c, b) =>
              /\ RowsOf(b) = {}
              /\ \A e \in Calls : Creates(e, b) => e = c

\* Whoever credits a row created it late or listed it while it was held, and
\* the day of departure has come.
PayerInv ==
    /\ \A c \in Calls : due[c] => Arrived(c) /\ settlers[c] = {}
    /\ \A c \in Calls : due[c] => row[c] # "HELD_UNTIL_DEPARTURE"
    /\ \A c \in Calls : pc[c] \in {"settle", "orders", "credit"} =>
          \A d \in todo[c] : c \in settlers[d] /\ Arrived(d)
    /\ \A c \in Calls : pc[c] \in {"orders", "credit"} =>
          /\ current[c] \notin todo[c]
          /\ Arrived(current[c])
          /\ c \in settlers[current[c]] \/ (current[c] = c /\ due[c])
    /\ \A c, d \in Calls : c \in settlers[d] => pc[c] # "idle"

\* What a row still misses is what its payer has left.
CreditInv ==
    /\ \A d \in Calls : credited[d] # 0 => Arrived(d)
    /\ \A d \in Calls : settlers[d] = {} /\ ~due[d] => credited[d] = 0
    /\ \A c \in Calls : pc[c] \in {"find", "create"} => left[c] = Share
    /\ \A d \in Calls : (\A c, e \in settlers[d] : c = e) =>
          /\ credited[d] <= Share
          /\ \A c \in Calls :
                /\ pc[c] = "credit" /\ current[c] = d => credited[d] + left[c] = Share
                /\ pc[c] = "orders" /\ current[c] = d => credited[d] = 0
                /\ pc[c] \in {"settle", "orders", "credit"} /\ d \in todo[c]
                      => credited[d] = 0

CapInv ==
    /\ \A c \in Calls : left[c] >= 0
    /\ EarnedWithinCap

\* A reversal will cancel the row, or never can.
Handled(d) == d \in escaped \/ \E c \in Calls : Reverses(c, d)

\* What a cancelled booking has open is handled.
EscapedInv ==
    \A d \in Calls : row[d] # "none" /\ cancelled[booking[d]] /\ Open(d) => Handled(d)

IInv == TypeOK /\ RowInv /\ SingleInv /\ PayerInv /\ CreditInv /\ CapInv /\ EscapedInv

LEMMA StepRowInv == IInv /\ TypeOK' /\ [Next]_vars => RowInv'
<1> SUFFICES ASSUME IInv, TypeOK', [Next]_vars PROVE RowInv'
  OBVIOUS
<1> USE NoBookingAssumption
    DEF IInv, TypeOK, RowInv, Early, Goto, ListOrders, AddTo, AfterCredit, RowsOf,
        rows, orders, trips, work
<1>1. ASSUME NEW c \in Calls, DistributeRead(c) PROVE RowInv'
  BY <1>1 DEF DistributeRead
<1>2. ASSUME NEW c \in Calls, DistributeFind(c) PROVE RowInv'
  BY <1>2 DEF DistributeFind
<1>3. ASSUME NEW c \in Calls, DistributeCreate(c) PROVE RowInv'
  BY <1>3 DEF DistributeCreate
<1>4. ASSUME NEW c \in Calls, Credit(c) PROVE RowInv'
  <2>1. ~Early(current[c])
    BY <1>4 DEF Credit, PayerInv
  <2>2. /\ \A d \in Calls : d # current[c] => credited'[d] = credited[d]
        /\ \A d \in Calls : d # c => pc'[d] = pc[d]
        /\ pc[c] = "credit" /\ pc'[c] \in {"credit", "settle", "done"}
        /\ UNCHANGED <<row, escaped, booking, due, todo, settlers>>
    BY <1>4 DEF Credit
  <2>3. QED
    BY <2>1, <2>2
<1>5. ASSUME NEW c \in Calls, SettleRead(c) PROVE RowInv'
  <2>1. \A d \in Calls : d # c => pc'[d] = pc[d] /\ todo'[d] = todo[d]
    BY <1>5 DEF SettleRead
  <2>2. \A d \in Calls : Early(d) => d \notin DueRows /\ settlers'[d] = settlers[d]
    BY <1>5 DEF SettleRead, DueRows
  <2>3. pc'[c] = "settle" /\ UNCHANGED <<row, credited, escaped, booking, due>>
    BY <1>5 DEF SettleRead
  <2>4. QED
    BY <2>1, <2>2, <2>3
<1>6. ASSUME NEW c \in Calls, SettleRow(c) PROVE RowInv'
  BY <1>6 DEF SettleRow
<1>7. ASSUME NEW c \in Calls, SettleOrders(c) PROVE RowInv'
  BY <1>7 DEF SettleOrders
<1>8. ASSUME NEW c \in Calls, CancelRead(c) PROVE RowInv'
  BY <1>8 DEF CancelRead
<1>9. ASSUME NEW c \in Calls, CancelBooking(c) PROVE RowInv'
  BY <1>9 DEF CancelBooking
<1>10. ASSUME NEW c \in Calls, ReverseRead(c) PROVE RowInv'
  BY <1>10 DEF ReverseRead
<1>11. ASSUME NEW c \in Calls, ReverseRow(c) PROVE RowInv'
  BY <1>11 DEF ReverseRow
<1>12. ASSUME NEW c \in Calls, Debit(c) PROVE RowInv'
  BY <1>12 DEF Debit
<1>13. ASSUME NEW c \in Calls, ReverseCancel(c) PROVE RowInv'
  BY <1>13 DEF ReverseCancel
<1>14. ASSUME NEW c \in Calls, Return(c) PROVE RowInv'
  BY <1>14 DEF Return
<1>15. ASSUME NEW c \in Calls, Fails(c) PROVE RowInv'
  BY <1>15 DEF Fails
<1>16. ASSUME NEW c \in Calls, ReferralSale(c) PROVE RowInv'
  BY <1>16 DEF ReferralSale
<1>17. ASSUME NEW c \in Calls, ReferralRow(c) PROVE RowInv'
  BY <1>17 DEF ReferralRow
<1>18. ASSUME NEW c \in Calls, MarkCommissionPaid(c) PROVE RowInv'
  BY <1>18 DEF MarkCommissionPaid
<1>19. ASSUME NEW b \in Bookings, RejectBooking(b) PROVE RowInv'
  BY <1>19 DEF RejectBooking
<1>20. ASSUME NEW b \in Bookings, Revive(b) PROVE RowInv'
  BY <1>20 DEF Revive
<1>21. ASSUME NEW b \in Bookings, DeleteBooking(b) PROVE RowInv'
  BY <1>21 DEF DeleteBooking
<1>22. ASSUME NEW b \in Bookings, DayComes(b) PROVE RowInv'
  BY <1>22 DEF DayComes
<1>23. ASSUME NEW o \in Orders, QuotaWrites(o) PROVE RowInv'
  BY <1>23 DEF QuotaWrites
<1>24. CASE UNCHANGED vars
  BY <1>24 DEF vars
<1>25. QED
  BY <1>1, <1>2, <1>3, <1>4, <1>5, <1>6, <1>7, <1>8, <1>9, <1>10, <1>11, <1>12,
     <1>13, <1>14, <1>15, <1>16, <1>17, <1>18, <1>19, <1>20, <1>21, <1>22, <1>23,
     <1>24 DEF Next, Step

LEMMA StepSingleInv == IInv /\ TypeOK' /\ [Next]_vars => SingleInv'
<1> SUFFICES ASSUME IInv, TypeOK', [Next]_vars PROVE SingleInv'
  OBVIOUS
<1> USE NoBookingAssumption
    DEF IInv, TypeOK, SingleInv, Creates, RowInv, Early, Goto, ListOrders, AfterCredit, RowsOf,
        rows, trips
<1>1. ASSUME NEW c \in Calls, DistributeRead(c) PROVE SingleInv'
  BY <1>1 DEF DistributeRead
<1>2. ASSUME NEW c \in Calls, DistributeFind(c) PROVE SingleInv'
  BY <1>2 DEF DistributeFind
<1>3. ASSUME NEW c \in Calls, DistributeCreate(c) PROVE SingleInv'
  BY <1>3 DEF DistributeCreate
<1>4. ASSUME NEW c \in Calls, Credit(c) PROVE SingleInv'
  BY <1>4 DEF Credit
<1>5. ASSUME NEW c \in Calls, SettleRead(c) PROVE SingleInv'
  BY <1>5 DEF SettleRead
<1>6. ASSUME NEW c \in Calls, SettleRow(c) PROVE SingleInv'
  BY <1>6 DEF SettleRow
<1>7. ASSUME NEW c \in Calls, SettleOrders(c) PROVE SingleInv'
  BY <1>7 DEF SettleOrders
<1>8. ASSUME NEW c \in Calls, CancelRead(c) PROVE SingleInv'
  BY <1>8 DEF CancelRead
<1>9. ASSUME NEW c \in Calls, CancelBooking(c) PROVE SingleInv'
  BY <1>9 DEF CancelBooking
<1>10. ASSUME NEW c \in Calls, ReverseRead(c) PROVE SingleInv'
  BY <1>10 DEF ReverseRead
<1>11. ASSUME NEW c \in Calls, ReverseRow(c) PROVE SingleInv'
  <2>1. /\ \A d \in Calls : pc'[d] \in {"create", "referral"} => pc'[d] = pc[d]
        /\ UNCHANGED <<row, booking, crowded>>
    BY <1>11 DEF ReverseRow
  <2>2. QED
    BY <2>1
<1>12. ASSUME NEW c \in Calls, Debit(c) PROVE SingleInv'
  <2>1. /\ \A d \in Calls : pc'[d] \in {"create", "referral"} => pc'[d] = pc[d]
        /\ UNCHANGED <<row, booking, crowded>>
    BY <1>12 DEF Debit
  <2>2. QED
    BY <2>1
<1>13. ASSUME NEW c \in Calls, ReverseCancel(c) PROVE SingleInv'
  BY <1>13 DEF ReverseCancel
<1>14. ASSUME NEW c \in Calls, Return(c) PROVE SingleInv'
  BY <1>14 DEF Return
<1>15. ASSUME NEW c \in Calls, Fails(c) PROVE SingleInv'
  BY <1>15 DEF Fails
<1>16. ASSUME NEW c \in Calls, ReferralSale(c) PROVE SingleInv'
  BY <1>16 DEF ReferralSale
<1>17. ASSUME NEW c \in Calls, ReferralRow(c) PROVE SingleInv'
  BY <1>17 DEF ReferralRow
<1>18. ASSUME NEW c \in Calls, MarkCommissionPaid(c) PROVE SingleInv'
  BY <1>18 DEF MarkCommissionPaid
<1>19. ASSUME NEW b \in Bookings, RejectBooking(b) PROVE SingleInv'
  BY <1>19 DEF RejectBooking
<1>20. ASSUME NEW b \in Bookings, Revive(b) PROVE SingleInv'
  BY <1>20 DEF Revive
<1>21. ASSUME NEW b \in Bookings, DeleteBooking(b) PROVE SingleInv'
  BY <1>21 DEF DeleteBooking
<1>22. ASSUME NEW b \in Bookings, DayComes(b) PROVE SingleInv'
  BY <1>22 DEF DayComes
<1>23. ASSUME NEW o \in Orders, QuotaWrites(o) PROVE SingleInv'
  BY <1>23 DEF QuotaWrites
<1>24. CASE UNCHANGED vars
  BY <1>24 DEF vars
<1>25. QED
  BY <1>1, <1>2, <1>3, <1>4, <1>5, <1>6, <1>7, <1>8, <1>9, <1>10, <1>11, <1>12,
     <1>13, <1>14, <1>15, <1>16, <1>17, <1>18, <1>19, <1>20, <1>21, <1>22, <1>23,
     <1>24 DEF Next, Step

LEMMA StepPayerInv == IInv /\ TypeOK' /\ [Next]_vars => PayerInv'
<1> SUFFICES ASSUME IInv, TypeOK', [Next]_vars PROVE PayerInv'
  OBVIOUS
<1> USE NoBookingAssumption
    DEF IInv, TypeOK, PayerInv, RowInv, Early, Arrived, DueRows, Goto, ListOrders, AddTo,
        AfterCredit, rows, trips, work
<1>1. ASSUME NEW c \in Calls, DistributeRead(c) PROVE PayerInv'
  BY <1>1 DEF DistributeRead
<1>2. ASSUME NEW c \in Calls, DistributeFind(c) PROVE PayerInv'
  BY <1>2 DEF DistributeFind
<1>3. ASSUME NEW c \in Calls, DistributeCreate(c) PROVE PayerInv'
  BY <1>3 DEF DistributeCreate
<1>4. ASSUME NEW c \in Calls, Credit(c) PROVE PayerInv'
  BY <1>4 DEF Credit
<1>5. ASSUME NEW c \in Calls, SettleRead(c) PROVE PayerInv'
  BY <1>5 DEF SettleRead
<1>6. ASSUME NEW c \in Calls, SettleRow(c) PROVE PayerInv'
  BY <1>6 DEF SettleRow
<1>7. ASSUME NEW c \in Calls, SettleOrders(c) PROVE PayerInv'
  BY <1>7 DEF SettleOrders
<1>8. ASSUME NEW c \in Calls, CancelRead(c) PROVE PayerInv'
  BY <1>8 DEF CancelRead
<1>9. ASSUME NEW c \in Calls, CancelBooking(c) PROVE PayerInv'
  BY <1>9 DEF CancelBooking
<1>10. ASSUME NEW c \in Calls, ReverseRead(c) PROVE PayerInv'
  BY <1>10 DEF ReverseRead
<1>11. ASSUME NEW c \in Calls, ReverseRow(c) PROVE PayerInv'
  BY <1>11 DEF ReverseRow
<1>12. ASSUME NEW c \in Calls, Debit(c) PROVE PayerInv'
  <2>1. /\ \A d \in Calls : d # c => pc'[d] = pc[d]
        /\ pc'[c] \in {"debit", "cancel"}
        /\ UNCHANGED <<row, departed, booking, due, todo, current, settlers>>
    BY <1>12 DEF Debit
  <2>2. QED
    BY <2>1
<1>13. ASSUME NEW c \in Calls, ReverseCancel(c) PROVE PayerInv'
  BY <1>13 DEF ReverseCancel
<1>14. ASSUME NEW c \in Calls, Return(c) PROVE PayerInv'
  BY <1>14 DEF Return
<1>15. ASSUME NEW c \in Calls, Fails(c) PROVE PayerInv'
  BY <1>15 DEF Fails
<1>16. ASSUME NEW c \in Calls, ReferralSale(c) PROVE PayerInv'
  BY <1>16 DEF ReferralSale
<1>17. ASSUME NEW c \in Calls, ReferralRow(c) PROVE PayerInv'
  BY <1>17 DEF ReferralRow
<1>18. ASSUME NEW c \in Calls, MarkCommissionPaid(c) PROVE PayerInv'
  BY <1>18 DEF MarkCommissionPaid
<1>19. ASSUME NEW b \in Bookings, RejectBooking(b) PROVE PayerInv'
  BY <1>19 DEF RejectBooking
<1>20. ASSUME NEW b \in Bookings, Revive(b) PROVE PayerInv'
  BY <1>20 DEF Revive
<1>21. ASSUME NEW b \in Bookings, DeleteBooking(b) PROVE PayerInv'
  BY <1>21 DEF DeleteBooking
<1>22. ASSUME NEW b \in Bookings, DayComes(b) PROVE PayerInv'
  BY <1>22 DEF DayComes
<1>23. ASSUME NEW o \in Orders, QuotaWrites(o) PROVE PayerInv'
  BY <1>23 DEF QuotaWrites
<1>24. CASE UNCHANGED vars
  BY <1>24 DEF vars
<1>25. QED
  BY <1>1, <1>2, <1>3, <1>4, <1>5, <1>6, <1>7, <1>8, <1>9, <1>10, <1>11, <1>12,
     <1>13, <1>14, <1>15, <1>16, <1>17, <1>18, <1>19, <1>20, <1>21, <1>22, <1>23,
     <1>24 DEF Next, Step

\* A step of a reversal credits nothing and ends in no payment.
LEMMA ReversalKeepsCreditInv ==
  ASSUME IInv, NEW c \in Calls, ReverseRow(c) \/ Debit(c)
  PROVE  CreditInv'
<1>1. /\ \A d \in Calls : d # c => pc'[d] = pc[d]
      /\ pc'[c] \in {"debit", "cancel"}
  BY DEF ReverseRow, Debit, Goto, IInv, TypeOK
<1>2. \A d \in Calls : d # c => /\ left'[d] = left[d] /\ todo'[d] = todo[d]
                                /\ current'[d] = current[d]
  BY DEF ReverseRow, Debit, ListOrders, IInv, TypeOK
<1>3. UNCHANGED <<credited, departed, booking, due, settlers>>
  BY DEF ReverseRow, Debit, rows, trips
<1>4. \A d \in Calls : credited'[d] # 0 => Arrived(d)'
  BY <1>3 DEF IInv, CreditInv, Arrived
<1>5. QED
  BY <1>1, <1>2, <1>3, <1>4 DEF IInv, CreditInv

\* The payer of a row adds a sum to it: nobody else is paying the same row, or
\* it was listed by two settlements.
LEMMA CreditKeepsCreditInv ==
  ASSUME IInv, NEW c \in Calls, Credit(c)
  PROVE  CreditInv'
<1> DEFINE d == current[c]
           OneSettler(e) == \A f, g \in settlers[e] : f = g
<1>0. /\ left \in [Calls -> Int] /\ credited \in [Calls -> Int]
      /\ d \in Calls /\ Share \in Nat /\ Cap \in Nat
      /\ \A o \in Orders : amount[c][o] \in Int
      /\ listed[c] \subseteq Orders
  BY AmountAssumption DEF IInv, TypeOK
<1>1. PICK o \in listed[c] :
         /\ AddTo(c, o, Lesser(left[c], Cap - amount[c][o]))
         /\ Goto(c, AfterCredit(c, o, Lesser(left[c], Cap - amount[c][o])))
  BY DEF Credit
<1> DEFINE sum == Lesser(left[c], Cap - amount[c][o])
<1>2. sum \in Int /\ sum <= left[c]
  BY <1>0, <1>1 DEF Lesser
<1> HIDE DEF sum
<1>3. /\ left' = [left EXCEPT ![c] = @ - sum]
      /\ credited' = [credited EXCEPT ![d] = @ + sum]
  BY <1>1 DEF AddTo, sum
<1>4. /\ \A e \in Calls : e # c => pc'[e] = pc[e]
      /\ pc[c] = "credit" /\ pc'[c] \in {"credit", "settle", "done"}
  BY <1>1 DEF Credit, Goto, AfterCredit, IInv, TypeOK
<1>5. UNCHANGED <<departed, booking, due, todo, current, settlers>>
  BY DEF Credit, trips
<1>6. Arrived(d) /\ d \notin todo[c] /\ (c \in settlers[d] \/ (d = c /\ due[c]))
  BY <1>4 DEF IInv, PayerInv
<1>7. due[d] => settlers[d] = {}
  BY <1>0 DEF IInv, PayerInv
<1>8. ASSUME OneSettler(d), NEW e \in Calls \ {c}
      PROVE  /\ ~(pc[e] \in {"orders", "credit"} /\ current[e] = d)
             /\ ~(pc[e] \in {"settle", "orders", "credit"} /\ d \in todo[e])
  <2>1. ASSUME e \in settlers[d] PROVE FALSE
    BY <1>6, <1>7, <1>8, <2>1
  <2>2. pc[e] \in {"orders", "credit"} /\ current[e] = d => e \in settlers[d]
    BY <1>6, <1>7, <1>8 DEF IInv, PayerInv
  <2>3. pc[e] \in {"settle", "orders", "credit"} /\ d \in todo[e] => e \in settlers[d]
    BY DEF IInv, PayerInv
  <2>4. QED
    BY <2>1, <2>2, <2>3
<1>9. \A e \in Calls : credited'[e] # 0 => Arrived(e)'
  BY <1>0, <1>3, <1>5, <1>6 DEF IInv, CreditInv, Arrived
<1>10. \A e \in Calls : settlers'[e] = {} /\ ~due'[e] => credited'[e] = 0
  BY <1>0, <1>3, <1>5, <1>6 DEF IInv, CreditInv
<1>11. \A e \in Calls : pc'[e] \in {"find", "create"} => left'[e] = Share
  BY <1>0, <1>3, <1>4 DEF IInv, CreditInv
<1> DEFINE Fair(e) ==
      /\ credited[e] <= Share
      /\ \A f \in Calls :
            /\ pc[f] = "credit" /\ current[f] = e => credited[e] + left[f] = Share
            /\ pc[f] = "orders" /\ current[f] = e => credited[e] = 0
            /\ pc[f] \in {"settle", "orders", "credit"} /\ e \in todo[f]
                  => credited[e] = 0
<1>12. \A e \in Calls : OneSettler(e) => Fair(e)
  BY DEF IInv, CreditInv
<1>13. ASSUME NEW e \in Calls, OneSettler(e), e # d PROVE Fair(e)'
  BY <1>0, <1>3, <1>4, <1>5, <1>12, <1>13
<1>14. ASSUME OneSettler(d) PROVE Fair(d)'
  <2>1. credited[d] + left[c] = Share
    BY <1>0, <1>4, <1>12, <1>14
  <2>2. credited'[d] = credited[d] + sum /\ left'[c] = left[c] - sum
    BY <1>0, <1>3
  <2>3. credited'[d] <= Share
    BY <1>0, <1>2, <2>1, <2>2
  <2>4. ASSUME NEW f \in Calls
        PROVE  /\ pc'[f] = "credit" /\ current'[f] = d => credited'[d] + left'[f] = Share
               /\ pc'[f] = "orders" /\ current'[f] = d => credited'[d] = 0
               /\ pc'[f] \in {"settle", "orders", "credit"} /\ d \in todo'[f]
                     => credited'[d] = 0
    <3>1. CASE f = c
      BY <1>0, <1>2, <1>4, <1>5, <1>6, <2>1, <2>2, <3>1
    <3>2. CASE f # c
      BY <1>4, <1>5, <1>8, <1>14, <3>2
    <3>3. QED
      BY <3>1, <3>2
  <2>5. QED
    BY <1>5, <2>3, <2>4
<1>15. \A e \in Calls : OneSettler(e)' => Fair(e)'
  BY <1>5, <1>13, <1>14
<1>16. QED
  BY <1>9, <1>10, <1>11, <1>15 DEF CreditInv

LEMMA StepCreditInv == IInv /\ TypeOK' /\ [Next]_vars => CreditInv'
<1> SUFFICES ASSUME IInv, TypeOK', [Next]_vars PROVE CreditInv'
  OBVIOUS
<1> USE AmountAssumption, NoBookingAssumption
    DEF IInv, TypeOK, CreditInv, RowInv, Early, PayerInv, Arrived, DueRows, Goto,
        ListOrders, rows, trips, work
<1>1. ASSUME NEW c \in Calls, DistributeRead(c) PROVE CreditInv'
  BY <1>1 DEF DistributeRead
<1>2. ASSUME NEW c \in Calls, DistributeFind(c) PROVE CreditInv'
  BY <1>2 DEF DistributeFind
<1>3. ASSUME NEW c \in Calls, DistributeCreate(c) PROVE CreditInv'
  <2>1. /\ \A d \in Calls : d # c => pc'[d] = pc[d] /\ current'[d] = current[d]
        /\ pc[c] = "create" /\ current'[c] = c
        /\ pc'[c] = IF due[c] THEN "credit" ELSE "done"
        /\ UNCHANGED <<credited, departed, booking, due, todo, left, settlers>>
    BY <1>3 DEF DistributeCreate
  <2>2. credited[c] = 0 /\ settlers[c] = {} /\ todo[c] = {}
    BY <2>1
  <2>3. left[c] = Share
    BY <2>1
  <2>4. QED
    BY <2>1, <2>2, <2>3
<1>4. ASSUME NEW c \in Calls, Credit(c) PROVE CreditInv'
  BY <1>4, CreditKeepsCreditInv
<1>5. ASSUME NEW c \in Calls, SettleRead(c) PROVE CreditInv'
  BY <1>5 DEF SettleRead
<1>6. ASSUME NEW c \in Calls, SettleRow(c) PROVE CreditInv'
  BY <1>6 DEF SettleRow
<1>7. ASSUME NEW c \in Calls, SettleOrders(c) PROVE CreditInv'
  BY <1>7 DEF SettleOrders
<1>8. ASSUME NEW c \in Calls, CancelRead(c) PROVE CreditInv'
  BY <1>8 DEF CancelRead
<1>9. ASSUME NEW c \in Calls, CancelBooking(c) PROVE CreditInv'
  BY <1>9 DEF CancelBooking
<1>10. ASSUME NEW c \in Calls, ReverseRead(c) PROVE CreditInv'
  BY <1>10 DEF ReverseRead
<1>11. ASSUME NEW c \in Calls, ReverseRow(c) PROVE CreditInv'
  BY <1>11, ReversalKeepsCreditInv
<1>12. ASSUME NEW c \in Calls, Debit(c) PROVE CreditInv'
  BY <1>12, ReversalKeepsCreditInv
<1>13. ASSUME NEW c \in Calls, ReverseCancel(c) PROVE CreditInv'
  BY <1>13 DEF ReverseCancel
<1>14. ASSUME NEW c \in Calls, Return(c) PROVE CreditInv'
  BY <1>14 DEF Return
<1>15. ASSUME NEW c \in Calls, Fails(c) PROVE CreditInv'
  BY <1>15 DEF Fails
<1>16. ASSUME NEW c \in Calls, ReferralSale(c) PROVE CreditInv'
  BY <1>16 DEF ReferralSale
<1>17. ASSUME NEW c \in Calls, ReferralRow(c) PROVE CreditInv'
  BY <1>17 DEF ReferralRow
<1>18. ASSUME NEW c \in Calls, MarkCommissionPaid(c) PROVE CreditInv'
  BY <1>18 DEF MarkCommissionPaid
<1>19. ASSUME NEW b \in Bookings, RejectBooking(b) PROVE CreditInv'
  BY <1>19 DEF RejectBooking
<1>20. ASSUME NEW b \in Bookings, Revive(b) PROVE CreditInv'
  BY <1>20 DEF Revive
<1>21. ASSUME NEW b \in Bookings, DeleteBooking(b) PROVE CreditInv'
  BY <1>21 DEF DeleteBooking
<1>22. ASSUME NEW b \in Bookings, DayComes(b) PROVE CreditInv'
  BY <1>22 DEF DayComes
<1>23. ASSUME NEW o \in Orders, QuotaWrites(o) PROVE CreditInv'
  BY <1>23 DEF QuotaWrites
<1>24. CASE UNCHANGED vars
  BY <1>24 DEF vars
<1>25. QED
  BY <1>1, <1>2, <1>3, <1>4, <1>5, <1>6, <1>7, <1>8, <1>9, <1>10, <1>11, <1>12,
     <1>13, <1>14, <1>15, <1>16, <1>17, <1>18, <1>19, <1>20, <1>21, <1>22, <1>23,
     <1>24 DEF Next, Step

LEMMA StepCapInv == IInv /\ TypeOK' /\ [Next]_vars => CapInv'
<1> SUFFICES ASSUME IInv, TypeOK', [Next]_vars PROVE CapInv'
  OBVIOUS
<1> USE AmountAssumption DEF IInv, CapInv, EarnedWithinCap, Goto
<1>0. /\ left \in [Calls -> Int] /\ earned \in [Orders -> Int]
      /\ amount \in [Calls -> [Orders -> Int]] /\ \A c \in Calls : listed[c] \subseteq Orders
  BY DEF TypeOK
<1>1. ASSUME NEW c \in Calls, DistributeRead(c) PROVE CapInv'
  BY <1>0, <1>1 DEF DistributeRead, ListOrders, orders, work
<1>2. ASSUME NEW c \in Calls, DistributeFind(c) PROVE CapInv'
  BY <1>0, <1>2 DEF DistributeFind, orders, work
<1>3. ASSUME NEW c \in Calls, DistributeCreate(c) PROVE CapInv'
  BY <1>0, <1>3 DEF DistributeCreate, orders, work
<1>4. ASSUME NEW c \in Calls, Credit(c) PROVE CapInv'
  <2>1. PICK o \in listed[c] :
           LET sum == Lesser(left[c], Cap - amount[c][o]) IN
           /\ earned' = [earned EXCEPT ![o] = @ + sum]
           /\ stale' = IF earned[o] = amount[c][o] THEN stale ELSE stale \cup {o}
           /\ left' = [left EXCEPT ![c] = @ - sum]
    BY <1>4 DEF Credit, AddTo
  <2>2. o \in Orders /\ left[c] \in Int /\ amount[c][o] \in Int
    BY <1>0
  <2>3. \A e \in Calls : left'[e] >= 0
    BY <1>0, <2>1, <2>2 DEF Lesser
  <2>4. EarnedWithinCap'
    BY <1>0, <2>1, <2>2 DEF Lesser
  <2>5. QED
    BY <2>3, <2>4
<1>5. ASSUME NEW c \in Calls, SettleRead(c) PROVE CapInv'
  BY <1>0, <1>5 DEF SettleRead, orders, work
<1>6. ASSUME NEW c \in Calls, SettleRow(c) PROVE CapInv'
  BY <1>0, <1>6 DEF SettleRow, orders, work
<1>7. ASSUME NEW c \in Calls, SettleOrders(c) PROVE CapInv'
  BY <1>0, <1>7 DEF SettleOrders, ListOrders, orders, work
<1>8. ASSUME NEW c \in Calls, CancelRead(c) PROVE CapInv'
  BY <1>0, <1>8 DEF CancelRead, orders, work
<1>9. ASSUME NEW c \in Calls, CancelBooking(c) PROVE CapInv'
  BY <1>0, <1>9 DEF CancelBooking, orders, work
<1>10. ASSUME NEW c \in Calls, ReverseRead(c) PROVE CapInv'
  BY <1>0, <1>10 DEF ReverseRead, orders, work
<1>11. ASSUME NEW c \in Calls, ReverseRow(c) PROVE CapInv'
  <2>1. /\ left' = left \/ left' = [left EXCEPT ![c] = Share]
        /\ UNCHANGED <<earned, stale>>
    BY <1>11 DEF ReverseRow, ListOrders, orders
  <2>2. QED
    BY <1>0, <2>1
<1>12. ASSUME NEW c \in Calls, Debit(c) PROVE CapInv'
  <2>1. PICK o \in listed[c] :
           LET sum == Lesser(left[c], amount[c][o]) IN
           IF sum > 0
           THEN /\ earned' = [earned EXCEPT ![o] = @ - sum]
                /\ stale' = IF earned[o] = amount[c][o] THEN stale ELSE stale \cup {o}
                /\ left' = [left EXCEPT ![c] = @ - sum]
           ELSE UNCHANGED <<earned, stale, left>>
    BY <1>12 DEF Debit, orders
  <2>2. o \in Orders /\ left[c] \in Int /\ amount[c][o] \in Int
    BY <1>0
  <2>3. \A e \in Calls : left'[e] >= 0
    BY <1>0, <2>1, <2>2 DEF Lesser
  <2>4. EarnedWithinCap'
    BY <1>0, <2>1, <2>2 DEF Lesser
  <2>5. QED
    BY <2>3, <2>4
<1>13. ASSUME NEW c \in Calls, ReverseCancel(c) PROVE CapInv'
  BY <1>0, <1>13 DEF ReverseCancel, orders, work
<1>14. ASSUME NEW c \in Calls, Return(c) PROVE CapInv'
  BY <1>0, <1>14 DEF Return, orders, work
<1>15. ASSUME NEW c \in Calls, Fails(c) PROVE CapInv'
  BY <1>0, <1>15 DEF Fails, orders, work
<1>16. ASSUME NEW c \in Calls, ReferralSale(c) PROVE CapInv'
  BY <1>0, <1>16 DEF ReferralSale, orders, work
<1>17. ASSUME NEW c \in Calls, ReferralRow(c) PROVE CapInv'
  BY <1>0, <1>17 DEF ReferralRow, orders, work
<1>18. ASSUME NEW c \in Calls, MarkCommissionPaid(c) PROVE CapInv'
  BY <1>0, <1>18 DEF MarkCommissionPaid, orders, work
<1>19. ASSUME NEW b \in Bookings, RejectBooking(b) PROVE CapInv'
  BY <1>0, <1>19 DEF RejectBooking, orders, work
<1>20. ASSUME NEW b \in Bookings, Revive(b) PROVE CapInv'
  BY <1>0, <1>20 DEF Revive, orders, work
<1>21. ASSUME NEW b \in Bookings, DeleteBooking(b) PROVE CapInv'
  BY <1>0, <1>21 DEF DeleteBooking, orders, work
<1>22. ASSUME NEW b \in Bookings, DayComes(b) PROVE CapInv'
  BY <1>0, <1>22 DEF DayComes, orders, work
<1>23. ASSUME NEW o \in Orders, QuotaWrites(o) PROVE CapInv'
  BY <1>0, <1>23 DEF QuotaWrites, orders, work
<1>24. CASE UNCHANGED vars
  BY <1>24 DEF vars, orders, work
<1>25. QED
  BY <1>1, <1>2, <1>3, <1>4, <1>5, <1>6, <1>7, <1>8, <1>9, <1>10, <1>11, <1>12,
     <1>13, <1>14, <1>15, <1>16, <1>17, <1>18, <1>19, <1>20, <1>21, <1>22, <1>23,
     <1>24 DEF Next, Step

\* A call that reverses no row less, unless the row escapes, and opens no row of a
\* cancelled booking that was not open, keeps the invariant.
LEMMA EscapedFrame ==
  ASSUME IInv, NEW c \in Calls,
         \A e \in Calls \ {c} : /\ pc'[e] = pc[e] /\ todo'[e] = todo[e]
                                /\ current'[e] = current[e] /\ booking'[e] = booking[e],
         pc[c] = "idle" \/ booking'[c] = booking[c],
         escaped \subseteq escaped',
         \A d \in Calls : Reverses(c, d) /\ Open(d)' => Reverses(c, d)' \/ d \in escaped',
         \A d \in Calls : row'[d] # "none" /\ cancelled'[booking'[d]] =>
            \/ Handled(d)'
            \/ /\ row[d] # "none" /\ cancelled[booking[d]]
               /\ Pays(d)' \/ Reopens(c, d)' => Open(d)
  PROVE  EscapedInv'
<1>1. ASSUME NEW d \in Calls, row[d] # "none", row'[d] # "none", Handled(d), Open(d)'
      PROVE  Handled(d)'
  <2>1. CASE d \in escaped
    BY <2>1 DEF Handled
  <2>2. ASSUME NEW e \in Calls, Reverses(e, d), e # c PROVE Reverses(e, d)'
    <3>1. booking'[d] = booking[d]
      BY <1>1 DEF IInv, RowInv, Early
    <3>2. d \in RowsOf(booking[e]) => d \in RowsOf(booking[e])'
      BY <1>1, <2>2, <3>1 DEF RowsOf
    <3>3. QED
      BY <2>2, <3>2 DEF Reverses
  <2>3. Reverses(c, d) => Reverses(c, d)' \/ d \in escaped'
    BY <1>1
  <2>4. QED
    BY <1>1, <2>1, <2>2, <2>3 DEF Handled
<1>2. ASSUME NEW d \in Calls, row'[d] # "none", cancelled'[booking'[d]], Open(d)'
      PROVE  Handled(d)'
  <2>1. ASSUME NEW e \in Calls, Reopens(e, d)', e # c PROVE Open(d)
    <3>1. Reopens(e, d)
      BY <2>1 DEF Reopens
    <3>2. QED
      BY <3>1 DEF Open
  <2>2. Pays(d)' \/ Reopens(c, d)' \/ Open(d)
    BY <1>2, <2>1 DEF Open
  <2>3. row[d] # "none" /\ cancelled[booking[d]] /\ Open(d) => Handled(d)
    BY DEF IInv, EscapedInv
  <2>4. QED
    BY <1>1, <1>2, <2>2, <2>3
<1>3. QED
  BY <1>2 DEF EscapedInv

\* Nothing is open that was not, and what was handled is.
LEMMA StepEscapedInv == IInv /\ TypeOK' /\ [Next]_vars => EscapedInv'
<1> SUFFICES ASSUME IInv, TypeOK', [Next]_vars PROVE EscapedInv'
  OBVIOUS
<1>0. TypeOK /\ RowInv /\ EscapedInv
  BY DEF IInv
<1>1. ASSUME NEW c \in Calls, DistributeRead(c) PROVE EscapedInv'
  <2>1. /\ \A e \in Calls \ {c} : /\ pc'[e] = pc[e] /\ todo'[e] = todo[e]
                                    /\ current'[e] = current[e] /\ booking'[e] = booking[e]
        /\ pc[c] = "idle" \/ booking'[c] = booking[c]
        /\ escaped \subseteq escaped'
    BY <1>0, <1>1 DEF DistributeRead, TypeOK, Goto, rows, work
  <2>2. \A d \in Calls : Reverses(c, d) => Reverses(c, d)' \/ d \in escaped'
    BY <1>0, <1>1 DEF DistributeRead, TypeOK, Goto, Reverses, RowsOf, rows, work
  <2>3. \A d \in Calls : row'[d] # "none" /\ cancelled'[booking'[d]] =>
           \/ Handled(d)'
           \/ /\ row[d] # "none" /\ cancelled[booking[d]]
              /\ Pays(d)' \/ Reopens(c, d)' => Open(d)
    BY <1>0, <1>1
       DEF DistributeRead, TypeOK, RowInv, Early, Goto, Pays, Open, Reopens, rows,
           trips, work
  <2>4. QED
    BY <2>1, <2>2, <2>3, EscapedFrame
<1>2. ASSUME NEW c \in Calls, DistributeFind(c) PROVE EscapedInv'
  <2>1. /\ \A e \in Calls \ {c} : /\ pc'[e] = pc[e] /\ todo'[e] = todo[e]
                                    /\ current'[e] = current[e] /\ booking'[e] = booking[e]
        /\ pc[c] = "idle" \/ booking'[c] = booking[c]
        /\ escaped \subseteq escaped'
    BY <1>0, <1>2 DEF DistributeFind, TypeOK, Goto, rows, work
  <2>2. \A d \in Calls : Reverses(c, d) => Reverses(c, d)' \/ d \in escaped'
    BY <1>0, <1>2 DEF DistributeFind, TypeOK, Goto, Reverses, RowsOf, rows, work
  <2>3. \A d \in Calls : row'[d] # "none" /\ cancelled'[booking'[d]] =>
           \/ Handled(d)'
           \/ /\ row[d] # "none" /\ cancelled[booking[d]]
              /\ Pays(d)' \/ Reopens(c, d)' => Open(d)
    BY <1>0, <1>2
       DEF DistributeFind, TypeOK, RowInv, Goto, Pays, Open, Reopens, rows, trips, work
  <2>4. QED
    BY <2>1, <2>2, <2>3, EscapedFrame
<1>3. ASSUME NEW c \in Calls, DistributeCreate(c) PROVE EscapedInv'
  <2>1. /\ \A e \in Calls \ {c} : /\ pc'[e] = pc[e] /\ todo'[e] = todo[e]
                                    /\ current'[e] = current[e] /\ booking'[e] = booking[e]
        /\ pc[c] = "idle" \/ booking'[c] = booking[c]
        /\ escaped \subseteq escaped'
    BY <1>0, <1>3 DEF DistributeCreate, TypeOK, Goto, rows, work
  <2>2. \A d \in Calls : Reverses(c, d) => Reverses(c, d)' \/ d \in escaped'
    BY <1>0, <1>3 DEF DistributeCreate, TypeOK, Goto, Reverses, RowsOf, rows, work
  <2>3. \A d \in Calls : row'[d] # "none" /\ cancelled'[booking'[d]] =>
           \/ Handled(d)'
           \/ /\ row[d] # "none" /\ cancelled[booking[d]]
              /\ Pays(d)' \/ Reopens(c, d)' => Open(d)
    <3>1. /\ pc[c] = "create" /\ pc'[c] \in {"credit", "done"}
          /\ booking[c] \in Bookings /\ todo[c] = {}
          /\ row'[c] # "none" /\ \A d \in Calls \ {c} : row'[d] = row[d]
          /\ UNCHANGED <<booking, cancelled, todo>>
      BY <1>0, <1>3 DEF DistributeCreate, TypeOK, RowInv, Early, Goto, trips
    <3>2. ASSUME cancelled'[booking'[c]] PROVE Handled(c)'
      <4>1. ASSUME NEW e \in Calls, pc[e] = "lookup", booking[e] = booking[c]
            PROVE  Reverses(e, c)'
        BY <2>1, <3>1, <4>1 DEF Reverses, RowsOf
      <4>2. LooksFor(booking[c]) => Handled(c)'
        BY <4>1 DEF LooksFor, Handled
      <4>3. ~LooksFor(booking[c]) => c \in escaped'
        BY <1>3, <3>1, <3>2 DEF DistributeCreate
      <4>4. QED
        BY <4>2, <4>3 DEF Handled
    <3>3. \A d \in Calls \ {c} : Pays(d)' \/ Reopens(c, d)' => Open(d)
      BY <3>1 DEF Pays, Reopens, Open
    <3>4. QED
      BY <3>1, <3>2, <3>3
  <2>4. QED
    BY <2>1, <2>2, <2>3, EscapedFrame
<1>4. ASSUME NEW c \in Calls, Credit(c) PROVE EscapedInv'
  <2>1. /\ \A e \in Calls \ {c} : /\ pc'[e] = pc[e] /\ todo'[e] = todo[e]
                                    /\ current'[e] = current[e] /\ booking'[e] = booking[e]
        /\ pc[c] = "idle" \/ booking'[c] = booking[c]
        /\ escaped \subseteq escaped'
    BY <1>0, <1>4 DEF Credit, TypeOK, Goto, rows, work
  <2>2. \A d \in Calls : Reverses(c, d) => Reverses(c, d)' \/ d \in escaped'
    BY <1>0, <1>4 DEF Credit, TypeOK, Goto, Reverses, RowsOf, rows, work, AfterCredit
  <2>3. \A d \in Calls : row'[d] # "none" /\ cancelled'[booking'[d]] =>
           \/ Handled(d)'
           \/ /\ row[d] # "none" /\ cancelled[booking[d]]
              /\ Pays(d)' \/ Reopens(c, d)' => Open(d)
    BY <1>0, <1>4
       DEF Credit, TypeOK, RowInv, Goto, Pays, Open, Reopens, AfterCredit, rows, trips, work
  <2>4. QED
    BY <2>1, <2>2, <2>3, EscapedFrame
<1>5. ASSUME NEW c \in Calls, SettleRead(c) PROVE EscapedInv'
  <2>1. /\ \A e \in Calls \ {c} : /\ pc'[e] = pc[e] /\ todo'[e] = todo[e]
                                    /\ current'[e] = current[e] /\ booking'[e] = booking[e]
        /\ pc[c] = "idle" \/ booking'[c] = booking[c]
        /\ escaped \subseteq escaped'
    BY <1>0, <1>5 DEF SettleRead, TypeOK, Goto, rows, work
  <2>2. \A d \in Calls : Reverses(c, d) => Reverses(c, d)' \/ d \in escaped'
    BY <1>0, <1>5 DEF SettleRead, TypeOK, Goto, Reverses, RowsOf, rows, work
  <2>3. \A d \in Calls : row'[d] # "none" /\ cancelled'[booking'[d]] =>
           \/ Handled(d)'
           \/ /\ row[d] # "none" /\ cancelled[booking[d]]
              /\ Pays(d)' \/ Reopens(c, d)' => Open(d)
    BY <1>0, <1>5
       DEF SettleRead, TypeOK, RowInv, Goto, Pays, Open, Reopens, DueRows, rows, trips, work
  <2>4. QED
    BY <2>1, <2>2, <2>3, EscapedFrame
<1>6. ASSUME NEW c \in Calls, SettleRow(c) PROVE EscapedInv'
  <2>1. /\ \A e \in Calls \ {c} : /\ pc'[e] = pc[e] /\ todo'[e] = todo[e]
                                    /\ current'[e] = current[e] /\ booking'[e] = booking[e]
        /\ pc[c] = "idle" \/ booking'[c] = booking[c]
        /\ escaped \subseteq escaped'
    BY <1>0, <1>6 DEF SettleRow, TypeOK, Goto, rows, work
  <2>2. \A d \in Calls : Reverses(c, d) => Reverses(c, d)' \/ d \in escaped'
    BY <1>0, <1>6 DEF SettleRow, TypeOK, Goto, Reverses, RowsOf, rows, work
  <2>3. \A d \in Calls : row'[d] # "none" /\ cancelled'[booking'[d]] =>
           \/ Handled(d)'
           \/ /\ row[d] # "none" /\ cancelled[booking[d]]
              /\ Pays(d)' \/ Reopens(c, d)' => Open(d)
    BY <1>0, <1>6
       DEF SettleRow, TypeOK, RowInv, Goto, Pays, Open, Reopens, rows, trips, work
  <2>4. QED
    BY <2>1, <2>2, <2>3, EscapedFrame
<1>7. ASSUME NEW c \in Calls, SettleOrders(c) PROVE EscapedInv'
  <2>1. /\ \A e \in Calls \ {c} : /\ pc'[e] = pc[e] /\ todo'[e] = todo[e]
                                    /\ current'[e] = current[e] /\ booking'[e] = booking[e]
        /\ pc[c] = "idle" \/ booking'[c] = booking[c]
        /\ escaped \subseteq escaped'
    BY <1>0, <1>7 DEF SettleOrders, TypeOK, Goto, rows, work
  <2>2. \A d \in Calls : Reverses(c, d) => Reverses(c, d)' \/ d \in escaped'
    BY <1>0, <1>7 DEF SettleOrders, TypeOK, Goto, Reverses, RowsOf, rows, work
  <2>3. \A d \in Calls : row'[d] # "none" /\ cancelled'[booking'[d]] =>
           \/ Handled(d)'
           \/ /\ row[d] # "none" /\ cancelled[booking[d]]
              /\ Pays(d)' \/ Reopens(c, d)' => Open(d)
    BY <1>0, <1>7
       DEF SettleOrders, TypeOK, RowInv, Goto, Pays, Open, Reopens, rows, trips, work
  <2>4. QED
    BY <2>1, <2>2, <2>3, EscapedFrame
<1>8. ASSUME NEW c \in Calls, CancelRead(c) PROVE EscapedInv'
  <2>1. /\ \A e \in Calls \ {c} : /\ pc'[e] = pc[e] /\ todo'[e] = todo[e]
                                    /\ current'[e] = current[e] /\ booking'[e] = booking[e]
        /\ pc[c] = "idle" \/ booking'[c] = booking[c]
        /\ escaped \subseteq escaped'
    BY <1>0, <1>8 DEF CancelRead, TypeOK, Goto, rows, work
  <2>2. \A d \in Calls : Reverses(c, d) => Reverses(c, d)' \/ d \in escaped'
    BY <1>0, <1>8 DEF CancelRead, TypeOK, Goto, Reverses, RowsOf, rows, work
  <2>3. \A d \in Calls : row'[d] # "none" /\ cancelled'[booking'[d]] =>
           \/ Handled(d)'
           \/ /\ row[d] # "none" /\ cancelled[booking[d]]
              /\ Pays(d)' \/ Reopens(c, d)' => Open(d)
    BY <1>0, <1>8 DEF CancelRead, TypeOK, RowInv, Early, Goto, Pays, Open, Reopens,
                       rows, trips, work
  <2>4. QED
    BY <2>1, <2>2, <2>3, EscapedFrame
<1>9. ASSUME NEW c \in Calls, CancelBooking(c) PROVE EscapedInv'
  <2>1. /\ \A e \in Calls \ {c} : /\ pc'[e] = pc[e] /\ todo'[e] = todo[e]
                                    /\ current'[e] = current[e] /\ booking'[e] = booking[e]
        /\ pc[c] = "idle" \/ booking'[c] = booking[c]
        /\ escaped \subseteq escaped'
    BY <1>0, <1>9 DEF CancelBooking, TypeOK, Goto, rows, work
  <2>2. \A d \in Calls : Reverses(c, d) => Reverses(c, d)' \/ d \in escaped'
    BY <1>0, <1>9 DEF CancelBooking, TypeOK, Goto, Reverses, RowsOf, rows, work
  <2>3. \A d \in Calls : row'[d] # "none" /\ cancelled'[booking'[d]] =>
           \/ Handled(d)'
           \/ /\ row[d] # "none" /\ cancelled[booking[d]]
              /\ Pays(d)' \/ Reopens(c, d)' => Open(d)
    <3>1. /\ cancelled' = [cancelled EXCEPT ![booking[c]] = TRUE]
          /\ booking' = booking
      BY <1>9 DEF CancelBooking
    <3>2. row' = row /\ pc'[c] = "lookup"
      BY <1>0, <1>9 DEF CancelBooking, TypeOK, Goto, rows
    <3>3. ASSUME NEW d \in Calls, row'[d] # "none", booking[d] = booking[c]
          PROVE  Handled(d)'
      <4>1. d \in RowsOf(booking[c])'
        BY <1>0, <3>1, <3>2, <3>3 DEF RowsOf, TypeOK
      <4>2. QED
        BY <3>2, <4>1 DEF Handled, Reverses
    <3>4. ASSUME NEW d \in Calls, row'[d] # "none", cancelled'[booking'[d]],
                 booking[d] # booking[c]
          PROVE  cancelled[booking[d]]
      BY <1>0, <3>1, <3>2, <3>4 DEF TypeOK
    <3>5. \A d \in Calls : Pays(d)' \/ Reopens(c, d)' => Open(d)
      BY <3>2 DEF Pays, Reopens, Open
    <3>6. QED
      BY <3>2, <3>3, <3>4, <3>5
  <2>4. QED
    BY <2>1, <2>2, <2>3, EscapedFrame
<1>10. ASSUME NEW c \in Calls, ReverseRead(c) PROVE EscapedInv'
  <2>1. /\ \A e \in Calls \ {c} : /\ pc'[e] = pc[e] /\ todo'[e] = todo[e]
                                    /\ current'[e] = current[e] /\ booking'[e] = booking[e]
        /\ pc[c] = "idle" \/ booking'[c] = booking[c]
        /\ escaped \subseteq escaped'
    BY <1>0, <1>10 DEF ReverseRead, TypeOK, Goto, rows, work
  <2>2. \A d \in Calls : Reverses(c, d) => Reverses(c, d)' \/ d \in escaped'
    BY <1>0, <1>10 DEF ReverseRead, TypeOK, Goto, Reverses, RowsOf, rows, trips, work
  <2>3. \A d \in Calls : row'[d] # "none" /\ cancelled'[booking'[d]] =>
           \/ Handled(d)'
           \/ /\ row[d] # "none" /\ cancelled[booking[d]]
              /\ Pays(d)' \/ Reopens(c, d)' => Open(d)
    BY <1>0, <1>10
       DEF ReverseRead, TypeOK, RowInv, Goto, Pays, Open, Reopens, rows, trips, work
  <2>4. QED
    BY <2>1, <2>2, <2>3, EscapedFrame
<1>11. ASSUME NEW c \in Calls, ReverseRow(c) PROVE EscapedInv'
  <2>1. /\ \A e \in Calls \ {c} : /\ pc'[e] = pc[e] /\ todo'[e] = todo[e]
                                    /\ current'[e] = current[e] /\ booking'[e] = booking[e]
        /\ pc[c] = "idle" \/ booking'[c] = booking[c]
        /\ escaped \subseteq escaped'
    BY <1>0, <1>11 DEF ReverseRow, TypeOK, Goto, rows, work
  <2>2. \A d \in Calls : Reverses(c, d) => Reverses(c, d)' \/ d \in escaped'
    BY <1>0, <1>11 DEF ReverseRow, TypeOK, Goto, Reverses, RowsOf, rows, work
  <2>3. \A d \in Calls : row'[d] # "none" /\ cancelled'[booking'[d]] =>
           \/ Handled(d)'
           \/ /\ row[d] # "none" /\ cancelled[booking[d]]
              /\ Pays(d)' \/ Reopens(c, d)' => Open(d)
    BY <1>0, <1>11
       DEF ReverseRow, TypeOK, RowInv, Goto, Pays, Open, Reopens, rows, trips, work
  <2>4. QED
    BY <2>1, <2>2, <2>3, EscapedFrame
<1>12. ASSUME NEW c \in Calls, Debit(c) PROVE EscapedInv'
  <2>1. /\ \A e \in Calls \ {c} : /\ pc'[e] = pc[e] /\ todo'[e] = todo[e]
                                    /\ current'[e] = current[e] /\ booking'[e] = booking[e]
        /\ pc[c] = "idle" \/ booking'[c] = booking[c]
        /\ escaped \subseteq escaped'
    BY <1>0, <1>12 DEF Debit, TypeOK, Goto, rows, work
  <2>2. \A d \in Calls : Reverses(c, d) => Reverses(c, d)' \/ d \in escaped'
    BY <1>0, <1>12 DEF Debit, TypeOK, Goto, Reverses, RowsOf, rows, work
  <2>3. \A d \in Calls : row'[d] # "none" /\ cancelled'[booking'[d]] =>
           \/ Handled(d)'
           \/ /\ row[d] # "none" /\ cancelled[booking[d]]
              /\ Pays(d)' \/ Reopens(c, d)' => Open(d)
    BY <1>0, <1>12 DEF Debit, TypeOK, RowInv, Goto, Pays, Open, Reopens, rows, trips, work
  <2>4. QED
    BY <2>1, <2>2, <2>3, EscapedFrame
<1>13. ASSUME NEW c \in Calls, ReverseCancel(c) PROVE EscapedInv'
  <2>1. /\ \A e \in Calls \ {c} : /\ pc'[e] = pc[e] /\ todo'[e] = todo[e]
                                    /\ current'[e] = current[e] /\ booking'[e] = booking[e]
        /\ pc[c] = "idle" \/ booking'[c] = booking[c]
        /\ escaped \subseteq escaped'
    BY <1>0, <1>13 DEF ReverseCancel, TypeOK, Goto, rows, work
  <2>2. \A d \in Calls : Reverses(c, d) /\ Open(d)' => Reverses(c, d)' \/ d \in escaped'
    <3>1. current[c] \in Calls /\ pc[c] = "cancel" /\ pc'[c] = "reverse" /\ todo' = todo
      BY <1>0, <1>13 DEF ReverseCancel, TypeOK, Goto, work
    <3>2. \A d \in Calls : Reverses(c, d) => Reverses(c, d)' \/ d = current[c]
      BY <3>1 DEF Reverses
    <3>3. ASSUME Open(current[c])' PROVE current[c] \in escaped'
      <4>1. current' = current /\ row'[current[c]] = "CANCELLED"
        BY <1>0, <1>13, <3>1 DEF ReverseCancel, TypeOK, work
      <4>2. PICK e \in Calls : Reopens(e, current[c])'
        BY <3>3, <4>1 DEF Open, Pays
      <4>3. Reopens(e, current[c])
        BY <2>1, <3>1, <4>1, <4>2 DEF Reopens
      <4>4. QED
        BY <1>13, <4>3 DEF ReverseCancel
    <3>4. \A d \in Calls : d = current[c] /\ Open(d)' => d \in escaped'
      <4>1. current' = current
        BY <1>13 DEF ReverseCancel, work
      <4>2. QED
        BY <3>3, <4>1
    <3>5. QED
      BY <3>2, <3>4
  <2>3. \A d \in Calls : row'[d] # "none" /\ cancelled'[booking'[d]] =>
           \/ Handled(d)'
           \/ /\ row[d] # "none" /\ cancelled[booking[d]]
              /\ Pays(d)' \/ Reopens(c, d)' => Open(d)
    BY <1>0, <1>13
       DEF ReverseCancel, TypeOK, RowInv, Goto, Pays, Open, Reopens, Handled, rows,
           trips, work
  <2>4. QED
    BY <2>1, <2>2, <2>3, EscapedFrame
<1>14. ASSUME NEW c \in Calls, Return(c) PROVE EscapedInv'
  <2>1. /\ \A e \in Calls \ {c} : /\ pc'[e] = pc[e] /\ todo'[e] = todo[e]
                                    /\ current'[e] = current[e] /\ booking'[e] = booking[e]
        /\ pc[c] = "idle" \/ booking'[c] = booking[c]
        /\ escaped \subseteq escaped'
    BY <1>0, <1>14 DEF Return, TypeOK, Goto, rows, work
  <2>2. \A d \in Calls : Reverses(c, d) => Reverses(c, d)' \/ d \in escaped'
    BY <1>0, <1>14 DEF Return, TypeOK, Goto, Reverses, RowsOf, rows, work
  <2>3. \A d \in Calls : row'[d] # "none" /\ cancelled'[booking'[d]] =>
           \/ Handled(d)'
           \/ /\ row[d] # "none" /\ cancelled[booking[d]]
              /\ Pays(d)' \/ Reopens(c, d)' => Open(d)
    BY <1>0, <1>14 DEF Return, TypeOK, RowInv, Goto, Pays, Open, Reopens, rows, trips, work
  <2>4. QED
    BY <2>1, <2>2, <2>3, EscapedFrame
<1>15. ASSUME NEW c \in Calls, Fails(c) PROVE EscapedInv'
  <2>1. /\ \A e \in Calls \ {c} : /\ pc'[e] = pc[e] /\ todo'[e] = todo[e]
                                    /\ current'[e] = current[e] /\ booking'[e] = booking[e]
        /\ pc[c] = "idle" \/ booking'[c] = booking[c]
        /\ escaped \subseteq escaped'
    BY <1>0, <1>15 DEF Fails, TypeOK, Goto, rows, work
  <2>2. \A d \in Calls : Reverses(c, d) => Reverses(c, d)' \/ d \in escaped'
    BY <1>0, <1>15 DEF Fails, TypeOK, Goto, Reverses, RowsOf, rows, work
  <2>3. \A d \in Calls : row'[d] # "none" /\ cancelled'[booking'[d]] =>
           \/ Handled(d)'
           \/ /\ row[d] # "none" /\ cancelled[booking[d]]
              /\ Pays(d)' \/ Reopens(c, d)' => Open(d)
    BY <1>0, <1>15 DEF Fails, TypeOK, RowInv, Goto, Pays, Open, Reopens, rows, trips, work
  <2>4. QED
    BY <2>1, <2>2, <2>3, EscapedFrame
<1>16. ASSUME NEW c \in Calls, ReferralSale(c) PROVE EscapedInv'
  <2>1. /\ \A e \in Calls \ {c} : /\ pc'[e] = pc[e] /\ todo'[e] = todo[e]
                                    /\ current'[e] = current[e] /\ booking'[e] = booking[e]
        /\ pc[c] = "idle" \/ booking'[c] = booking[c]
        /\ escaped \subseteq escaped'
    BY <1>0, <1>16 DEF ReferralSale, TypeOK, Goto, rows, work
  <2>2. \A d \in Calls : Reverses(c, d) => Reverses(c, d)' \/ d \in escaped'
    BY <1>0, <1>16 DEF ReferralSale, TypeOK, Goto, Reverses, RowsOf, rows, work
  <2>3. \A d \in Calls : row'[d] # "none" /\ cancelled'[booking'[d]] =>
           \/ Handled(d)'
           \/ /\ row[d] # "none" /\ cancelled[booking[d]]
              /\ Pays(d)' \/ Reopens(c, d)' => Open(d)
    BY <1>0, <1>16
       DEF ReferralSale, TypeOK, RowInv, Goto, Pays, Open, Reopens, EscapedInv, Early,
           rows, trips, work
  <2>4. QED
    BY <2>1, <2>2, <2>3, EscapedFrame
<1>17. ASSUME NEW c \in Calls, ReferralRow(c) PROVE EscapedInv'
  <2>1. /\ \A e \in Calls \ {c} : /\ pc'[e] = pc[e] /\ todo'[e] = todo[e]
                                    /\ current'[e] = current[e] /\ booking'[e] = booking[e]
        /\ pc[c] = "idle" \/ booking'[c] = booking[c]
        /\ escaped \subseteq escaped'
    BY <1>0, <1>17 DEF ReferralRow, TypeOK, Goto, rows, work
  <2>2. \A d \in Calls : Reverses(c, d) => Reverses(c, d)' \/ d \in escaped'
    BY <1>0, <1>17 DEF ReferralRow, TypeOK, Goto, Reverses, RowsOf, rows, work
  <2>3. \A d \in Calls : row'[d] # "none" /\ cancelled'[booking'[d]] =>
           \/ Handled(d)'
           \/ /\ row[d] # "none" /\ cancelled[booking[d]]
              /\ Pays(d)' \/ Reopens(c, d)' => Open(d)
    <3>1. /\ pc[c] = "referral" /\ pc'[c] = "done"
          /\ row'[c] # "none" /\ \A d \in Calls \ {c} : row'[d] = row[d]
          /\ UNCHANGED <<booking, cancelled, todo>>
      BY <1>0, <1>17 DEF ReferralRow, TypeOK, Goto, trips, work
    <3>2. ASSUME cancelled'[booking'[c]] PROVE Handled(c)'
      <4>1. ASSUME NEW e \in Calls, pc[e] = "lookup", booking[e] = booking[c]
            PROVE  Reverses(e, c)'
        BY <2>1, <3>1, <4>1 DEF Reverses, RowsOf
      <4>2. LooksFor(booking[c]) => Handled(c)'
        BY <4>1 DEF LooksFor, Handled
      <4>3. ~LooksFor(booking[c]) => c \in escaped'
        BY <1>17, <3>1, <3>2 DEF ReferralRow
      <4>4. QED
        BY <4>2, <4>3 DEF Handled
    <3>3. \A d \in Calls \ {c} : Pays(d)' \/ Reopens(c, d)' => Open(d)
      BY <3>1 DEF Pays, Reopens, Open
    <3>4. QED
      BY <3>1, <3>2, <3>3
  <2>4. QED
    BY <2>1, <2>2, <2>3, EscapedFrame
<1>18. ASSUME NEW c \in Calls, MarkCommissionPaid(c) PROVE EscapedInv'
  <2>1. /\ \A e \in Calls \ {c} : /\ pc'[e] = pc[e] /\ todo'[e] = todo[e]
                                    /\ current'[e] = current[e] /\ booking'[e] = booking[e]
        /\ pc[c] = "idle" \/ booking'[c] = booking[c]
        /\ escaped \subseteq escaped'
    BY <1>0, <1>18 DEF MarkCommissionPaid, TypeOK, Goto, rows, work
  <2>2. \A d \in Calls : Reverses(c, d) => Reverses(c, d)' \/ d \in escaped'
    BY <1>0, <1>18 DEF MarkCommissionPaid, TypeOK, Goto, Reverses, RowsOf, rows, work
  <2>3. \A d \in Calls : row'[d] # "none" /\ cancelled'[booking'[d]] =>
           \/ Handled(d)'
           \/ /\ row[d] # "none" /\ cancelled[booking[d]]
              /\ Pays(d)' \/ Reopens(c, d)' => Open(d)
    BY <1>0, <1>18
       DEF MarkCommissionPaid, TypeOK, RowInv, Goto, Pays, Open, Reopens, rows, trips, work
  <2>4. QED
    BY <2>1, <2>2, <2>3, EscapedFrame
<1>19. ASSUME NEW b \in Bookings, RejectBooking(b) PROVE EscapedInv'
  <2>1. UNCHANGED <<row, booking, pc, todo, current>>
    BY <1>19 DEF RejectBooking, work
  <2>2. /\ cancelled' = [cancelled EXCEPT ![b] = TRUE]
        /\ escaped' = escaped \cup
              {d \in RowsOf(b) : Open(d) /\ ~\E c \in Calls : Reverses(c, d)}
    BY <1>19 DEF RejectBooking
  <2>3. ASSUME NEW d \in Calls, row[d] # "none", cancelled'[booking[d]], Open(d)
        PROVE  Handled(d)'
    <3>1. Handled(d) \/ d \in escaped'
      <4>1. CASE cancelled[booking[d]]
        BY <1>0, <2>3, <4>1 DEF EscapedInv
      <4>2. CASE booking[d] = b
        BY <2>2, <2>3, <4>2 DEF RowsOf, Handled
      <4>3. QED
        BY <1>0, <2>2, <2>3, <4>1, <4>2 DEF TypeOK, RowInv
    <3>2. Handled(d) => Handled(d)'
      BY <2>1, <2>2 DEF Handled, Reverses, RowsOf
    <3>3. QED
      BY <3>1, <3>2 DEF Handled
  <2>4. \A d \in Calls : Open(d)' => Open(d)
    BY <2>1 DEF Open, Pays, Reopens
  <2>5. QED
    BY <2>1, <2>3, <2>4 DEF EscapedInv
<1>20. ASSUME NEW b \in Bookings, Revive(b) PROVE EscapedInv'
  <2>1. UNCHANGED <<row, booking, pc, todo, current, escaped>>
    BY <1>20 DEF Revive, rows, work
  <2>2. \A d \in Calls : row[d] # "none" /\ cancelled'[booking[d]] => cancelled[booking[d]]
    BY <1>0, <1>20 DEF Revive, TypeOK, RowInv
  <2>3. \A d \in Calls : Open(d)' => Open(d)
    BY <2>1 DEF Open, Pays, Reopens
  <2>4. \A d \in Calls : Handled(d) => Handled(d)'
    BY <2>1 DEF Handled, Reverses, RowsOf
  <2>5. QED
    BY <1>0, <2>1, <2>2, <2>3, <2>4 DEF EscapedInv
<1>21. ASSUME NEW b \in Bookings, DeleteBooking(b) PROVE EscapedInv'
  <2>1. UNCHANGED <<escaped, cancelled, booking, pc, todo, current>>
    BY <1>21 DEF DeleteBooking, work
  <2>2. \A d \in Calls : row'[d] # "none" => row'[d] = row[d]
    BY <1>21 DEF DeleteBooking
  <2>3. \A d \in Calls : row'[d] # "none" /\ Handled(d) => Handled(d)'
    BY <2>1, <2>2 DEF Handled, Reverses, RowsOf
  <2>4. \A d \in Calls : row'[d] # "none" /\ Open(d)' => Open(d)
    BY <2>1, <2>2 DEF Open, Pays, Reopens
  <2>5. QED
    BY <1>0, <2>1, <2>2, <2>3, <2>4 DEF EscapedInv
<1>22. ASSUME NEW b \in Bookings, DayComes(b) PROVE EscapedInv'
  BY <1>0, <1>22
     DEF DayComes, EscapedInv, Handled, Open, Pays, Reverses, RowsOf, Reopens, rows, work
<1>23. ASSUME NEW o \in Orders, QuotaWrites(o) PROVE EscapedInv'
  BY <1>0, <1>23
     DEF QuotaWrites, EscapedInv, Handled, Open, Pays, Reverses, RowsOf, Reopens,
         rows, trips, work
<1>24. CASE UNCHANGED vars
  BY <1>0, <1>24
     DEF vars, EscapedInv, Handled, Open, Pays, Reverses, RowsOf, Reopens, rows, trips, work
<1>25. QED
  BY <1>1, <1>2, <1>3, <1>4, <1>5, <1>6, <1>7, <1>8, <1>9, <1>10, <1>11, <1>12,
     <1>13, <1>14, <1>15, <1>16, <1>17, <1>18, <1>19, <1>20, <1>21, <1>22, <1>23,
     <1>24 DEF Next, Step

LEMMA InitIInv == Init => IInv
<1> SUFFICES ASSUME Init PROVE IInv
  OBVIOUS
<1>1. TypeOK
  BY AmountAssumption, NoBookingAssumption DEF Init, TypeOK
<1>2. RowInv /\ SingleInv /\ PayerInv
  BY NoBookingAssumption DEF Init, RowInv, Early, SingleInv, Creates, RowsOf, PayerInv
<1>3. CreditInv /\ CapInv /\ EscapedInv
  BY AmountAssumption DEF Init, CreditInv, CapInv, EarnedWithinCap, EscapedInv, Open, Pays,
                                 Reopens
<1>4. QED
  BY <1>1, <1>2, <1>3 DEF IInv

LEMMA StepIInv == IInv /\ [Next]_vars => IInv'
<1> SUFFICES ASSUME IInv, [Next]_vars PROVE IInv'
  OBVIOUS
<1>1. TypeOK'
  BY StepTypeOK DEF IInv
<1>2. QED
  BY <1>1, StepRowInv, StepSingleInv, StepPayerInv, StepCreditInv, StepCapInv, StepEscapedInv
     DEF IInv

LEMMA Invariance == Spec => []IInv
  BY InitIInv, StepIInv, PTL DEF Spec

-----------------------------------------------------------------------------
(* The properties *)

\* Two commission rows of one booking take a look for a row while another was about to
\* be created.
THEOREM OneRow == Spec => []OneRowPerBooking
<1>1. IInv => OneRowPerBooking
  BY DEF IInv, SingleInv, OneRowPerBooking
<1>2. QED
  BY <1>1, Invariance, PTL

\* However the settlements race, nothing is credited before the day of departure.
THEOREM CreditsAwaitDeparture == Spec => []CreditedAfterDeparture
<1>1. IInv => CreditedAfterDeparture
  BY DEF IInv, CreditInv, Arrived, CreditedAfterDeparture
<1>2. QED
  BY <1>1, Invariance, PTL

\* An order within its cap leaves it only by a write from an old amount.
THEOREM EarningsRespectCap == Spec => []EarnedWithinCap
<1>1. IInv => EarnedWithinCap
  BY DEF IInv, CapInv
<1>2. QED
  BY <1>1, Invariance, PTL

\* A row that only one settlement listed is credited at most once.
THEOREM CreditOnce == Spec => []CreditedOnce
<1>1. ASSUME IInv PROVE CreditedOnce
  <2> SUFFICES ASSUME NEW d \in Calls, credited[d] > Share, \A c, e \in settlers[d] : c = e
               PROVE  FALSE
    BY DEF CreditedOnce
  <2>1. credited[d] <= Share
    BY <1>1 DEF IInv, CreditInv
  <2>2. credited[d] \in Int /\ Share \in Int
    BY <1>1, AmountAssumption DEF IInv, TypeOK
  <2>3. QED
    BY <2>1, <2>2
<1>2. QED
  BY <1>1, Invariance, PTL

\* However distributions, settlements and a reversal race: a cancelled booking
\* pays nothing once its rows are reversed, but for rows that came too late, that a
\* failed reversal or a mere rejection left, or that a settlement had listed before.
THEOREM ReversalsLast == Spec => []CancelledPaysNothing
<1>1. IInv => CancelledPaysNothing
  BY DEF IInv, EscapedInv, Open, Pays, Handled, CancelledPaysNothing
<1>2. QED
  BY <1>1, Invariance, PTL

=============================================================================
