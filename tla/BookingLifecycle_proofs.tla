----------------------- MODULE BookingLifecycle_proofs -----------------------
(***************************************************************************)
(* Proofs about BookingLifecycle, for any set of handler calls.            *)
(***************************************************************************)
EXTENDS BookingLifecycle, TLAPS

\* What paymentStatus says about the money, in the row and in the copies that
\* cancellations in flight have read, and which calls have recorded a payment.
PaidIsReceived == payment = "PAID" /\ status # "DELETED" => Received

ReadPaidIsReceived ==
    \A c \in Calls :
        pc[c] \in {"day", "cancel"} /\ readPayment[c] = "PAID" /\ status # "DELETED"
        => Received

PayersWentOn == \A c \in payments : pc[c] \in {"stamp", "done"}

MoneyInv == PaidIsReceived /\ ReadPaidIsReceived /\ PayersWentOn

IInv ==
    /\ TypeOK
    /\ HeldCanExpire
    /\ ConfirmedIsTicketed
    /\ RefundOfReceivedMoney
    /\ DeletedLeavesNothing
    /\ MoneyInv

\* The invariant that carries the safety properties is inductive.
LEMMA InitIInv == Init => IInv
<1> SUFFICES ASSUME Init PROVE IInv
  OBVIOUS
<1> USE SaleAssumption DEF Init, HeldOnline, SoldByAgent, Issuers, Received
<1>1. TypeOK
  BY DEF TypeOK, Labels, PaymentStatuses
<1>2. HeldCanExpire /\ RefundOfReceivedMoney /\ DeletedLeavesNothing
  BY DEF HeldCanExpire, RefundOfReceivedMoney, DeletedLeavesNothing
<1>3. ConfirmedIsTicketed
  BY DEF ConfirmedIsTicketed
<1>4. MoneyInv
  BY DEF MoneyInv, PaidIsReceived, ReadPaidIsReceived, PayersWentOn
<1>5. QED
  BY <1>1, <1>2, <1>3, <1>4 DEF IInv

LEMMA StepTypeOK == TypeOK /\ [Next]_vars => TypeOK'
<1> SUFFICES ASSUME TypeOK, [Next]_vars PROVE TypeOK'
  OBVIOUS
<1> USE DEF TypeOK, Labels, Issuers, PaymentStatuses, Goto, Call, Throws, row, books, reads, local, trip
<1>1. ASSUME NEW c \in Calls, Step(c) PROVE TypeOK'
  <2>1. CASE SubmitRead(c) \/ RejectRead(c) \/ DeleteRead(c) \/ Crash(c)
    BY <2>1 DEF SubmitRead, RejectRead, DeleteRead, Crash
  <2>2. CASE ApproveRead(c)
    BY <2>2 DEF ApproveRead
  <2>3. CASE CancelRead(c) \/ CancelCheckDay(c) \/ CancelTwice(c)
    BY <2>3 DEF CancelRead, CancelCheckDay, CancelTwice
  <2>4. CASE SubmitWrite(c)
    BY <2>4 DEF SubmitWrite
  <2>5. CASE RejectWrite(c)
    BY <2>5 DEF RejectWrite
  <2>6. CASE ApproveStamp(c)
    BY <2>6 DEF ApproveStamp
  <2>7. CASE ApproveWrite(c)
    BY <2>7 DEF ApproveWrite, Issued
  <2>8. CASE CancelWrite(c)
    BY <2>8 DEF CancelWrite
  <2>9. CASE DeleteWrite(c)
    BY <2>9 DEF DeleteWrite
  <2>10. CASE VerifyRead(c) \/ VerifyWrite(c)
    BY <2>10 DEF VerifyRead, VerifyWrite
  <2>11. CASE \E label \in {"submit", "approve", "stamp", "reject", "cancel", "delete",
                           "use"} : Throws(c, label)
    BY <2>11
  <2>12. QED
    BY <1>1, <2>1, <2>2, <2>3, <2>4, <2>5, <2>6, <2>7, <2>8, <2>9, <2>10, <2>11
       DEF Step
<1>2. CASE CronScan \/ CronWrite \/ CronStops \/ HoldLapses \/ DepartureDayComes
  BY <1>2 DEF CronScan, CronWrite, CronStops, HoldLapses, DepartureDayComes
<1>3. CASE UNCHANGED vars
  BY <1>3 DEF vars
<1>4. QED
  BY <1>1, <1>2, <1>3 DEF Next

\* Every variable keeps its type.
THEOREM TypeCorrect == Spec => []TypeOK
<1>1. Init => TypeOK
  BY InitIInv DEF IInv
<1>2. QED
  BY <1>1, StepTypeOK, PTL DEF Spec

\* A step that touches neither the row nor the books, and moves a call only to
\* a place where it no longer carries a read.
LEMMA QuietStep ==
  ASSUME IInv, TypeOK',
         UNCHANGED <<row, books, seated>>,
         \A c \in Calls :
            pc'[c] \in {"day", "cancel"} =>
               \/ pc[c] \in {"day", "cancel"} /\ readPayment'[c] = readPayment[c]
               \/ readPayment'[c] = payment,
         \A c \in Calls : pc[c] \in {"stamp", "done"} => pc'[c] \in {"stamp", "done"}
  PROVE  IInv'
<1> USE DEF row, books, Received
<1>1. HeldCanExpire' /\ RefundOfReceivedMoney' /\ DeletedLeavesNothing'
  BY DEF IInv, HeldCanExpire, RefundOfReceivedMoney, DeletedLeavesNothing
<1>2. ConfirmedIsTicketed'
  BY DEF IInv, ConfirmedIsTicketed
<1>3. MoneyInv'
  BY DEF IInv, TypeOK, MoneyInv, PaidIsReceived, ReadPaidIsReceived, PayersWentOn
<1>4. QED
  BY <1>1, <1>2, <1>3 DEF IInv

LEMMA CallStepIInv ==
  ASSUME IInv, TypeOK', NEW c \in Calls, Step(c)
  PROVE  IInv'
<1> USE DEF Goto
<1>t. TypeOK
  BY DEF IInv
<1>1. CASE \/ SubmitRead(c) \/ RejectRead(c) \/ DeleteRead(c) \/ ApproveRead(c)
           \/ CancelRead(c) \/ CancelCheckDay(c) \/ CancelTwice(c) \/ Crash(c)
           \/ VerifyRead(c)
  <2>1. UNCHANGED <<row, books, seated>>
    BY <1>1 DEF SubmitRead, RejectRead, DeleteRead, ApproveRead, CancelRead,
                CancelCheckDay, CancelTwice, Crash, VerifyRead, Call, row, books, trip
  <2>2. \A d \in Calls :
           pc'[d] \in {"day", "cancel"} =>
              \/ pc[d] \in {"day", "cancel"} /\ readPayment'[d] = readPayment[d]
              \/ readPayment'[d] = payment
    BY <1>1, <1>t DEF SubmitRead, RejectRead, DeleteRead, ApproveRead, CancelRead,
                CancelCheckDay, CancelTwice, Crash, VerifyRead, Call, TypeOK, reads
  <2>3. \A d \in Calls : pc[d] \in {"stamp", "done"} => pc'[d] \in {"stamp", "done"}
    BY <1>1, <1>t DEF SubmitRead, RejectRead, DeleteRead, ApproveRead, CancelRead,
                CancelCheckDay, CancelTwice, Crash, VerifyRead, Call, TypeOK, reads
  <2>4. QED
    BY <2>1, <2>2, <2>3, QuietStep
<1>2. CASE \E label \in {"submit", "approve", "stamp", "reject", "cancel", "delete",
                          "use"} : Throws(c, label)
  <2>1. UNCHANGED <<row, books, seated>> /\ UNCHANGED readPayment
    BY <1>2 DEF Throws, row, books, reads, trip
  <2>2. pc' = [pc EXCEPT ![c] = "done"]
    BY <1>2 DEF Throws
  <2>3. QED
    BY <2>1, <2>2, <1>t, QuietStep DEF TypeOK
<1>3. CASE ApproveStamp(c)
  <2> USE <1>3, <1>t DEF reads, trip, ApproveStamp, books, Received, IInv
  <2>1. HeldCanExpire' /\ RefundOfReceivedMoney' /\ DeletedLeavesNothing'
    BY DEF HeldCanExpire, RefundOfReceivedMoney, DeletedLeavesNothing
  <2>2. ConfirmedIsTicketed'
    BY DEF ConfirmedIsTicketed
  <2>3. MoneyInv'
    BY DEF TypeOK, MoneyInv, PaidIsReceived, ReadPaidIsReceived, PayersWentOn
  <2>4. QED
    BY <2>1, <2>2, <2>3
<1>4. CASE SubmitWrite(c) \/ RejectWrite(c)
  <2> USE <1>4, <1>t DEF reads, trip, SubmitWrite, RejectWrite, books, Received, IInv
  <2>1. HeldCanExpire' /\ RefundOfReceivedMoney' /\ DeletedLeavesNothing'
    BY DEF HeldCanExpire, RefundOfReceivedMoney, DeletedLeavesNothing
  <2>2. ConfirmedIsTicketed'
    BY DEF ConfirmedIsTicketed
  <2>3. MoneyInv'
    BY DEF TypeOK, MoneyInv, PaidIsReceived, ReadPaidIsReceived, PayersWentOn
  <2>4. QED
    BY <2>1, <2>2, <2>3
<1>5. CASE ApproveWrite(c)
  <2> USE <1>5, <1>t DEF reads, trip, ApproveWrite, Issued, Received, IInv
  <2>1. payments' # {} /\ Received'
    OBVIOUS
  <2>2. HeldCanExpire' /\ RefundOfReceivedMoney' /\ DeletedLeavesNothing'
    BY <2>1 DEF HeldCanExpire, RefundOfReceivedMoney, DeletedLeavesNothing
  <2>3. c \in Issuers /\ (seated => tickets'[c] = "ACTIVE")
    BY DEF TypeOK, Issuers
  <2>4. ConfirmedIsTicketed'
    BY <2>3 DEF ConfirmedIsTicketed
  <2>5. MoneyInv'
    BY <2>1 DEF TypeOK, MoneyInv, PaidIsReceived, ReadPaidIsReceived, PayersWentOn
  <2>6. QED
    BY <2>2, <2>4, <2>5
<1>6. CASE CancelWrite(c)
  <2> USE <1>6, <1>t DEF reads, trip, CancelWrite, IInv
  <2>1. Received => Received'
    BY DEF Received, Issuers
  <2>2. refund' = "PENDING" => Received
    BY DEF MoneyInv, ReadPaidIsReceived
  <2>3. HeldCanExpire' /\ RefundOfReceivedMoney' /\ DeletedLeavesNothing'
    BY <2>1, <2>2 DEF HeldCanExpire, RefundOfReceivedMoney, DeletedLeavesNothing
  <2>4. ConfirmedIsTicketed'
    BY DEF ConfirmedIsTicketed
  <2>5. MoneyInv'
    BY <2>1 DEF TypeOK, MoneyInv, PaidIsReceived, ReadPaidIsReceived, PayersWentOn
  <2>6. QED
    BY <2>3, <2>4, <2>5
<1>7. CASE DeleteWrite(c)
  <2> USE <1>7, <1>t DEF reads, trip, DeleteWrite, IInv
  <2>1. HeldCanExpire' /\ RefundOfReceivedMoney' /\ ConfirmedIsTicketed'
    BY DEF HeldCanExpire, RefundOfReceivedMoney, ConfirmedIsTicketed
  <2>2. DeletedLeavesNothing'
    BY DEF DeletedLeavesNothing
  <2>3. MoneyInv'
    BY DEF TypeOK, MoneyInv, PaidIsReceived, ReadPaidIsReceived, PayersWentOn
  <2>4. QED
    BY <2>1, <2>2, <2>3
<1>8. CASE VerifyWrite(c)
  <2> USE <1>8, <1>t DEF VerifyWrite, row, reads, trip, IInv
  <2>1. \A t \in Issuers : tickets'[t] \in {tickets[t], "USED"}
    BY DEF TypeOK
  <2>2. Received => Received'
    BY <2>1 DEF Received, Issuers
  <2>3. HeldCanExpire' /\ RefundOfReceivedMoney' /\ DeletedLeavesNothing'
    BY <2>2 DEF HeldCanExpire, RefundOfReceivedMoney, DeletedLeavesNothing
  <2>4. ConfirmedIsTicketed'
    BY <2>1 DEF ConfirmedIsTicketed
  <2>5. MoneyInv'
    BY <2>2 DEF TypeOK, MoneyInv, PaidIsReceived, ReadPaidIsReceived, PayersWentOn
  <2>6. QED
    BY <2>3, <2>4, <2>5
<1>9. QED
  BY <1>1, <1>2, <1>3, <1>4, <1>5, <1>6, <1>7, <1>8 DEF Step

LEMMA NextIInv == IInv /\ [Next]_vars => IInv'
<1> SUFFICES ASSUME IInv, [Next]_vars PROVE IInv'
  OBVIOUS
<1>t. TypeOK'
  BY StepTypeOK DEF IInv
<1>1. ASSUME NEW c \in Calls, Step(c) PROVE IInv'
  BY <1>1, <1>t, CallStepIInv
<1>2. CASE CronScan \/ CronStops \/ DepartureDayComes \/ UNCHANGED vars
  <2>1. UNCHANGED <<row, books, seated>> /\ UNCHANGED <<pc, readPayment>>
    BY <1>2 DEF CronScan, CronStops, DepartureDayComes, vars, row, books, local, reads, trip
  <2>2. QED
    BY <2>1, <1>t, QuietStep
<1>3. CASE CronWrite \/ HoldLapses
  <2> USE <1>3, <1>t DEF CronWrite, HoldLapses, IInv, books, local, reads, trip, Received
  <2>1. HeldCanExpire' /\ RefundOfReceivedMoney' /\ DeletedLeavesNothing'
    BY DEF HeldCanExpire, RefundOfReceivedMoney, DeletedLeavesNothing
  <2>2. ConfirmedIsTicketed'
    BY DEF ConfirmedIsTicketed
  <2>3. MoneyInv'
    BY DEF MoneyInv, PaidIsReceived, ReadPaidIsReceived, PayersWentOn
  <2>4. QED
    BY <2>1, <2>2, <2>3
<1>4. QED
  BY <1>1, <1>2, <1>3 DEF Next

\* Whatever calls race, the row, its payments, its tickets and its cancellation
\* agree with each other.
LEMMA BooksAgree == Spec => []IInv
BY InitIInv, NextIInv, PTL DEF Spec

\* No held booking is out of the reach of the expiry job.
THEOREM HoldsCanExpire == Spec => []HeldCanExpire
<1>1. IInv => HeldCanExpire
  BY DEF IInv
<1>2. QED
  BY BooksAgree, <1>1, PTL

\* A confirmed booking is paid and ticketed.
THEOREM ConfirmedHasTicket == Spec => []ConfirmedIsTicketed
<1>1. IInv => ConfirmedIsTicketed
  BY DEF IInv
<1>2. QED
  BY BooksAgree, <1>1, PTL

\* A refund is promised only of money that was received.
THEOREM RefundsWereReceived == Spec => []RefundOfReceivedMoney
<1>1. IInv => RefundOfReceivedMoney
  BY DEF IInv
<1>2. QED
  BY BooksAgree, <1>1, PTL

\* A deleted booking keeps no payment, ticket or cancellation.
THEOREM DeletedIsClean == Spec => []DeletedLeavesNothing
<1>1. IInv => DeletedLeavesNothing
  BY DEF IInv
<1>2. QED
  BY BooksAgree, <1>1, PTL

\* BookingLifecycle implements BookingLedger: each committed transaction is one
\* of its steps or leaves its tables alone.
THEOREM ImplementsLedger == Spec => LedgerSpec
<1> USE DEF Ledger!ledger, Ledger!Issuers, Issuers, Ledger!Received, Received
<1>1. Init => Ledger!Init
  BY SaleAssumption DEF Init, HeldOnline, SoldByAgent, Ledger!Init
<1>2. IInv /\ [Next]_vars => [Ledger!Next]_Ledger!ledger
  <2> SUFFICES ASSUME IInv, [Next]_vars PROVE [Ledger!Next]_Ledger!ledger
    OBVIOUS
  <2>1. ASSUME NEW c \in Calls, Step(c) PROVE [Ledger!Next]_Ledger!ledger
    <3>1. CASE ApproveWrite(c)
      <4>1. c \notin payments
        BY <3>1 DEF ApproveWrite, IInv, MoneyInv, PayersWentOn
      <4>2. Ledger!Collect(c)
        BY <3>1, <4>1 DEF ApproveWrite, Issued, trip, Ledger!Collect
      <4>3. QED
        BY <4>2 DEF Ledger!Next
    <3>2. CASE CancelWrite(c)
      <4>1. readPayment[c] = "PAID" => Received
        BY <3>2 DEF CancelWrite, IInv, MoneyInv, ReadPaidIsReceived
      <4>2. Ledger!Settle(refund') /\ refund' \in {"PENDING", "NOT_APPLICABLE"}
        BY <3>2, <4>1 DEF CancelWrite, trip, Ledger!Settle
      <4>3. QED
        BY <4>2 DEF Ledger!Next
    <3>3. CASE DeleteWrite(c)
      BY <3>3 DEF DeleteWrite, trip, Ledger!Next, Ledger!Erase
    <3>4. CASE VerifyWrite(c)
      <4>1. Ledger!Use(verifying[c])
        BY <3>4 DEF VerifyWrite, row, trip, Ledger!Use
      <4>2. QED
        BY <4>1 DEF IInv, TypeOK, Ledger!Next
    <3>5. CASE ~(ApproveWrite(c) \/ CancelWrite(c) \/ DeleteWrite(c) \/ VerifyWrite(c))
      BY <2>1, <3>5 DEF Step, SubmitRead, SubmitWrite, ApproveRead, ApproveStamp,
         RejectRead, RejectWrite, CancelRead, CancelCheckDay, CancelTwice,
         DeleteRead, VerifyRead, Throws, Crash, Call, row, books, trip
    <3>6. QED
      BY <3>1, <3>2, <3>3, <3>4, <3>5
  <2>2. CASE CronScan \/ CronWrite \/ CronStops \/ HoldLapses \/ DepartureDayComes
    BY <2>2 DEF CronScan, CronWrite, CronStops, HoldLapses, DepartureDayComes, row, books, trip
  <2>3. CASE UNCHANGED vars
    BY <2>3 DEF vars, row, books, trip
  <2>4. QED
    BY <2>1, <2>2, <2>3 DEF Next
<1>3. QED
  BY InitIInv, NextIInv, <1>1, <1>2, PTL DEF Spec, LedgerSpec, Ledger!Spec

=============================================================================
