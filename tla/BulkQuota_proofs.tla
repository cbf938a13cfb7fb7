-------------------------- MODULE BulkQuota_proofs --------------------------
(***************************************************************************)
(* Proofs about BulkQuota, for any orders, sales and admin calls.          *)
(***************************************************************************)
EXTENDS BulkQuota, TLAPS

LEMMA StepTypeOK == TypeOK /\ [Next]_vars => TypeOK'
<1> SUFFICES ASSUME TypeOK, [Next]_vars PROVE TypeOK'
  OBVIOUS
<1> USE QuotaAssumption DEF TypeOK, Goto, Returns, Over, Exists, orders, sales
<1>1. ASSUME NEW o \in Orders, Buy(o) \/ Seed(o) PROVE TypeOK'
  <2>1. PICK q \in BULK_MIN_QUANTITY..MaxQuantity :
           /\ quantity' = [quantity EXCEPT ![o] = q]
           /\ remaining' = [remaining EXCEPT ![o] = q]
    BY <1>1 DEF Buy, Seed, Create
  <2>2. q \in 0..MaxQuantity
    BY DEF BULK_MIN_QUANTITY
  <2>3. QED
    BY <1>1, <2>1, <2>2 DEF Buy, Seed, Create
<1>2. ASSUME NEW o \in Orders, CommissionWrites(o) PROVE TypeOK'
  BY <1>2 DEF CommissionWrites
<1>3. ASSUME NEW a \in Admins, AdminRead(a) PROVE TypeOK'
  BY <1>3 DEF AdminRead
<1>4. ASSUME NEW a \in Admins, ApproveWrite(a) PROVE TypeOK'
  BY <1>4 DEF ApproveWrite
<1>5. ASSUME NEW a \in Admins, RejectWrite(a) \/ DeleteWrite(a) \/ AdminFails(a)
      PROVE TypeOK'
  <2>0. admin' = [admin EXCEPT ![a] = Over]
    BY <1>5 DEF RejectWrite, DeleteWrite, AdminFails
  <2>1. admin' \in [Admins -> [call : {"idle", "approve", "reject", "delete", "done"},
                               order : Orders \cup {-1}]]
    BY <2>0
  <2>2. status' \in [Orders -> {"none", "PENDING_APPROVAL", "ACTIVE", "EXHAUSTED",
                                "REJECTED", "DELETED"}]
    BY <1>5 DEF RejectWrite, DeleteWrite, AdminFails
  <2>3. UNCHANGED <<quantity, remaining, approved, seeded, sales>>
    BY <1>5 DEF RejectWrite, DeleteWrite, AdminFails
  <2>4. QED
    BY <2>1, <2>2, <2>3
<1>6. ASSUME NEW s \in Sales, ListOrders(s) PROVE TypeOK'
  <2>1. Listed(s) \in [Orders -> 0..MaxQuantity]
    BY DEF Listed
  <2>2. CASE UNCHANGED <<need, found, seen>>
    BY <1>6, <2>2 DEF ListOrders
  <2>3. CASE ~ UNCHANGED <<need, found, seen>>
    <3>1. PICK n \in 1..(MaxQuantity + 1) :
             /\ need' = [need EXCEPT ![s] = n]
             /\ found' = [found EXCEPT ![s] = Listed(s)]
             /\ seen' = [seen EXCEPT ![s] = {t \in Sales : pc[t] = "sold"}]
             /\ pc' = [pc EXCEPT ![s] = "deduct"]
      BY <1>6, <2>3 DEF ListOrders
    <3>2. UNCHANGED <<orders, taken, admin>>
      BY <1>6 DEF ListOrders
    <3>3. QED
      BY <2>1, <3>1, <3>2
  <2>4. QED
    BY <2>2, <2>3
<1>7. ASSUME NEW s \in Sales, Deduct(s) PROVE TypeOK'
  <2>1. PICK d \in Deductions(s) :
           /\ remaining' = [o \in Orders |->
                 IF d[o] > 0 THEN found[s][o] - d[o] ELSE remaining[o]]
           /\ status' = [o \in Orders |->
                 IF d[o] = 0 THEN status[o]
                 ELSE IF d[o] = found[s][o] THEN "EXHAUSTED" ELSE "ACTIVE"]
           /\ taken' = [taken EXCEPT ![s] =
                 [o \in Orders |-> found[s][o] - d[o] + 1 .. found[s][o]]]
    BY <1>7 DEF Deduct
  <2>2. \A o \in Orders : d[o] \in 0..MaxQuantity /\ d[o] <= found[s][o]
    BY DEF Deductions
  <2>3. \A o \in Orders : found[s][o] \in 0..MaxQuantity
    OBVIOUS
  <2>4. remaining' \in [Orders -> 0..MaxQuantity]
    BY <2>1, <2>2, <2>3
  <2>5. status' \in [Orders -> {"none", "PENDING_APPROVAL", "ACTIVE", "EXHAUSTED",
                                "REJECTED", "DELETED"}]
    BY <2>1
  <2>6. [o \in Orders |-> found[s][o] - d[o] + 1 .. found[s][o]]
           \in [Orders -> SUBSET (1..MaxQuantity)]
    BY <2>2, <2>3
  <2>7. taken' \in [Sales -> [Orders -> SUBSET (1..MaxQuantity)]]
    BY <2>1, <2>6
  <2>8. QED
    BY <1>7, <2>4, <2>5, <2>7 DEF Deduct
<1>8. ASSUME NEW s \in Sales, Rollback(s) PROVE TypeOK'
  BY <1>8 DEF Rollback
<1>9. CASE RemoveAgent \/ UNCHANGED vars
  BY <1>9 DEF RemoveAgent, vars
<1>10. QED
  BY <1>1, <1>2, <1>3, <1>4, <1>5, <1>6, <1>7, <1>8, <1>9 DEF Next

\* Every variable keeps its type; in particular remainingQuantity stays between
\* zero and the size of the largest order.
THEOREM TypeCorrect == Spec => []TypeOK
<1>1. Init => TypeOK
  BY QuotaAssumption DEF Init, TypeOK
<1>2. QED
  BY <1>1, StepTypeOK, PTL DEF Spec

-----------------------------------------------------------------------------
(* The inductive invariant: what a sale in flight knows of the orders.     *)

\* History of the sales: only a sale that was made has tickets or is seen.
HistoryInv ==
    /\ \A s \in Sales : \A t \in seen[s] : pc[t] = "sold"
    /\ \A s \in Sales, o \in Orders : taken[s][o] # {} => pc[s] = "sold"

Cleared(o) == approved[o] \/ o \in seeded

\* Whatever sells, is listed or has sold was cleared after it was made.
ApprovalInv ==
    \A o \in Orders :
        /\ status[o] \in {"ACTIVE", "EXHAUSTED"} => Cleared(o)
        /\ Cleared(o) => status[o] # "none"
        /\ \A s \in Sales :
              /\ pc[s] = "deduct" /\ found[s][o] > 0 => Cleared(o)
              /\ taken[s][o] # {} => Cleared(o)

Gone(o, ticket) == \E t \in Sales : ticket \in taken[t][o]

\* What is missing in the row, or in the list of a sale in flight, was sold.
CoverInv ==
    \A o \in Orders : \A ticket \in 1..quantity[o] :
        /\ ticket <= remaining[o] \/ Gone(o, ticket)
        /\ \A s \in Sales :
              pc[s] = "deduct" /\ found[s][o] > 0
              => ticket <= found[s][o] \/ Gone(o, ticket)

\* A list shows no ticket that an earlier sale has taken.
ListIsSound(o) ==
    \A s \in Sales : pc[s] = "deduct" =>
        \A t \in seen[s] : taken[t][o] \cap 1..found[s][o] = {}

DisjointInv ==
    \A o \in Orders : Raced(o) \/ (~Oversold(o) /\ ListIsSound(o))

IInv == TypeOK /\ HistoryInv /\ ApprovalInv /\ CoverInv /\ DisjointInv

LEMMA InitIInv == Init => IInv
<1> SUFFICES ASSUME Init PROVE IInv
  OBVIOUS
<1> USE QuotaAssumption DEF Init
<1>1. TypeOK /\ HistoryInv /\ ApprovalInv
  BY DEF TypeOK, HistoryInv, ApprovalInv, Cleared
<1>2. CoverInv
  BY DEF CoverInv, Gone
<1>3. DisjointInv
  BY DEF DisjointInv, Oversold, ListIsSound
<1>4. QED
  BY <1>1, <1>2, <1>3 DEF IInv

\* A step that leaves the sales and the quantities alone.
LEMMA AdminStep ==
  ASSUME IInv, TypeOK', UNCHANGED <<quantity, remaining, seeded, sales>>,
         \A o \in Orders :
            /\ approved[o] => approved'[o]
            /\ status'[o] \in {"ACTIVE", "EXHAUSTED"} => Cleared(o)'
            /\ Cleared(o)' => status'[o] # "none"
  PROVE  IInv'
<1> USE DEF IInv, sales
<1>1. HistoryInv' /\ ApprovalInv'
  BY DEF HistoryInv, ApprovalInv, Cleared
<1>2. CoverInv'
  BY DEF CoverInv, Gone
<1>3. DisjointInv'
  BY DEF DisjointInv, Oversold, ListIsSound, Raced
<1>4. QED
  BY <1>1, <1>2, <1>3

LEMMA CreateIInv ==
  ASSUME IInv, TypeOK', NEW b \in Orders, Buy(b) \/ Seed(b)
  PROVE  IInv'
<1> USE QuotaAssumption DEF IInv, TypeOK, sales
<1>1. UNCHANGED <<approved, pc, found, seen, taken>>
  BY DEF Buy, Seed, Create
<1>2. /\ ~Cleared(b)
      /\ \/ status' = [status EXCEPT ![b] = "PENDING_APPROVAL"] /\ seeded' = seeded
         \/ status' = [status EXCEPT ![b] = "ACTIVE"] /\ seeded' = seeded \cup {b}
      /\ quantity'[b] = remaining'[b]
      /\ \A o \in Orders \ {b} : quantity'[o] = quantity[o] /\ remaining'[o] = remaining[o]
  BY DEF Buy, Seed, Create, ApprovalInv
<1>3. HistoryInv' /\ ApprovalInv'
  BY <1>1, <1>2 DEF HistoryInv, ApprovalInv, Cleared
<1>4. \A s \in Sales : taken[s][b] = {} /\ ~(pc[s] = "deduct" /\ found[s][b] > 0)
  BY <1>2 DEF ApprovalInv
<1>5. CoverInv'
  <2>1. ASSUME NEW o \in Orders, NEW ticket \in 1..quantity'[o]
        PROVE  /\ ticket <= remaining'[o] \/ Gone(o, ticket)
               /\ \A s \in Sales : pc[s] = "deduct" /\ found[s][o] > 0
                     => ticket <= found[s][o] \/ Gone(o, ticket)
    <3>1. CASE o = b
      BY <3>1, <1>2, <1>4
    <3>2. CASE o # b
      BY <3>2, <1>2 DEF CoverInv
    <3>3. QED
      BY <3>1, <3>2
  <2>2. QED
    BY <1>1, <2>1 DEF CoverInv, Gone
<1>6. DisjointInv'
  BY <1>1, <1>2, <1>4 DEF DisjointInv, Oversold, ListIsSound, Raced
<1>7. QED
  BY <1>3, <1>5, <1>6

\* A sale that ends without a ticket.
LEMMA RefusalIInv ==
  ASSUME IInv, TypeOK', NEW s \in Sales, pc[s] # "sold", Goto(s, "refused"),
         UNCHANGED <<orders, need, found, seen, taken>>
  PROVE  IInv'
<1> USE DEF IInv, orders
<1>1. \A t \in Sales :
        /\ pc'[t] = "sold" <=> pc[t] = "sold"
        /\ pc'[t] = "deduct" => pc[t] = "deduct"
  BY DEF Goto, TypeOK
<1>2. HistoryInv' /\ ApprovalInv'
  <2>1. HistoryInv'
    BY <1>1 DEF HistoryInv, TypeOK
  <2>2. \A o \in Orders : Cleared(o)' = Cleared(o)
    BY DEF Cleared
  <2>3. ApprovalInv'
    BY <1>1, <2>2 DEF ApprovalInv
  <2>4. QED
    BY <2>1, <2>3
<1>3. CoverInv'
  BY <1>1 DEF CoverInv, Gone
<1>4. DisjointInv'
  <2>1. \A o \in Orders : Raced(o)' = Raced(o) /\ Oversold(o)' = Oversold(o)
    BY DEF Raced, Oversold
  <2>2. \A o \in Orders : ListIsSound(o) => ListIsSound(o)'
    BY <1>1 DEF ListIsSound
  <2>3. QED
    BY <2>1, <2>2 DEF DisjointInv
<1>5. QED
  BY <1>2, <1>3, <1>4

LEMMA ListIInv ==
  ASSUME IInv, TypeOK', NEW s \in Sales, ListOrders(s), pc'[s] = "deduct"
  PROVE  IInv'
<1> USE QuotaAssumption DEF IInv, TypeOK, Goto
<1>1. /\ UNCHANGED <<orders, taken>>
      /\ pc[s] = "idle"
      /\ \A t \in Sales \ {s} : pc'[t] = pc[t] /\ found'[t] = found[t] /\ seen'[t] = seen[t]
      /\ found'[s] = Listed(s)
      /\ seen'[s] = {t \in Sales : pc[t] = "sold"}
  BY DEF ListOrders
<1>2. \A o \in Orders : taken[s][o] = {}
  BY <1>1 DEF HistoryInv
<1>3. \A o \in Orders : found'[s][o] = remaining[o] \/ found'[s][o] = 0
  BY <1>1 DEF Listed
<1>4. HistoryInv'
  BY <1>1 DEF HistoryInv
<1>5. ApprovalInv'
  <2>1. \A o \in Orders : Cleared(o)' = Cleared(o) /\ status'[o] = status[o]
    BY <1>1 DEF Cleared, orders
  <2>2. \A o \in Orders : found'[s][o] > 0 => Cleared(o)
    BY <1>1 DEF ApprovalInv, Listed
  <2>3. UNCHANGED taken
    BY <1>1
  <2>4. \A o \in Orders, t \in Sales : pc'[t] = "deduct" /\ found'[t][o] > 0 => Cleared(o)
    <3> SUFFICES ASSUME NEW o \in Orders, NEW t \in Sales, pc'[t] = "deduct", found'[t][o] > 0
                 PROVE  Cleared(o)
      OBVIOUS
    <3>1. CASE t = s
      BY <3>1, <2>2
    <3>2. CASE t # s
      BY <3>2, <1>1 DEF ApprovalInv
    <3>3. QED
      BY <3>1, <3>2
  <2>5. QED
    BY <2>1, <2>3, <2>4 DEF ApprovalInv
<1>6. CoverInv'
  <2> SUFFICES ASSUME NEW o \in Orders, NEW ticket \in 1..quantity[o]
               PROVE  /\ ticket <= remaining[o] \/ Gone(o, ticket)
                      /\ \A t \in Sales : pc'[t] = "deduct" /\ found'[t][o] > 0
                            => ticket <= found'[t][o] \/ Gone(o, ticket)
    BY <1>1 DEF CoverInv, Gone, orders
  <2>1. ticket <= remaining[o] \/ Gone(o, ticket)
    BY DEF CoverInv
  <2>2. ASSUME NEW t \in Sales \ {s}, pc'[t] = "deduct", found'[t][o] > 0
        PROVE  ticket <= found'[t][o] \/ Gone(o, ticket)
    BY <2>2, <1>1 DEF CoverInv
  <2>3. found'[s][o] > 0 => ticket <= found'[s][o] \/ Gone(o, ticket)
    <3>1. CASE found'[s][o] = remaining[o]
      BY <2>1, <3>1
    <3>2. CASE found'[s][o] = 0
      BY <3>2
    <3>3. QED
      BY <1>3, <3>1, <3>2
  <2>4. QED
    BY <2>1, <2>2, <2>3
<1>7. \A o \in Orders : Raced(o) => Raced(o)'
  BY <1>1, <1>2 DEF Raced
<1>8. ASSUME NEW o \in Orders, ~Oversold(o), ListIsSound(o)
      PROVE  ~Oversold(o)' /\ ListIsSound(o)'
  <2>1. UNCHANGED <<taken, remaining>>
    BY <1>1 DEF orders
  <2>2. ~Oversold(o)'
    BY <2>1, <1>8 DEF Oversold
  <2>3. ASSUME NEW t \in Sales \ {s}, pc'[t] = "deduct", NEW u \in seen'[t]
        PROVE  taken'[u][o] \cap 1..found'[t][o] = {}
    BY <2>1, <2>3, <1>1, <1>8 DEF ListIsSound
  <2>4. \A u \in Sales : taken[u][o] \cap 1..remaining[o] = {}
    BY <1>8 DEF Oversold
  <2>5. \A u \in seen'[s] : taken'[u][o] \cap 1..found'[s][o] = {}
    <3>1. seen'[s] \subseteq Sales /\ UNCHANGED taken
      BY <2>1, <1>1
    <3>2. CASE found'[s][o] = remaining[o]
      BY <3>1, <3>2, <2>4
    <3>3. CASE found'[s][o] = 0
      <4>1. 1..found'[s][o] = {}
        BY <3>3
      <4>2. QED
        BY <4>1
    <3>4. QED
      BY <1>3, <3>2, <3>3
  <2>6. QED
    BY <2>2, <2>3, <2>5 DEF ListIsSound
<1>9. DisjointInv'
  BY <1>7, <1>8 DEF DisjointInv
<1>10. QED
  BY <1>4, <1>5, <1>6, <1>9

LEMMA DeductIInv ==
  ASSUME IInv, TypeOK', NEW s \in Sales, Deduct(s)
  PROVE  IInv'
<1> USE DEF IInv
<1>1. PICK d \in Deductions(s) :
        /\ \A o \in Orders : d[o] > 0 => Exists(o)
        /\ remaining' = [o \in Orders |->
              IF d[o] > 0 THEN found[s][o] - d[o] ELSE remaining[o]]
        /\ status' = [o \in Orders |->
              IF d[o] = 0 THEN status[o]
              ELSE IF d[o] = found[s][o] THEN "EXHAUSTED" ELSE "ACTIVE"]
        /\ taken' = [taken EXCEPT ![s] =
              [o \in Orders |-> found[s][o] - d[o] + 1 .. found[s][o]]]
  BY DEF Deduct
<1>2. /\ UNCHANGED <<quantity, approved, seeded, found, seen>>
      /\ pc[s] = "deduct" /\ pc' = [pc EXCEPT ![s] = "sold"]
  BY DEF Deduct, Goto
<1>3. \A o \in Orders :
        d[o] \in Nat /\ found[s][o] \in Nat /\ remaining[o] \in Nat
        /\ quantity[o] \in Nat /\ d[o] <= found[s][o]
  BY QuotaAssumption DEF Deductions, TypeOK
<1>4. \A o \in Orders :
        /\ taken'[s][o] = found[s][o] - d[o] + 1 .. found[s][o]
        /\ \A t \in Sales \ {s} : taken'[t][o] = taken[t][o]
        /\ taken[s][o] = {}
  <2>1. taken \in [Sales -> [Orders -> SUBSET (1..MaxQuantity)]]
    BY DEF TypeOK
  <2>2. \A o \in Orders : taken[s][o] = {}
    BY <1>2 DEF HistoryInv
  <2>3. taken'[s] = [o \in Orders |-> found[s][o] - d[o] + 1 .. found[s][o]]
    BY <2>1, <1>1
  <2>4. \A t \in Sales \ {s} : taken'[t] = taken[t]
    BY <2>1, <1>1
  <2>5. QED
    BY <2>2, <2>3, <2>4
<1>5. \A o \in Orders : d[o] = 0 => taken'[s][o] = {}
  BY <1>3, <1>4
<1>6. \A t \in Sales : pc'[t] = "sold" <=> pc[t] = "sold" \/ t = s
  BY <1>2 DEF TypeOK
<1>7. HistoryInv'
  BY <1>2, <1>4, <1>6 DEF HistoryInv, TypeOK
<1>8. ApprovalInv'
  <2> SUFFICES ASSUME NEW o \in Orders
               PROVE  /\ status'[o] \in {"ACTIVE", "EXHAUSTED"} => Cleared(o)'
                      /\ Cleared(o)' => status'[o] # "none"
                      /\ \A t \in Sales :
                            /\ pc'[t] = "deduct" /\ found'[t][o] > 0 => Cleared(o)'
                            /\ taken'[t][o] # {} => Cleared(o)'
    BY DEF ApprovalInv
  <2>0. Cleared(o)' = Cleared(o)
    BY <1>2 DEF Cleared
  <2>1. CASE d[o] = 0
    BY <2>1, <2>0, <1>1, <1>2, <1>4, <1>5 DEF ApprovalInv, TypeOK
  <2>2. CASE d[o] # 0
    <3>1. found[s][o] > 0
      BY <2>2, <1>3
    <3>2. Cleared(o)
      BY <3>1, <1>2 DEF ApprovalInv
    <3>3. status'[o] # "none"
      BY <2>2, <1>1
    <3>4. QED
      BY <3>2, <3>3, <2>0
  <2>3. QED
    BY <2>1, <2>2
<1>9. CoverInv'
  <2> SUFFICES ASSUME NEW o \in Orders, NEW ticket \in 1..quantity[o]
               PROVE  /\ ticket <= remaining'[o] \/ Gone(o, ticket)'
                      /\ \A t \in Sales : pc'[t] = "deduct" /\ found'[t][o] > 0
                            => ticket <= found'[t][o] \/ Gone(o, ticket)'
    BY <1>2 DEF CoverInv
  <2>1. Gone(o, ticket) => Gone(o, ticket)'
    BY <1>4 DEF Gone
  <2>2. ticket <= remaining'[o] \/ Gone(o, ticket)'
    <3>1. CASE d[o] = 0
      BY <3>1, <2>1, <1>1, <1>3 DEF CoverInv
    <3>2. CASE d[o] # 0
      <4>1. remaining'[o] = found[s][o] - d[o] /\ found[s][o] > 0
        BY <3>2, <1>1, <1>3
      <4>2. ticket <= found[s][o] \/ Gone(o, ticket)
        BY <4>1, <1>2 DEF CoverInv
      <4>3. CASE ticket <= found[s][o] /\ ~(ticket <= remaining'[o])
        <5>1. ticket \in taken'[s][o]
          BY <4>1, <4>3, <1>3, <1>4
        <5>2. QED
          BY <5>1 DEF Gone
      <4>4. QED
        BY <4>2, <4>3, <2>1
    <3>3. QED
      BY <3>1, <3>2
  <2>3. \A t \in Sales : pc'[t] = "deduct" => pc[t] = "deduct"
    BY <1>2 DEF TypeOK
  <2>4. QED
    BY <2>1, <2>2, <2>3, <1>2 DEF CoverInv
<1>10. ASSUME NEW o \in Orders
       PROVE  Raced(o)' \/ (~Oversold(o)' /\ ListIsSound(o)')
  <2>1. CASE Raced(o)
    BY <2>1, <1>2, <1>4 DEF Raced
  <2>2. CASE \E t \in Sales \ {s} :
                t \notin seen[s] /\ taken[t][o] # {} /\ taken'[s][o] # {}
    <3>1. PICK t \in Sales \ {s} :
              t \notin seen[s] /\ taken[t][o] # {} /\ taken'[s][o] # {}
      BY <2>2
    <3>2. s \notin seen[t]
      BY <1>2 DEF HistoryInv
    <3>3. QED
      BY <3>1, <3>2, <1>2, <1>4 DEF Raced
  <2>3. CASE /\ ~Oversold(o) /\ ListIsSound(o)
             /\ \A t \in Sales \ {s} : taken[t][o] # {} /\ taken'[s][o] # {} => t \in seen[s]
    <3>1. \A t \in Sales \ {s} : taken'[s][o] # {} => taken[t][o] \cap 1..found[s][o] = {}
      BY <2>3, <1>2 DEF ListIsSound
    <3>2. taken'[s][o] \subseteq 1..found[s][o]
      BY <1>3, <1>4
    <3>3. \A t \in Sales \ {s} : taken'[s][o] \cap taken'[t][o] = {}
      BY <3>1, <3>2, <1>4
    <3>4. remaining'[o] = IF d[o] > 0 THEN found[s][o] - d[o] ELSE remaining[o]
      BY <1>1
    <3>5. taken'[s][o] \cap 1..remaining'[o] = {}
      BY <3>4, <1>3, <1>4, <1>5
    <3>6. \A t \in Sales \ {s} : taken'[t][o] \cap 1..remaining'[o] = {}
      <4>1. CASE d[o] = 0
        BY <4>1, <3>4, <1>4, <2>3 DEF Oversold
      <4>2. CASE d[o] > 0
        <5>1. found[s][o] \in taken'[s][o]
          BY <4>2, <1>3, <1>4
        <5>2. 1..remaining'[o] \subseteq 1..found[s][o]
          BY <4>2, <3>4, <1>3
        <5>3. QED
          BY <5>1, <5>2, <3>1, <1>4
      <4>3. QED
        BY <4>1, <4>2, <1>3
    <3>7. ~Oversold(o)'
      <4>1. \A t, u \in Sales : t # u => taken'[t][o] \cap taken'[u][o] = {}
        BY <3>3, <1>4, <2>3 DEF Oversold
      <4>2. QED
        BY <4>1, <3>5, <3>6 DEF Oversold
    <3>8. ListIsSound(o)'
      <4> SUFFICES ASSUME NEW t \in Sales, pc'[t] = "deduct", NEW u \in seen[t]
                   PROVE  taken'[u][o] \cap 1..found[t][o] = {}
        BY <1>2 DEF ListIsSound
      <4>1. pc[t] = "deduct" /\ u \in Sales
        BY <1>2 DEF TypeOK
      <4>2. u # s
        BY <1>2 DEF HistoryInv
      <4>3. QED
        BY <4>1, <4>2, <1>4, <2>3 DEF ListIsSound
    <3>9. QED
      BY <3>7, <3>8
  <2>4. QED
    BY <2>1, <2>2, <2>3 DEF DisjointInv
<1>11. DisjointInv'
  BY <1>10 DEF DisjointInv
<1>12. QED
  BY <1>7, <1>8, <1>9, <1>11

LEMMA NextIInv == IInv /\ [Next]_vars => IInv'
<1> SUFFICES ASSUME IInv, [Next]_vars PROVE IInv'
  OBVIOUS
<1>t. TypeOK /\ TypeOK'
  BY StepTypeOK DEF IInv
<1>1. ASSUME NEW o \in Orders, Buy(o) \/ Seed(o) PROVE IInv'
  BY <1>1, <1>t, CreateIInv
<1>2. ASSUME NEW o \in Orders, CommissionWrites(o) PROVE IInv'
  BY <1>2, <1>t, AdminStep DEF CommissionWrites, TypeOK, IInv, ApprovalInv,
     Cleared
<1>3. ASSUME NEW a \in Admins, AdminRead(a) \/ AdminFails(a) PROVE IInv'
  BY <1>3, <1>t, AdminStep DEF AdminRead, AdminFails, orders, IInv,
     ApprovalInv, Cleared
<1>4. ASSUME NEW a \in Admins, ApproveWrite(a) PROVE IInv'
  BY <1>4, <1>t, AdminStep DEF ApproveWrite, TypeOK, IInv, ApprovalInv,
     Cleared
<1>5. ASSUME NEW a \in Admins, RejectWrite(a) \/ DeleteWrite(a) PROVE IInv'
  BY <1>5, <1>t, AdminStep DEF RejectWrite, DeleteWrite, TypeOK, IInv,
     ApprovalInv, Cleared
<1>6. ASSUME NEW s \in Sales, ListOrders(s) PROVE IInv'
  <2>1. CASE pc'[s] = "deduct"
    BY <1>6, <1>t, <2>1, ListIInv
  <2>2. CASE pc'[s] # "deduct"
    BY <1>6, <1>t, <2>2, RefusalIInv DEF ListOrders, Goto, TypeOK
  <2>3. QED
    BY <2>1, <2>2
<1>7. ASSUME NEW s \in Sales, Deduct(s) PROVE IInv'
  BY <1>7, <1>t, DeductIInv
<1>8. ASSUME NEW s \in Sales, Rollback(s) PROVE IInv'
  BY <1>8, <1>t, RefusalIInv DEF Rollback
<1>9. CASE RemoveAgent \/ UNCHANGED vars
  BY <1>9, <1>t, AdminStep DEF RemoveAgent, vars, orders, IInv, ApprovalInv, Cleared
<1>10. QED
  BY <1>1, <1>2, <1>3, <1>4, <1>5, <1>6, <1>7, <1>8, <1>9 DEF Next

\* The rows, the lists of the sales in flight and the sales made agree.
LEMMA QuotaAgrees == Spec => []IInv
BY InitIInv, NextIInv, PTL DEF Spec

\* More tickets than were bought are sold only if two sales overlapped.
THEOREM OversaleIsARace == Spec => []OversoldNeedsRace
<1>1. IInv => OversoldNeedsRace
  BY DEF IInv, DisjointInv, OversoldNeedsRace
<1>2. QED
  BY QuotaAgrees, <1>1, PTL

\* No ticket the agent bought disappears.
THEOREM TicketsAreKept == Spec => []NoTicketLost
<1>1. IInv => NoTicketLost
  BY DEF IInv, CoverInv, NoTicketLost, Gone
<1>2. QED
  BY QuotaAgrees, <1>1, PTL

\* Tickets come only out of approved orders and those of the seed.
THEOREM SalesWereApproved == Spec => []SoldWereApproved
<1>1. IInv => SoldWereApproved
  BY DEF IInv, ApprovalInv, Cleared, SoldWereApproved
<1>2. QED
  BY QuotaAgrees, <1>1, PTL

=============================================================================
