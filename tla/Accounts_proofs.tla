--------------------------- MODULE Accounts_proofs ---------------------------
(***************************************************************************)
(* Proofs about Accounts, for any numbers, codes, calls and accounts.      *)
(***************************************************************************)
EXTENDS Accounts, TLAPS

\* Accounts opened by their owner, the number written in a usual way.
Own(a) == /\ Exists(a) /\ account[a].phone # None /\ ~account[a].byOffice
          /\ account[a].phone[2] \in {"intl", "local"}

CodeFor(c, p) == code[c] # None /\ Key(code[c].phone) = Key(p)

Holds(x, c) == call[x] # None /\ call[x].otp = c

\* A code in the store of a process stands under its own key, was sent by that
\* process and never used.
StoredInv ==
    \A s \in Servers, p \in Phones, c \in Codes : otpStore[s][p] = c =>
        /\ fate[c] \in {"good", "late"} /\ code[c] # None
        /\ s = code[c].server /\ p = Key(code[c].phone)

\* A good code is in the store; one whose time has passed is known to be late.
GoodInv ==
    \A c \in Codes :
        /\ fate[c] # "unsent" <=> code[c] # None
        /\ fate[c] = "good" => otpStore[code[c].server][Key(code[c].phone)] = c
        /\ fate[c] \in {"asked", "good"} => ~code[c].late
        /\ fate[c] = "late" => code[c].late

\* The code of a registration under way is spent, is its number's, and is no other's.
HeldInv ==
    \A x \in Calls, c \in Codes : Holds(x, c) =>
        /\ fate[c] = "used" /\ CodeFor(c, call[x].phone)
        /\ \A y \in Calls : Holds(y, c) => y = x
        /\ \A a \in Accounts : opened[a] # c

OpenedInv ==
    \A c \in Codes : \A a \in Accounts : opened[a] = c =>
        /\ fate[c] = "used"
        /\ \A b \in Accounts : opened[b] = c => b = a

\* Code c may still open an account for number n, and its request looked for all the
\* usual ways to write it.
Checked(c, n) == c \in Open(n) /\ code[c].phone[2] # "zeros"

\* Such a code has missed every account of its number.
MissedInv ==
    \A c \in Codes, a \in Accounts :
        Own(a) /\ Checked(c, Number(account[a].phone)) => a \in missed[c]

NumberInv ==
    \A a, b \in Accounts :
        (/\ a # b /\ Own(a) /\ Own(b)
         /\ Number(account[a].phone) = Number(account[b].phone))
            => a \in missedBy[b] \/ b \in missedBy[a]

IInv == TypeOK /\ StoredInv /\ GoodInv /\ HeldInv /\ OpenedInv /\ MissedInv /\ NumberInv

\* Spellings: the usual ways to write a number have one key, and are looked for from
\* any way but one.
LEMMA Spelling ==
    ASSUME NEW p \in Phones
    PROVE  /\ Key(p) \in Phones
           /\ \A q \in Phones : Key(p) = Key(q) <=> Alike(p, q)
           /\ \A q \in Phones : Key(p) = Key(q) => Number(p) = Number(q)
           /\ \A q \in Phones : q[2] \in {"intl", "local"} /\ Key(p) = Key(q) => p[2] # "zeros"
           /\ \A q \in Phones :
                 p[2] # "zeros" /\ q[2] \in {"intl", "local"} /\ Number(q) = Number(p)
                     => q \in Variations(p)
  <1>1. p[1] \in Numbers /\ p[2] \in Forms /\ p = <<p[1], p[2]>>
    BY DEF Phones
  <1>2. Key(p) \in Phones
    BY <1>1, FormsAssumption DEF Phones, Phone, Key
  <1> SUFFICES ASSUME NEW q \in Phones
               PROVE  /\ Key(p) = Key(q) <=> Alike(p, q)
                      /\ Key(p) = Key(q) => Number(p) = Number(q)
                      /\ q[2] \in {"intl", "local"} /\ Key(p) = Key(q) => p[2] # "zeros"
                      /\ p[2] # "zeros" /\ q[2] \in {"intl", "local"} /\ Number(q) = Number(p)
                            => q \in Variations(p)
    BY <1>2
  <1>3. q[1] \in Numbers /\ q[2] \in Forms /\ q = <<q[1], q[2]>>
    BY DEF Phones
  <1>4. \A r \in {p, q} : r[2] \in {"intl", "local", "spaced", "short", "zeros"}
    BY <1>1, <1>3, FormsAssumption
  <1>5. (Key(p) = Key(q) <=> Alike(p, q)) /\ (Key(p) = Key(q) => Number(p) = Number(q))
    BY <1>1, <1>3, <1>4 DEF Phone, Key, Number, Alike
  <1>6. q[2] \in {"intl", "local"} /\ Key(p) = Key(q) => p[2] # "zeros"
    BY <1>1, <1>3, <1>4 DEF Phone, Key
  <1>7. p[2] # "zeros" /\ q[2] \in {"intl", "local"} /\ Number(q) = Number(p)
           => q \in Variations(p)
    BY <1>1, <1>3 DEF Phone, Number, Variations
  <1>8. QED
    BY <1>5, <1>6, <1>7

\* The steps, by what they may change.
CodeChange == \E c \in Codes :
    \/ SendCode(c) \/ Expire(c)
    \/ \E s \in Servers, p \in Phones :
          \/ AskCode(s, c, p)
          \/ \E x \in Calls, e \in Emails \cup {Internal(p)} : TakeCode(s, x, c, p, e)

NewRow == \E a \in Accounts :
    \/ \E x \in Calls : Register(x, a)
    \/ \E e \in Emails : RegisterByEmail(a, e)
    \/ \E p \in Phones : \E e \in Emails \cup {Office(p)} : OfficeCreates(a, p, e)
    \/ Seed(a) /\ WithEmail(SeedEmail) = {}

RowChange == \E a \in Accounts :
    \/ Remove(a)
    \/ Seed(a) /\ WithEmail(SeedEmail) # {}
    \/ \E e \in Emails : UpdateProfile(a, e)
    \/ \E p \in Phones : OfficeUpdates(a, p)

\* Every step is one of these.
LEMMA Steps ==
    ASSUME [Next]_vars
    PROVE  \/ CodeChange \/ NewRow \/ RowChange
           \/ \E s \in Servers : Restart(s)
           \/ \E x \in Calls : Fails(x)
           \/ UNCHANGED vars
  <1>1. CASE \E c \in Codes : CodeStep(c)
    BY <1>1 DEF CodeStep, CodeChange
  <1>2. CASE \E x \in Calls : CallStep(x)
    BY <1>2 DEF CallStep, NewRow
  <1>3. CASE \E a \in Accounts : AccountStep(a)
    BY <1>3 DEF AccountStep, NewRow, RowChange
  <1>4. QED
    BY <1>1, <1>2, <1>3 DEF Next

\* Every step keeps the types.
LEMMA StepTypeOK == TypeOK /\ [Next]_vars => TypeOK'
  <1> SUFFICES ASSUME TypeOK, [Next]_vars PROVE TypeOK'
    OBVIOUS
  <1>a. SeedEmail \in Addresses /\ Phone(SeedNumber, "intl") \in Phones
    BY SeedAssumption, FormsAssumption DEF Addresses, Phones, Phone
  <1>b. \A p \in Phones : Key(p) \in Phones
    BY Spelling
  <1>c. \A p \in Phones : \A e \in Emails \cup {Internal(p)} \cup {Office(p)} : e \in Addresses
    BY DEF Addresses
  <1>1. ASSUME NEW s \in Servers, NEW c \in Codes, NEW p \in Phones, AskCode(s, c, p)
        PROVE  TypeOK'
    <2>1. [phone |-> p, late |-> FALSE, server |-> s] \in Asked
      BY DEF Asked
    <2>2. QED
      BY <1>1, <2>1 DEF AskCode, TypeOK
  <1>2. ASSUME NEW c \in Codes, SendCode(c) PROVE TypeOK'
    <2>1. fate' \in [Codes -> {"unsent", "asked", "good", "late", "replaced", "lost", "used"}]
      BY <1>2 DEF SendCode, TypeOK
    <2>2. otpStore' \in [Servers -> [Phones -> Codes \cup {None}]]
      BY <1>2 DEF SendCode, TypeOK
    <2>3. QED
      BY <1>2, <2>1, <2>2 DEF SendCode, TypeOK
  <1>3. ASSUME NEW c \in Codes, Expire(c) PROVE TypeOK'
    BY <1>3 DEF Expire, TypeOK, Asked
  <1>4. ASSUME NEW s \in Servers, NEW c \in Codes, NEW x \in Calls, NEW p \in Phones,
               NEW e \in Emails \cup {Internal(p)}, TakeCode(s, x, c, p, e)
        PROVE  TypeOK'
    <2>1. e \in Addresses
      BY <1>c
    <2>2. QED
      BY <1>4, <2>1 DEF TakeCode, Enter, TypeOK
  <1>5. ASSUME NEW a \in Accounts, NEW p \in Phones \cup {None}, NEW e \in Addresses,
               NEW office \in BOOLEAN, Insert(a, p, e, office)
        PROVE  /\ account' \in [Accounts -> Rows \cup {None, Gone}]
               /\ missed' \in [Codes -> SUBSET Accounts]
    BY <1>5 DEF Insert, TypeOK, Rows
  <1>6. CASE NewRow
    <2>1. ASSUME NEW a \in Accounts, NEW x \in Calls, Register(x, a) PROVE TypeOK'
      <3>1. call[x].phone \in Phones /\ call[x].email \in Addresses /\ call[x].otp \in Codes
        BY <2>1 DEF Register, TypeOK
      <3>2. /\ account' \in [Accounts -> Rows \cup {None, Gone}]
            /\ missed' \in [Codes -> SUBSET Accounts]
        BY <1>5, <2>1, <3>1 DEF Register
      <3>3. QED
        BY <2>1, <3>1, <3>2 DEF Register, Leave, TypeOK
    <2>2. ASSUME NEW a \in Accounts, NEW e \in Emails, RegisterByEmail(a, e) PROVE TypeOK'
      <3>1. /\ account' \in [Accounts -> Rows \cup {None, Gone}]
            /\ missed' \in [Codes -> SUBSET Accounts]
        BY <1>5, <2>2 DEF RegisterByEmail, Addresses
      <3>2. QED
        BY <2>2, <3>1 DEF RegisterByEmail, TypeOK
    <2>3. ASSUME NEW a \in Accounts, NEW p \in Phones, NEW e \in Emails \cup {Office(p)},
                 OfficeCreates(a, p, e)
          PROVE  TypeOK'
      <3>1. /\ account' \in [Accounts -> Rows \cup {None, Gone}]
            /\ missed' \in [Codes -> SUBSET Accounts]
        BY <1>5, <1>c, <2>3 DEF OfficeCreates
      <3>2. QED
        BY <2>3, <3>1 DEF OfficeCreates, TypeOK
    <2>4. ASSUME NEW a \in Accounts, Seed(a), WithEmail(SeedEmail) = {} PROVE TypeOK'
      <3>1. Insert(a, Phone(SeedNumber, "intl"), SeedEmail, TRUE)
        BY <2>4 DEF Seed
      <3>2. /\ account' \in [Accounts -> Rows \cup {None, Gone}]
            /\ missed' \in [Codes -> SUBSET Accounts]
        BY <1>5, <1>a, <3>1
      <3>3. QED
        BY <2>4, <3>2 DEF Seed, TypeOK
    <2>5. QED
      BY <1>6, <2>1, <2>2, <2>3, <2>4 DEF NewRow
  <1>7. CASE RowChange
    <2>1. ASSUME NEW a \in Accounts, Seed(a), WithEmail(SeedEmail) # {} PROVE TypeOK'
      <3>1. a \in WithEmail(SeedEmail) /\
              account' = [account EXCEPT ![a].phone = Phone(SeedNumber, "intl"),
                                         ![a].byOffice = TRUE]
        BY <2>1 DEF Seed
      <3>2. account[a] \in Rows
        BY <3>1 DEF TypeOK, WithEmail, Users, Exists
      <3>3. account'[a] \in Rows /\ \A b \in Accounts \ {a} : account'[b] = account[b]
        BY <1>a, <3>1, <3>2 DEF TypeOK, Rows
      <3>4. account' \in [Accounts -> Rows \cup {None, Gone}]
        BY <3>1, <3>3 DEF TypeOK
      <3>5. QED
        BY <2>1, <3>4 DEF Seed, TypeOK
    <2>2. ASSUME NEW a \in Accounts, Remove(a) PROVE TypeOK'
      BY <2>2 DEF Remove, TypeOK
    <2>3. ASSUME NEW a \in Accounts, NEW e \in Emails, UpdateProfile(a, e) PROVE TypeOK'
      BY <2>3 DEF UpdateProfile, TypeOK, Rows, Exists, Addresses
    <2>4. ASSUME NEW a \in Accounts, NEW p \in Phones, OfficeUpdates(a, p) PROVE TypeOK'
      BY <2>4 DEF OfficeUpdates, TypeOK, Rows, Exists
    <2>5. QED
      BY <1>7, <2>1, <2>2, <2>3, <2>4 DEF RowChange
  <1>8. ASSUME NEW s \in Servers, Restart(s) PROVE TypeOK'
    <2>1. otpStore' \in [Servers -> [Phones -> Codes \cup {None}]]
      BY <1>8 DEF Restart, TypeOK
    <2>2. fate' \in [Codes -> {"unsent", "asked", "good", "late", "replaced", "lost", "used"}]
      BY <1>8 DEF Restart, TypeOK
    <2>3. call' \in [Calls -> [phone : Phones, email : Addresses, otp : Codes] \cup {None}]
      BY <1>8 DEF Restart, TypeOK
    <2>4. QED
      BY <1>8, <2>1, <2>2, <2>3 DEF Restart, TypeOK
  <1>9. ASSUME NEW x \in Calls, Fails(x) PROVE TypeOK'
    BY <1>9 DEF Fails, Leave, TypeOK
  <1>10. CASE UNCHANGED vars
    BY <1>10 DEF vars, TypeOK
  <1>11. CASE CodeChange
    BY <1>1, <1>2, <1>3, <1>4, <1>11 DEF CodeChange
  <1>12. QED
    BY Steps, <1>6, <1>7, <1>8, <1>9, <1>10, <1>11

\* Steps that leave store, codes and their fates alone.
LEMMA Frame ==
    ASSUME [Next]_vars, ~CodeChange, ~\E s \in Servers : Restart(s)
    PROVE  UNCHANGED <<otpStore, code, fate>>
  <1>1. CASE NewRow
    BY <1>1 DEF NewRow, Register, RegisterByEmail, OfficeCreates, Seed
  <1>2. CASE RowChange
    BY <1>2 DEF RowChange, Remove, Seed, UpdateProfile, OfficeUpdates
  <1>3. QED
    BY Steps, <1>1, <1>2 DEF Fails, vars

\* The store and the fates of the codes stay in agreement.
LEMMA StepStored == TypeOK /\ StoredInv /\ GoodInv /\ [Next]_vars => StoredInv' /\ GoodInv'
  <1> SUFFICES ASSUME TypeOK, StoredInv, GoodInv, [Next]_vars PROVE StoredInv' /\ GoodInv'
    OBVIOUS
  <1>1. ASSUME NEW s \in Servers, NEW c \in Codes, NEW p \in Phones, AskCode(s, c, p)
        PROVE  StoredInv' /\ GoodInv'
    <2>1. /\ code' = [code EXCEPT ![c] = [phone |-> p, late |-> FALSE, server |-> s]]
          /\ fate' = [fate EXCEPT ![c] = "asked"] /\ otpStore' = otpStore /\ fate[c] = "unsent"
      BY <1>1 DEF AskCode, GoodInv, TypeOK
    <2>2. code'[c] # None
      <3>1. code'[c] = [phone |-> p, late |-> FALSE, server |-> s]
        BY <2>1 DEF TypeOK
      <3>2. code'[c] \in Asked
        BY <3>1 DEF Asked
      <3>3. QED
        BY <3>2, NoneAssumption
    <2>3. \A r \in Servers, q \in Phones : otpStore[r][q] # c
      BY <2>1 DEF StoredInv
    <2>4. QED
      BY <2>1, <2>2, <2>3 DEF StoredInv, GoodInv, TypeOK
  <1>2. ASSUME NEW c \in Codes, SendCode(c) PROVE StoredInv' /\ GoodInv'
    <2>1. \A d \in Codes : code[d] # None => code[d].phone \in Phones /\ code[d].server \in Servers
      BY DEF TypeOK, Asked
    <2>2. code[c] # None /\ ~code[c].late
      BY <1>2 DEF SendCode, GoodInv
    <2> DEFINE r == code[c].server
               k == Key(code[c].phone)
    <2>3. r \in Servers /\ k \in Phones
      BY <2>1, <2>2, Spelling
    <2>4. \A d \in Codes : Supersedes(c, d) <=>
             fate[d] = "good" /\ code[d].server = r /\ Key(code[d].phone) = k
      BY <2>1, <2>2, Spelling DEF Supersedes, GoodInv
    <2>5. /\ otpStore' = [otpStore EXCEPT ![r][k] = c] /\ code' = code /\ fate'[c] = "good"
          /\ \A d \in Codes \ {c} :
               fate'[d] = IF Supersedes(c, d) THEN "replaced" ELSE fate[d]
      BY <1>2 DEF SendCode
    <2>6. /\ otpStore'[r][k] = c
          /\ \A t \in Servers, p \in Phones :
                <<t, p>> # <<r, k>> => otpStore'[t][p] = otpStore[t][p]
      BY <2>3, <2>5 DEF TypeOK
    <2> HIDE DEF r, k
    <2>7. StoredInv'
      <3> SUFFICES ASSUME NEW t \in Servers, NEW p \in Phones, NEW d \in Codes, otpStore'[t][p] = d
                   PROVE  /\ fate'[d] \in {"good", "late"} /\ code[d] # None
                          /\ t = code[d].server /\ p = Key(code[d].phone)
        BY <2>5 DEF StoredInv
      <3>1. CASE t = r /\ p = k
        BY <2>2, <2>5, <2>6, <3>1 DEF r, k
      <3>2. CASE ~(t = r /\ p = k)
        <4>1. otpStore[t][p] = d
          BY <2>6, <3>2
        <4>2. /\ fate[d] \in {"good", "late"} /\ code[d] # None
              /\ t = code[d].server /\ p = Key(code[d].phone)
          BY <4>1 DEF StoredInv
        <4>3. ~Supersedes(c, d)
          BY <2>4, <3>2, <4>2
        <4>4. QED
          BY <2>5, <4>2, <4>3
      <3>3. QED
        BY <3>1, <3>2
    <2>8. ASSUME NEW d \in Codes PROVE GoodInv!(d)'
      <3>1. CASE d = c
        BY <2>2, <2>5, <2>6, <3>1 DEF r, k
      <3>2. CASE d # c
        <4>1. fate'[d] = "good" => fate[d] = "good" /\ ~Supersedes(c, d)
          BY <2>5, <3>2
        <4>2. fate[d] = "good" => /\ otpStore[code[d].server][Key(code[d].phone)] = d
                                  /\ code[d].server \in Servers /\ Key(code[d].phone) \in Phones
          BY <2>1, Spelling DEF GoodInv
        <4>3. fate'[d] = "good" => otpStore'[code[d].server][Key(code[d].phone)] = d
          BY <2>4, <2>6, <4>1, <4>2
        <4>4. QED
          BY <2>4, <2>5, <3>2, <4>3 DEF GoodInv
      <3>3. QED
        BY <3>1, <3>2
    <2>9. QED
      BY <2>7, <2>8 DEF GoodInv
  <1>3. ASSUME NEW c \in Codes, Expire(c) PROVE StoredInv' /\ GoodInv'
    <2>1. /\ otpStore' = otpStore /\ fate' = [fate EXCEPT ![c] = "late"]
          /\ code' = [code EXCEPT ![c].late = TRUE]
          /\ fate[c] = "good" /\ code[c] # None
      BY <1>3 DEF Expire
    <2>2. /\ code'[c].late /\ code'[c].phone = code[c].phone
          /\ code'[c].server = code[c].server /\ code'[c] # None
      <3>1. code[c] \in Asked /\ code'[c] = [code[c] EXCEPT !.late = TRUE]
        BY <2>1 DEF TypeOK
      <3>2. code'[c] \in Asked
        BY <3>1 DEF Asked
      <3>3. QED
        BY <3>1, <3>2, NoneAssumption DEF Asked
    <2>3. \A d \in Codes \ {c} : code'[d] = code[d] /\ fate'[d] = fate[d]
      BY <2>1 DEF TypeOK
    <2>4. fate'[c] = "late"
      BY <2>1 DEF TypeOK
    <2>5. StoredInv'
      BY <2>1, <2>2, <2>3, <2>4 DEF StoredInv
    <2>6. GoodInv'
      BY <2>1, <2>2, <2>3, <2>4 DEF GoodInv
    <2>7. QED
      BY <2>5, <2>6
  <1>4. ASSUME NEW s \in Servers, NEW c \in Codes, NEW x \in Calls, NEW p \in Phones, NEW e,
               TakeCode(s, x, c, p, e)
        PROVE  StoredInv' /\ GoodInv'
    <2>1. /\ otpStore' = [otpStore EXCEPT ![s][Key(p)] = None] /\ code' = code
          /\ fate' = [fate EXCEPT ![c] = "used"] /\ otpStore[s][Key(p)] = c
      BY <1>4 DEF TakeCode
    <2>2. Key(p) \in Phones /\ None \notin Codes
      BY Spelling, NoneAssumption
    <2>3. s = code[c].server /\ Key(p) = Key(code[c].phone) /\ fate[c] # "unsent"
      BY <2>1, <2>2 DEF StoredInv
    <2>4. \A t \in Servers, q \in Phones :
             otpStore'[t][q] = IF t = s /\ q = Key(p) THEN None ELSE otpStore[t][q]
      BY <2>1, <2>2 DEF TypeOK
    <2>5. \A t \in Servers, q \in Phones, d \in Codes :
             otpStore'[t][q] = d => otpStore[t][q] = d /\ d # c
      BY <2>2, <2>3, <2>4 DEF StoredInv
    <2>6. \A d \in Codes \ {c} : fate'[d] = fate[d]
      BY <2>1
    <2>7. StoredInv'
      BY <2>1, <2>5, <2>6 DEF StoredInv
    <2>8. ASSUME NEW d \in Codes \ {c}, fate[d] = "good"
          PROVE  otpStore'[code[d].server][Key(code[d].phone)] = d
      <3>1. code[d].phone \in Phones /\ code[d].server \in Servers
        BY <2>8 DEF GoodInv, TypeOK, Asked
      <3>2. otpStore[code[d].server][Key(code[d].phone)] = d
        BY <2>8 DEF GoodInv
      <3>3. QED
        BY <2>1, <2>4, <3>1, <3>2, Spelling
    <2>9. GoodInv'
      BY <2>1, <2>3, <2>6, <2>8 DEF GoodInv, TypeOK
    <2>10. QED
      BY <2>7, <2>9
  <1>5. ASSUME NEW s \in Servers, Restart(s) PROVE StoredInv' /\ GoodInv'
    <2>1. /\ otpStore'[s] = [p \in Phones |-> None]
          /\ \A t \in Servers \ {s} : otpStore'[t] = otpStore[t]
          /\ code' = code
      BY <1>5 DEF Restart, TypeOK
    <2>2. \A c \in Codes :
             fate'[c] = IF fate[c] \in {"asked", "good"} /\ code[c].server = s
                        THEN "lost" ELSE fate[c]
      BY <1>5 DEF Restart
    <2>3. \A t \in Servers, p \in Phones, c \in Codes :
             otpStore'[t][p] = c => t # s /\ otpStore[t][p] = c
      BY <2>1, NoneAssumption
    <2>4. StoredInv'
      BY <2>1, <2>2, <2>3 DEF StoredInv
    <2>5. \A c \in Codes : code[c] # None => code[c].server \in Servers
      BY DEF TypeOK, Asked
    <2>6. GoodInv'
      BY <2>1, <2>2, <2>5 DEF GoodInv
    <2>7. QED
      BY <2>4, <2>6
  <1>6. CASE UNCHANGED <<otpStore, code, fate>>
    BY <1>6 DEF StoredInv, GoodInv
  <1>7. QED
    BY Frame, <1>1, <1>2, <1>3, <1>4, <1>5, <1>6 DEF CodeChange

\* A code in nobody's hands yet opened no account and is used by no registration.
LEMMA StepHeld ==
    TypeOK /\ StoredInv /\ GoodInv /\ HeldInv /\ OpenedInv /\ [Next]_vars => HeldInv' /\ OpenedInv'
  <1> SUFFICES ASSUME TypeOK, StoredInv, GoodInv, HeldInv, OpenedInv, [Next]_vars
               PROVE  HeldInv' /\ OpenedInv'
    OBVIOUS
  <1>1. ASSUME NEW s \in Servers, NEW c \in Codes, NEW x \in Calls, NEW p \in Phones,
               NEW e, TakeCode(s, x, c, p, e)
        PROVE  HeldInv' /\ OpenedInv'
    <2>1. /\ code' = code /\ opened' = opened /\ fate' = [fate EXCEPT ![c] = "used"]
          /\ otpStore[s][Key(p)] = c
          /\ call' = [call EXCEPT ![x] = [phone |-> p, email |-> e, otp |-> c]]
          /\ call[x] = None
      BY <1>1 DEF TakeCode, Enter
    <2>2. /\ fate[c] \in {"good", "late"} /\ code[c] # None /\ Key(p) = Key(code[c].phone)
          /\ Key(p) \in Phones
      BY <2>1, Spelling DEF StoredInv
    <2>3. CodeFor(c, p)
      BY <2>2 DEF CodeFor
    <2>4. \A y \in Calls, d \in Codes : Holds(y, d)' => (y = x /\ d = c) \/ (y # x /\ Holds(y, d))
      BY <2>1 DEF Holds, TypeOK
    <2>5. /\ \A y \in Calls : ~Holds(y, c)
          /\ \A a \in Accounts : opened[a] # c
      BY <2>2 DEF HeldInv, OpenedInv
    <2>6. OpenedInv'
      BY <2>1, <2>5 DEF OpenedInv, TypeOK
    <2>7. ASSUME NEW y \in Calls, NEW d \in Codes, Holds(y, d)'
          PROVE  HeldInv!(y, d)!2'
      <3>1. CASE y = x /\ d = c
        <4>1. call'[x].phone = p /\ fate'[c] = "used"
          BY <2>1 DEF TypeOK
        <4>2. QED
          BY <2>1, <2>3, <2>4, <2>5, <3>1, <4>1 DEF CodeFor
      <3>2. CASE y # x /\ Holds(y, d)
        <4>1. d # c /\ call'[y] = call[y] /\ fate'[d] = fate[d]
          BY <2>1, <2>5, <3>2 DEF TypeOK
        <4>2. QED
          BY <2>1, <2>4, <3>2, <4>1 DEF HeldInv, CodeFor
      <3>3. QED
        BY <2>4, <2>7, <3>1, <3>2
    <2>8. QED
      BY <2>6, <2>7 DEF HeldInv
  <1>2. ASSUME NEW a \in Accounts, NEW x \in Calls, Register(x, a) PROVE HeldInv' /\ OpenedInv'
    <2>1. /\ call[x] # None /\ call' = [call EXCEPT ![x] = None]
          /\ opened' = [opened EXCEPT ![a] = call[x].otp]
          /\ UNCHANGED <<code, fate>>
      BY <1>2 DEF Register, Leave
    <2>2. call[x].otp \in Codes /\ Holds(x, call[x].otp)
      BY <2>1 DEF Holds, TypeOK
    <2>3. fate[call[x].otp] = "used" /\ \A b \in Accounts : opened[b] # call[x].otp
      BY <2>2 DEF HeldInv
    <2>4. \A y \in Calls, d \in Codes : Holds(y, d)' =>
            y # x /\ Holds(y, d) /\ call'[y] = call[y] /\ d # call[x].otp
      BY <2>1, <2>2 DEF Holds, HeldInv, TypeOK
    <2>5. HeldInv'
      BY <2>1, <2>4 DEF HeldInv, CodeFor, TypeOK
    <2>6. OpenedInv'
      BY <2>1, <2>3 DEF OpenedInv, TypeOK
    <2>7. QED
      BY <2>5, <2>6
  <1>3. ASSUME UNCHANGED opened,
               \A y \in Calls, d \in Codes : Holds(y, d)' => Holds(y, d) /\ call'[y] = call[y],
               \A d \in Codes : fate[d] = "used" =>
                   fate'[d] = "used" /\ (code[d] # None => code'[d] # None /\ code'[d].phone = code[d].phone)
        PROVE  HeldInv' /\ OpenedInv'
    <2>1. OpenedInv'
      BY <1>3 DEF OpenedInv
    <2>2. HeldInv'
      BY <1>3 DEF HeldInv, CodeFor
    <2>3. QED
      BY <2>1, <2>2
  <1>4. ASSUME NEW s \in Servers, NEW c \in Codes, NEW p \in Phones, AskCode(s, c, p)
        PROVE  HeldInv' /\ OpenedInv'
    <2>1. fate[c] = "unsent"
      BY <1>4 DEF AskCode, GoodInv
    <2>2. QED
      BY <1>3, <1>4, <2>1 DEF AskCode, Holds, TypeOK
  <1>5. ASSUME NEW c \in Codes, SendCode(c) PROVE HeldInv' /\ OpenedInv'
    BY <1>3, <1>5 DEF SendCode, Supersedes, Holds
  <1>6. ASSUME NEW c \in Codes, Expire(c) PROVE HeldInv' /\ OpenedInv'
    BY <1>3, <1>6 DEF Expire, Holds, TypeOK
  <1>7. ASSUME NEW s \in Servers, Restart(s) PROVE HeldInv' /\ OpenedInv'
    <2>1. \A y \in Calls : call'[y] # None => call'[y] = call[y]
      BY <1>7 DEF Restart
    <2>2. \A d \in Codes : fate[d] = "used" => fate'[d] = "used"
      BY <1>7 DEF Restart
    <2>3. QED
      BY <1>3, <1>7, <2>1, <2>2 DEF Restart, Holds
  <1>8. ASSUME NEW x \in Calls, Fails(x) PROVE HeldInv' /\ OpenedInv'
    <2>1. \A y \in Calls, d \in Codes : Holds(y, d)' => Holds(y, d) /\ call'[y] = call[y]
      BY <1>8 DEF Fails, Leave, Holds, TypeOK
    <2>2. QED
      BY <1>3, <1>8, <2>1 DEF Fails
  <1>9. CASE UNCHANGED <<opened, call, fate, code>>
    BY <1>3, <1>9 DEF Holds
  <1>10. QED
    <2>1. CASE NewRow
      BY <1>2, <1>9, <2>1 DEF NewRow, RegisterByEmail, OfficeCreates, Seed
    <2>2. CASE RowChange
      BY <1>9, <2>2 DEF RowChange, Remove, Seed, UpdateProfile, OfficeUpdates
    <2>3. QED
      BY Steps, <1>1, <1>4, <1>5, <1>6, <1>7, <1>8, <1>9, <2>1, <2>2 DEF CodeChange, vars

\* Steps that leave the rows of users alone open no code that was closed to them.
LEMMA OpenShrinks ==
    ASSUME MissedInv, UNCHANGED <<account, missed>>,
           \A c \in Codes, a \in Accounts :
               Own(a) /\ Checked(c, Number(account[a].phone))'
                   => Checked(c, Number(account[a].phone))
    PROVE  MissedInv'
  BY DEF MissedInv, Own, Exists

\* The life of a code: asked for, sent, late, taken.
LEMMA StepMissedCode ==
    TypeOK /\ StoredInv /\ GoodInv /\ HeldInv /\ MissedInv /\ CodeChange => MissedInv'
  <1> SUFFICES ASSUME TypeOK, StoredInv, GoodInv, HeldInv, MissedInv, CodeChange PROVE MissedInv'
    OBVIOUS
  <1>1. ASSUME NEW s \in Servers, NEW c \in Codes, NEW p \in Phones, AskCode(s, c, p)
        PROVE  MissedInv'
    <2>1. /\ UNCHANGED <<account, call, missed>> /\ WithPhone(Variations(p)) = {}
          /\ code' = [code EXCEPT ![c] = [phone |-> p, late |-> FALSE, server |-> s]]
          /\ fate' = [fate EXCEPT ![c] = "asked"]
      BY <1>1 DEF AskCode
    <2>2. ASSUME NEW a \in Accounts, Own(a), p[2] # "zeros"
          PROVE  Number(account[a].phone) # Number(p)
      <3>1. account[a].phone \in Phones /\ a \in Users
        BY <2>2 DEF Own, Exists, Users, TypeOK, Rows
      <3>2. account[a].phone \notin Variations(p)
        BY <2>1, <3>1 DEF WithPhone
      <3>3. QED
        BY <2>2, <3>1, <3>2, Spelling DEF Own
    <2>3. code'[c].phone = p
      BY <2>1 DEF TypeOK
    <2>4. ASSUME NEW d \in Codes, NEW a \in Accounts, Own(a),
                 Checked(d, Number(account[a].phone))'
          PROVE  Checked(d, Number(account[a].phone))
      <3>1. d # c
        BY <2>1, <2>2, <2>3, <2>4 DEF Checked, Open
      <3>2. code'[d] = code[d] /\ fate'[d] = fate[d]
        BY <2>1, <3>1 DEF TypeOK
      <3>3. QED
        BY <2>1, <2>4, <3>2 DEF Checked, Open
    <2>5. QED
      BY <2>1, <2>4, OpenShrinks
  <1>2. ASSUME NEW c \in Codes, SendCode(c) PROVE MissedInv'
    <2>1. /\ UNCHANGED <<account, code, call, missed>>
          /\ \A d \in Codes : fate'[d] \in {"asked", "good"} => fate[d] \in {"asked", "good"}
      BY <1>2 DEF SendCode
    <2>2. QED
      BY <2>1, OpenShrinks DEF Checked, Open
  <1>3. ASSUME NEW c \in Codes, Expire(c) PROVE MissedInv'
    <2>1. /\ UNCHANGED <<account, call, missed>> /\ code[c] # None
          /\ \A d \in Codes : code[d] # None => code'[d].phone = code[d].phone
          /\ \A d \in Codes : code'[d] # None => code[d] # None
          /\ \A d \in Codes : fate'[d] \in {"asked", "good"} => fate[d] \in {"asked", "good"}
      BY <1>3 DEF Expire, TypeOK, Asked
    <2>2. QED
      BY <2>1, OpenShrinks DEF Checked, Open
  <1>4. ASSUME NEW s \in Servers, NEW c \in Codes, NEW x \in Calls, NEW p \in Phones, NEW e,
               TakeCode(s, x, c, p, e)
        PROVE  MissedInv'
    <2>1. /\ UNCHANGED <<account, code, missed>> /\ fate' = [fate EXCEPT ![c] = "used"]
          /\ otpStore[s][Key(p)] = c /\ ~code[c].late
          /\ call' = [call EXCEPT ![x] = [phone |-> p, email |-> e, otp |-> c]]
      BY <1>4 DEF TakeCode, Enter
    <2>2. fate[c] = "good"
      BY <2>1, Spelling DEF StoredInv, GoodInv
    <2>3. \A d \in Codes \ {c} :
            /\ fate'[d] = fate[d]
            /\ \A y \in Calls : call'[y] # None /\ call'[y].otp = d => call[y] # None /\ call[y].otp = d
      BY <2>1 DEF TypeOK
    <2>4. QED
      BY <2>1, <2>2, <2>3, OpenShrinks DEF Checked, Open
  <1>5. QED
    BY <1>1, <1>2, <1>3, <1>4 DEF CodeChange

\* A new row is missed by every code still open for its number.
LEMMA InsertMissed ==
    ASSUME TypeOK, MissedInv, UNCHANGED <<code, fate>>,
           NEW a \in Accounts, NEW p, NEW e, NEW office, Insert(a, p, e, office),
           \A y \in Calls, c \in Codes : Holds(y, c)' => Holds(y, c)
    PROVE  /\ MissedInv'
           /\ \A b \in Accounts : Own(b)' => (b # a /\ Own(b) /\ account'[b] = account[b])
                                           \/ (b = a /\ p # None /\ ~office /\ account'[a].phone = p)
  <1>1. /\ account' = [account EXCEPT ![a] = [phone |-> p, email |-> e, byOffice |-> office]]
        /\ missed' = IF p = None THEN missed
                     ELSE [c \in Codes |->
                             missed[c] \cup (IF c \in Open(Number(p)) THEN {a} ELSE {})]
    BY DEF Insert
  <1>2. \A b \in Accounts : Own(b)' => (b # a /\ Own(b) /\ account'[b] = account[b])
                                      \/ (b = a /\ p # None /\ ~office /\ account'[a].phone = p)
    BY <1>1 DEF Own, Exists, TypeOK
  <1>3. \A n : Open(n)' \subseteq Open(n)
    BY DEF Open, Holds
  <1>4. \A c \in Codes : missed[c] \subseteq missed'[c]
    BY <1>1
  <1>5. \A c \in Codes : p # None /\ c \in Open(Number(p)) => a \in missed'[c]
    BY <1>1
  <1>6. MissedInv'
    <2> SUFFICES ASSUME NEW c \in Codes, NEW b \in Accounts, Own(b)',
                        Checked(c, Number(account[b].phone))'
                 PROVE  b \in missed'[c]
      BY DEF MissedInv
    <2>1. Checked(c, Number(account'[b].phone))
      BY <1>3 DEF Checked
    <2>2. QED
      BY <1>2, <1>4, <1>5, <2>1 DEF MissedInv, Checked
  <1>7. QED
    BY <1>2, <1>6

\* The two invariants about accounts of one number.
LEMMA StepNumber ==
    TypeOK /\ StoredInv /\ GoodInv /\ HeldInv /\ MissedInv /\ NumberInv /\ [Next]_vars
        => MissedInv' /\ NumberInv'
  <1> SUFFICES ASSUME TypeOK, StoredInv, GoodInv, HeldInv, MissedInv, NumberInv, [Next]_vars
               PROVE  MissedInv' /\ NumberInv'
    OBVIOUS
  <1>1. ASSUME UNCHANGED <<account, missedBy>> PROVE NumberInv'
    BY <1>1 DEF NumberInv, Own, Exists
  <1>2. CASE CodeChange
    <2>1. UNCHANGED <<account, missedBy>>
      BY <1>2 DEF CodeChange, SendCode, Expire, AskCode, TakeCode
    <2>2. QED
      BY <1>1, <1>2, <2>1, StepMissedCode
  <1>3. ASSUME NEW a \in Accounts, NEW x \in Calls, Register(x, a) PROVE MissedInv' /\ NumberInv'
    <2>1. /\ call[x] # None /\ call' = [call EXCEPT ![x] = None] /\ UNCHANGED <<code, fate>>
          /\ missedBy' = [missedBy EXCEPT ![a] = missed[call[x].otp]]
          /\ Insert(a, call[x].phone, call[x].email, FALSE)
      BY <1>3 DEF Register, Leave
    <2>2. \A y \in Calls, c \in Codes : Holds(y, c)' => Holds(y, c)
      BY <2>1 DEF Holds, TypeOK
    <2>3. /\ MissedInv'
          /\ \A b \in Accounts : Own(b)' => (b # a /\ Own(b) /\ account'[b] = account[b])
                                          \/ (b = a /\ account'[a].phone = call[x].phone)
      BY <2>1, <2>2, InsertMissed
    <2>4. call[x].otp \in Codes /\ Holds(x, call[x].otp)
      BY <2>1 DEF Holds, TypeOK
    <2>5. ASSUME call[x].phone[2] \in {"intl", "local"}
          PROVE  Checked(call[x].otp, Number(call[x].phone))
      <3>1. call[x].phone \in Phones /\ code[call[x].otp].phone \in Phones
        BY <2>1, <2>4 DEF HeldInv, CodeFor, TypeOK, Asked
      <3>2. Key(code[call[x].otp].phone) = Key(call[x].phone) /\ code[call[x].otp] # None
        BY <2>4 DEF HeldInv, CodeFor
      <3>3. code[call[x].otp].phone[2] # "zeros"
        BY <2>5, <3>1, <3>2, Spelling
      <3>4. Number(code[call[x].otp].phone) = Number(call[x].phone)
        BY <3>1, <3>2, Spelling
      <3>5. QED
        BY <2>1, <2>4, <3>2, <3>3, <3>4 DEF Checked, Open, Holds
    <2>6. \A b \in Accounts :
             /\ b # a /\ Own(b) /\ Number(account[b].phone) = Number(call[x].phone)
             /\ call[x].phone[2] \in {"intl", "local"}
             => b \in missedBy'[a]
      BY <2>1, <2>4, <2>5 DEF MissedInv, TypeOK
    <2>7. Own(a)' => account'[a].phone[2] \in {"intl", "local"}
      BY DEF Own
    <2>8. \A b \in Accounts \ {a} : missedBy'[b] = missedBy[b]
      BY <2>1 DEF TypeOK
    <2>9. NumberInv'
      BY <2>3, <2>6, <2>7, <2>8 DEF NumberInv
    <2>10. QED
      BY <2>3, <2>9
  <1>4. ASSUME NEW a \in Accounts, NEW p, NEW e, NEW office, Insert(a, p, e, office),
               p = None \/ office = TRUE, UNCHANGED <<code, fate, call, missedBy>>
        PROVE  MissedInv' /\ NumberInv'
    <2>1. \A y \in Calls, c \in Codes : Holds(y, c)' => Holds(y, c)
      BY <1>4 DEF Holds
    <2>2. MissedInv' /\ \A b \in Accounts : Own(b)' => Own(b) /\ account'[b] = account[b]
      BY <1>4, <2>1, InsertMissed
    <2>3. QED
      BY <1>4, <2>2 DEF NumberInv
  <1>5. CASE NewRow
    <2>1. ASSUME NEW a \in Accounts, NEW e \in Emails, RegisterByEmail(a, e)
          PROVE  MissedInv' /\ NumberInv'
      BY <1>4, <2>1 DEF RegisterByEmail
    <2>2. ASSUME NEW a \in Accounts, NEW p \in Phones, NEW e \in Emails \cup {Office(p)},
                 OfficeCreates(a, p, e)
          PROVE  MissedInv' /\ NumberInv'
      BY <1>4, <2>2 DEF OfficeCreates
    <2>3. ASSUME NEW a \in Accounts, Seed(a), WithEmail(SeedEmail) = {}
          PROVE  MissedInv' /\ NumberInv'
      <3>1. Insert(a, Phone(SeedNumber, "intl"), SeedEmail, TRUE)
        BY <2>3 DEF Seed
      <3>2. UNCHANGED <<code, fate, call, missedBy>>
        BY <2>3 DEF Seed
      <3>3. QED
        BY <1>4, <3>1, <3>2
    <2>4. QED
      BY <1>3, <1>5, <2>1, <2>2, <2>3 DEF NewRow
  <1>6. CASE RowChange
    <2>1. UNCHANGED <<code, fate, call, missed, missedBy>>
      BY <1>6 DEF RowChange, Remove, Seed, UpdateProfile, OfficeUpdates
    <2>2. \A b \in Accounts : Own(b)' => Own(b) /\ account'[b].phone = account[b].phone
      <3>1. ASSUME NEW a \in Accounts, Exists(a), NEW p,
                   account' = [account EXCEPT ![a].phone = p, ![a].byOffice = TRUE]
            PROVE  \A b \in Accounts : Own(b)' => Own(b) /\ account'[b] = account[b]
        <4>1. account[a] \in Rows
          BY <3>1 DEF Exists, TypeOK
        <4>2. account'[a].byOffice /\ \A b \in Accounts \ {a} : account'[b] = account[b]
          BY <3>1, <4>1 DEF TypeOK, Rows
        <4>3. QED
          BY <4>2 DEF Own, Exists
      <3>2. ASSUME NEW a \in Accounts, Remove(a)
            PROVE  \A b \in Accounts : Own(b)' => Own(b) /\ account'[b] = account[b]
        BY <3>2 DEF Remove, Own, Exists, TypeOK
      <3>3. ASSUME NEW a \in Accounts, NEW e \in Emails, UpdateProfile(a, e)
            PROVE  \A b \in Accounts : Own(b)' => Own(b) /\ account'[b].phone = account[b].phone
        <4>1. Exists(a) /\ account[a] \in Rows /\ account' = [account EXCEPT ![a].email = e]
          BY <3>3 DEF UpdateProfile, Exists, TypeOK
        <4>2. /\ account'[a].phone = account[a].phone /\ account'[a].byOffice = account[a].byOffice
              /\ \A b \in Accounts \ {a} : account'[b] = account[b]
          BY <4>1 DEF TypeOK, Rows
        <4>3. QED
          BY <4>1, <4>2 DEF Own, Exists
      <3>4. ASSUME NEW a \in Accounts, Seed(a), WithEmail(SeedEmail) # {}
            PROVE  \A b \in Accounts : Own(b)' => Own(b) /\ account'[b] = account[b]
        <4>1. /\ a \in WithEmail(SeedEmail)
              /\ account' = [account EXCEPT ![a].phone = Phone(SeedNumber, "intl"),
                                            ![a].byOffice = TRUE]
          BY <3>4 DEF Seed
        <4>2. QED
          BY <3>1, <4>1 DEF WithEmail, Users
      <3>5. ASSUME NEW a \in Accounts, NEW p \in Phones, OfficeUpdates(a, p)
            PROVE  \A b \in Accounts : Own(b)' => Own(b) /\ account'[b] = account[b]
        BY <3>1, <3>5 DEF OfficeUpdates
      <3>6. QED
        BY <1>6, <3>2, <3>3, <3>4, <3>5 DEF RowChange
    <2>3. MissedInv'
      BY <2>1, <2>2 DEF MissedInv, Checked, Open
    <2>4. QED
      BY <2>1, <2>2, <2>3 DEF NumberInv
  <1>7. ASSUME NEW s \in Servers, Restart(s) PROVE MissedInv' /\ NumberInv'
    <2>1. /\ UNCHANGED <<account, code, missed, missedBy>>
          /\ \A x \in Calls : call'[x] # None => call'[x] = call[x]
          /\ \A c \in Codes : fate'[c] \in {"asked", "good"} => fate[c] \in {"asked", "good"}
      BY <1>7 DEF Restart
    <2>2. QED
      BY <1>1, <2>1, OpenShrinks DEF Checked, Open
  <1>8. ASSUME NEW x \in Calls, Fails(x) PROVE MissedInv' /\ NumberInv'
    <2>1. /\ UNCHANGED <<account, code, fate, missed, missedBy>>
          /\ \A y \in Calls : call'[y] # None => call'[y] = call[y]
      BY <1>8 DEF Fails, Leave, TypeOK
    <2>2. QED
      BY <1>1, <2>1, OpenShrinks DEF Checked, Open
  <1>9. CASE UNCHANGED <<account, code, fate, call, missed, missedBy>>
    BY <1>1, <1>9 DEF MissedInv, Own, Exists, Checked, Open
  <1>10. QED
    BY Steps, <1>2, <1>5, <1>6, <1>7, <1>8, <1>9 DEF vars

\* The empty system satisfies the invariant.
LEMMA InitIInv == Init => IInv
  <1> SUFFICES ASSUME Init PROVE IInv
    OBVIOUS
  <1>1. TypeOK
    BY DEF Init, TypeOK
  <1>2. StoredInv /\ GoodInv /\ HeldInv /\ OpenedInv
    BY NoneAssumption DEF Init, StoredInv, GoodInv, HeldInv, OpenedInv, Holds
  <1>3. MissedInv /\ NumberInv
    BY DEF Init, MissedInv, NumberInv, Own, Exists
  <1>4. QED
    BY <1>1, <1>2, <1>3 DEF Init, IInv

\* Every step keeps it.
LEMMA Inductive == IInv /\ [Next]_vars => IInv'
  BY StepTypeOK, StepStored, StepHeld, StepNumber DEF IInv

\* The inductive invariant holds in every reachable state.
THEOREM Invariance == Spec => []IInv
  BY InitIInv, Inductive, PTL DEF Spec

\* Every variable keeps its type, whatever the interleaving and the restarts.
THEOREM TypeCorrect == Spec => []TypeOK
  <1>1. IInv => TypeOK
    BY DEF IInv
  <1>2. QED
    BY Invariance, <1>1, PTL

\* For any number of registrations at once: two accounts of one number need codes
\* that crossed, the office, or a spelling getPhoneVariations does not look for.
THEOREM OneAccount == Spec => []OneAccountPerNumber
  <1>1. IInv => OneAccountPerNumber
    BY DEF IInv, NumberInv, OneAccountPerNumber, Own, Users
  <1>2. QED
    BY Invariance, <1>1, PTL

\* A one-time password of sendRegisterOtp opens at most one account.
THEOREM CodeOpensOne == Spec => []OneAccountPerCode
  <1>1. IInv => OneAccountPerCode
    BY DEF IInv, TypeOK, OpenedInv, OneAccountPerCode
  <1>2. QED
    BY Invariance, <1>1, PTL

\* register takes a good code in all the usual spellings, at the process that sent it:
\* nothing but time, a later code, its use and a restart ends it.
THEOREM GoodCodes == Spec => []GoodCodesAccepted
  <1>1. ASSUME IInv PROVE GoodCodesAccepted
    <2> SUFFICES ASSUME NEW c \in Codes, NEW p \in Phones, fate[c] = "good",
                        Alike(p, code[c].phone)
                 PROVE  otpStore[code[c].server][Key(p)] = c /\ ~code[c].late
      BY DEF GoodCodesAccepted
    <2>1. /\ otpStore[code[c].server][Key(code[c].phone)] = c /\ ~code[c].late
          /\ code[c] # None
      BY <1>1 DEF IInv, GoodInv
    <2>2. code[c].phone \in Phones
      BY <1>1, <2>1 DEF IInv, TypeOK, Asked
    <2>3. Key(p) = Key(code[c].phone)
      BY <2>2, Spelling
    <2>4. QED
      BY <2>1, <2>3
  <1>2. QED
    BY Invariance, <1>1, PTL

=============================================================================
