------------------------------ MODULE Accounts ------------------------------
(***************************************************************************)
(* How user accounts come about and change: registration with a one-time   *)
(* password (src/src/auth/auth.service.ts), the office's user list         *)
(* (src/src/users/users.service.ts), an agent's updateProfile              *)
(* (src/src/counter-agent/counter-agent.service.ts) and the users of the   *)
(* seed script (src/prisma/seed.ts).                                       *)
(*                                                                         *)
(* One mobile number is written in several ways.  The column phone, which  *)
(* is unique, keeps the way it was typed; the map of one-time passwords,   *)
(* which every server process has to itself and a restart empties, has one *)
(* key for most of them.                                                   *)
(***************************************************************************)
EXTENDS Naturals

CONSTANTS
    Numbers,     \* mobile numbers
    Forms,       \* ways to write one: +8801... or 8801... (intl), 01... (local), 01... with a
                 \* space in it (spaced), 881... (short), 008801... (zeros)
    Emails,      \* addresses people type
    SeedEmail,   \* the address of the seeded user
    SeedNumber,  \* and its number
    Codes,       \* one-time passwords, each sent once
    Calls,       \* registrations under way
    Accounts,    \* rows of users
    Servers,     \* processes of the backend
    None, Gone

ASSUME SeedAssumption == SeedEmail \in Emails /\ SeedNumber \in Numbers
ASSUME FormsAssumption ==
    /\ {"intl", "local"} \subseteq Forms
    /\ Forms \subseteq {"intl", "local", "spaced", "short", "zeros"}

Phones == Numbers \X Forms

Phone(n, f) == <<n, f>>
Number(p) == p[1]

\* Faulty: only the way it was typed.
NoVariations(p) == {p}

\* getPhoneVariations: as typed, and the usual ways to write it, if ten digits are
\* left without 880, 88 or 0.
Variations(p) ==
    {p} \cup {q \in {Phone(p[1], "intl"), Phone(p[1], "local")} : p[2] # "zeros"}

\* Faulty: passwords are kept under the number as typed.
RawKey(p) == p

\* formatPhoneNumber: 8801..., from 8801... and 01...; 881... is left as it is, and
\* 008801... gets another 88.
Key(p) == IF p[2] \in {"short", "zeros"} THEN p ELSE Phone(p[1], "intl")

\* One number, written twice in the same way or in two of the ways people do.
Alike(p, q) ==
    p = q \/ (Number(p) = Number(q) /\ {p[2], q[2]} \subseteq {"intl", "local", "spaced"})

Asked == [phone : Phones, late : BOOLEAN, server : Servers]

ASSUME NoneAssumption == None \notin Codes \cup Asked

\* The addresses made up for an account without one, by register and by the office.
Internal(p) == <<"internal", p>>
Office(p) == <<"office", IF p[2] = "spaced" THEN Phone(p[1], "local") ELSE p>>
Addresses == Emails \cup {Internal(p) : p \in Phones} \cup {Office(p) : p \in Phones}

VARIABLES
    account,   \* account[a]: None before it exists, Gone afterwards
    otpStore,  \* otpStore[s][k]: the code process s keeps under key k
    code,      \* code[c]: the number it was asked for, whether its time has passed, and
               \* the process that sent it
    call,      \* call[x]: a registration whose code was accepted
    fate,      \* history: fate[c]: what became of c
    missed,    \* history: missed[c]: accounts of its number opened since it was asked for
    missedBy,  \* history: missedBy[a]: those when a was opened
    opened     \* history: opened[a]: the code that opened a

vars == <<account, otpStore, code, call, fate, missed, missedBy, opened>>

Rows == [phone : Phones \cup {None}, email : Addresses, byOffice : BOOLEAN]

TypeOK ==
    /\ account \in [Accounts -> Rows \cup {None, Gone}]
    /\ otpStore \in [Servers -> [Phones -> Codes \cup {None}]]
    /\ code \in [Codes -> Asked \cup {None}]
    /\ call \in [Calls -> [phone : Phones, email : Addresses, otp : Codes] \cup {None}]
    /\ fate \in [Codes -> {"unsent", "asked", "good", "late", "replaced", "lost", "used"}]
    /\ missed \in [Codes -> SUBSET Accounts]
    /\ missedBy \in [Accounts -> SUBSET Accounts]
    /\ opened \in [Accounts -> Codes \cup {None}]

Init ==
    /\ account = [a \in Accounts |-> None]
    /\ otpStore = [s \in Servers |-> [p \in Phones |-> None]]
    /\ code = [c \in Codes |-> None]
    /\ call = [x \in Calls |-> None]
    /\ fate = [c \in Codes |-> "unsent"]
    /\ missed = [c \in Codes |-> {}]
    /\ missedBy = [a \in Accounts |-> {}]
    /\ opened = [a \in Accounts |-> None]

Exists(a) == account[a] \notin {None, Gone}
Users == {a \in Accounts : Exists(a)}
WithPhone(P) == {a \in Users : account[a].phone \in P}
WithEmail(e) == {a \in Users : account[a].email = e}

Leave(x) == call' = [call EXCEPT ![x] = None]

-----------------------------------------------------------------------------
(* sendRegisterOtp *)

\* No account has the number, in the usual spellings, or the address made of it.
AskCode(s, c, p) ==
    /\ code[c] = None
    /\ WithPhone(Variations(p)) \cup WithEmail(Internal(p)) = {}
    /\ code' = [code EXCEPT ![c] = [phone |-> p, late |-> FALSE, server |-> s]]
    /\ fate' = [fate EXCEPT ![c] = "asked"]
    /\ UNCHANGED <<account, otpStore, call, missed, missedBy, opened>>

Supersedes(c, d) ==
    /\ fate[d] = "good" /\ code[d].server = code[c].server
    /\ Alike(code[d].phone, code[c].phone)

\* The new code takes the place of an older one of the same process.  A failed SMS is not noticed:
\* the customer then has no code to type, and asks again.
SendCode(c) ==
    /\ fate[c] = "asked"
    /\ otpStore' = [otpStore EXCEPT ![code[c].server][Key(code[c].phone)] = c]
    /\ fate' = [d \in Codes |-> IF d = c THEN "good"
                               ELSE IF Supersedes(c, d) THEN "replaced" ELSE fate[d]]
    /\ UNCHANGED <<account, code, call, missed, missedBy, opened>>

Expire(c) ==
    /\ code[c] # None /\ fate[c] = "good" /\ ~code[c].late
    /\ code' = [code EXCEPT ![c].late = TRUE]
    /\ fate' = [fate EXCEPT ![c] = "late"]
    /\ UNCHANGED <<account, otpStore, call, missed, missedBy, opened>>

-----------------------------------------------------------------------------
(* register *)

Enter(x, c, p, e) ==
    /\ call[x] = None
    /\ call' = [call EXCEPT ![x] = [phone |-> p, email |-> e, otp |-> c]]

\* Faulty: the code is cleared only once the account exists.
TakeCodeLater(s, x, c, p, e) ==
    /\ otpStore[s][Key(p)] = c /\ ~code[c].late
    /\ Enter(x, c, p, e)
    /\ fate' = [fate EXCEPT ![c] = "used"]
    /\ UNCHANGED <<account, otpStore, code, missed, missedBy, opened>>

\* The code that this process sent for p, still in time, is cleared in the same turn
\* of the event loop.  Any other code is refused, and nothing changes.
TakeCode(s, x, c, p, e) ==
    /\ otpStore[s][Key(p)] = c /\ ~code[c].late
    /\ otpStore' = [otpStore EXCEPT ![s][Key(p)] = None]
    /\ Enter(x, c, p, e)
    /\ fate' = [fate EXCEPT ![c] = "used"]
    /\ UNCHANGED <<account, code, missed, missedBy, opened>>

-----------------------------------------------------------------------------
(* Rows of users *)

Unique(p, e, A) == WithEmail(e) \subseteq A /\ (p # None => WithPhone({p}) \subseteq A)

\* The codes for number n that may still open an account.
Open(n) == {c \in Codes : /\ code[c] # None /\ Number(code[c].phone) = n
                          /\ \/ fate[c] \in {"asked", "good"}
                             \/ \E x \in Calls : call[x] # None /\ call[x].otp = c}

\* One new row; the unique columns refuse any other, as do the lookups of the same
\* values that each caller makes a little earlier.
Insert(a, p, e, office) ==
    /\ account[a] = None /\ Unique(p, e, {})
    /\ account' = [account EXCEPT ![a] = [phone |-> p, email |-> e, byOffice |-> office]]
    /\ missed' = IF p = None THEN missed
                 ELSE [c \in Codes |->
                         missed[c] \cup (IF c \in Open(Number(p)) THEN {a} ELSE {})]

\* When the first create fails for another reason, register tries once more
\* without the referral columns.
Register(x, a) ==
    /\ call[x] # None
    /\ Insert(a, call[x].phone, call[x].email, FALSE)
    /\ missedBy' = [missedBy EXCEPT ![a] = missed[call[x].otp]]
    /\ opened' = [opened EXCEPT ![a] = call[x].otp]
    /\ Leave(x)
    /\ UNCHANGED <<otpStore, code, fate>>

\* Refused as a duplicate, or failed; the code is spent.
Fails(x) ==
    /\ call[x] # None
    /\ Leave(x)
    /\ UNCHANGED <<account, otpStore, code, fate, missed, missedBy, opened>>

\* Without a number no code is needed.
RegisterByEmail(a, e) ==
    /\ Insert(a, None, e, FALSE)
    /\ UNCHANGED <<otpStore, code, call, fate, missedBy, opened>>

\* users.create, for staff and agents.
OfficeCreates(a, p, e) ==
    /\ Insert(a, p, e, TRUE)
    /\ UNCHANGED <<otpStore, code, call, fate, missedBy, opened>>

\* users.update may change the number, to any that is free as typed.
OfficeUpdates(a, p) ==
    /\ Exists(a) /\ Unique(p, account[a].email, {a})
    /\ account' = [account EXCEPT ![a].phone = p, ![a].byOffice = TRUE]
    /\ UNCHANGED <<otpStore, code, call, fate, missed, missedBy, opened>>

\* users.remove: refused for a user with bookings.
Remove(a) ==
    /\ Exists(a)
    /\ account' = [account EXCEPT ![a] = Gone]
    /\ UNCHANGED <<otpStore, code, call, fate, missed, missedBy, opened>>

\* updateProfile: another address, when no one else has it.
UpdateProfile(a, e) ==
    /\ Exists(a) /\ Unique(None, e, {a})
    /\ account' = [account EXCEPT ![a].email = e]
    /\ UNCHANGED <<otpStore, code, call, fate, missed, missedBy, opened>>

\* The upsert of a seeded user by its address: it is created, or gets its number back.
Seed(a) ==
    LET p == Phone(SeedNumber, "intl")
        seeded == WithEmail(SeedEmail) IN
    /\ \/ seeded = {} /\ Insert(a, p, SeedEmail, TRUE)
       \/ /\ a \in seeded /\ Unique(p, SeedEmail, {a})
          /\ account' = [account EXCEPT ![a].phone = p, ![a].byOffice = TRUE]
          /\ UNCHANGED missed
    /\ UNCHANGED <<otpStore, code, call, fate, missedBy, opened>>

\* The codes are kept in the memory of the process, and its registrations end.
Restart(s) ==
    /\ otpStore' = [otpStore EXCEPT ![s] = [p \in Phones |-> None]]
    /\ call' = [x \in Calls |->
                  IF call[x] # None /\ code[call[x].otp].server = s THEN None ELSE call[x]]
    /\ fate' = [c \in Codes |->
                  IF fate[c] \in {"asked", "good"} /\ code[c].server = s
                  THEN "lost" ELSE fate[c]]
    /\ UNCHANGED <<account, code, missed, missedBy, opened>>

CodeStep(c) ==
    \/ SendCode(c) \/ Expire(c)
    \/ \E s \in Servers, p \in Phones :
          \/ AskCode(s, c, p)
          \/ \E x \in Calls, e \in Emails \cup {Internal(p)} : TakeCode(s, x, c, p, e)

CallStep(x) ==
    \/ Fails(x)
    \/ \E a \in Accounts : Register(x, a)

AccountStep(a) ==
    \/ Remove(a) \/ Seed(a)
    \/ \E e \in Emails : RegisterByEmail(a, e) \/ UpdateProfile(a, e)
    \/ \E p \in Phones : OfficeUpdates(a, p)
    \/ \E p \in Phones : \E e \in Emails \cup {Office(p)} : OfficeCreates(a, p, e)

Next ==
    \/ \E c \in Codes : CodeStep(c)
    \/ \E x \in Calls : CallStep(x)
    \/ \E a \in Accounts : AccountStep(a)
    \/ \E s \in Servers : Restart(s)

Spec == Init /\ [][Next]_vars

-----------------------------------------------------------------------------
\* Two people registered the same number only if the code of one was asked for
\* before the account of the other existed, or if one wrote the number in a way
\* getPhoneVariations does not look for, or if the office or the seed set the number.
OneAccountPerNumber ==
    \A a, b \in Users :
        (/\ a # b /\ account[a].phone # None /\ account[b].phone # None
         /\ Number(account[a].phone) = Number(account[b].phone)
         /\ \A u \in {a, b} : ~account[u].byOffice /\ account[u].phone[2] \in {"intl", "local"})
            => a \in missedBy[b] \/ b \in missedBy[a]

\* A code opens one account, however often and wherever it is typed at once.
OneAccountPerCode ==
    \A a, b \in Accounts : (a # b /\ opened[a] # None) => opened[a] # opened[b]

\* The process that sent a code takes it in any of the ways people write the number,
\* unless its time has passed, a later one was sent, it was used, or the process
\* restarted.  (Another process does not know it, and a number written as 881... or
\* 008801... has a key of its own.)
GoodCodesAccepted ==
    \A c \in Codes, p \in Phones :
        fate[c] = "good" /\ Alike(p, code[c].phone)
            => otpStore[code[c].server][Key(p)] = c /\ ~code[c].late

=============================================================================
