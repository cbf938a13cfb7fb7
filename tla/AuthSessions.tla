---------------------------- MODULE AuthSessions ----------------------------
(***************************************************************************)
(* The sessions of one user account (src/src/auth/auth.service.ts): login  *)
(* with a lock-out after repeated failures, rotation of refresh tokens,    *)
(* logout and change of password, with the status changes and the removal  *)
(* of the user in users.service.ts and the other way to a new password,    *)
(* updateProfile in counter-agent.service.ts.                              *)
(*                                                                         *)
(* Every handler awaits the database, argon2 or the signing of a token     *)
(* between its steps, and no two statements share a transaction.  A        *)
(* refresh token is a signed JWT whose content is the user and the second  *)
(* of signing, so it is named after that second: two tokens signed within  *)
(* one second are the same string, and tokenHash is unique.                *)
(***************************************************************************)
EXTENDS Integers, FiniteSets

CONSTANTS
    Calls,         \* handler calls
    MaxFailed,     \* MAX_FAILED_ATTEMPTS
    LastSecond,    \* bound of the model: the clock
    LastPassword   \* bound of the model: changes of the password

ASSUME BoundAssumption ==
    MaxFailed \in Nat \ {0} /\ LastSecond \in Nat /\ LastPassword \in Nat

Tokens == 0..LastSecond

VARIABLES
    exists,      \* the user has not been removed
    active,      \* users.status is ACTIVE
    password,    \* the current password; a change gives the next number
    failed,      \* failedLoginAttempts
    locked,      \* lockedUntil lies in the future
    row,         \* row[t]: the refresh_tokens row of token t
    now,         \* the clock, in seconds
    pc,          \* pc[c]: where call c stands
    matches,     \* matches[c]: the password given is the one of the row read
    wasFailed,   \* wasFailed[c]: failedLoginAttempts of the row read
    token,       \* token[c]: the token c was called with or has signed
    proved,      \* history: proved[c]: the password behind the session of c
    proof,       \* history: proof[t]: the password behind token t
    storedBy,    \* history: storedBy[t]: the calls that stored token t
    usedBy,      \* history: usedBy[t]: the rotations that revoked token t
    crowded,     \* history: tokens that two rotations held at a time
    revokedFor,  \* history: the password when changePassword last revoked all tokens
    inFlight,    \* history: logins and rotations under way at such a revocation,
                 \* and the rotations of the tokens they stored
    changed,     \* history: changed[c]: the password that call c has set, or 0
    wrong,       \* history: failures since the last success
    wasLocked,   \* history: the account was locked since the last success
    miscounted   \* history: since then a failure was counted from an old value

user == <<exists, active, password, failed, locked>>
count == <<wrong, wasLocked, miscounted>>
origin == <<proof, storedBy>>
reuse == <<usedBy, crowded>>
change == <<revokedFor, inFlight, changed>>
vars == <<user, count, row, now, pc, matches, wasFailed, token, proved, origin,
          reuse, change>>

TypeOK ==
    /\ exists \in BOOLEAN /\ active \in BOOLEAN /\ locked \in BOOLEAN
    /\ password \in 0..LastPassword /\ revokedFor \in 0..LastPassword
    /\ failed \in Nat /\ wrong \in Nat
    /\ row \in [Tokens -> {"none", "live", "expired", "revoked"}]
    /\ now \in Tokens
    /\ pc \in [Calls -> {"idle", "verify", "rotate", "sign", "store", "write",
                         "revoke", "save", "saved", "done", "clash", "failed"}]
    /\ matches \in [Calls -> BOOLEAN]
    /\ wasFailed \in [Calls -> Nat]
    /\ token \in [Calls -> Tokens]
    /\ proved \in [Calls -> 0..LastPassword]
    /\ changed \in [Calls -> 0..LastPassword]
    /\ proof \in [Tokens -> 0..LastPassword]
    /\ storedBy \in [Tokens -> SUBSET Calls]
    /\ usedBy \in [Tokens -> SUBSET Calls]
    /\ crowded \subseteq Tokens
    /\ inFlight \subseteq Calls
    /\ wasLocked \in BOOLEAN /\ miscounted \in BOOLEAN

Init ==
    /\ exists = TRUE /\ active = TRUE /\ locked = FALSE
    /\ password = 0 /\ revokedFor = 0
    /\ failed = 0 /\ wrong = 0
    /\ row = [t \in Tokens |-> "none"]
    /\ now = 0
    /\ pc = [c \in Calls |-> "idle"]
    /\ matches = [c \in Calls |-> FALSE]
    /\ wasFailed = [c \in Calls |-> 0]
    /\ token = [c \in Calls |-> 0]
    /\ proved = [c \in Calls |-> 0]
    /\ changed = [c \in Calls |-> 0]
    /\ proof = [t \in Tokens |-> 0]
    /\ storedBy = [t \in Tokens |-> {}]
    /\ usedBy = [t \in Tokens |-> {}]
    /\ crowded = {}
    /\ inFlight = {}
    /\ wasLocked = FALSE /\ miscounted = FALSE

Goto(c, label) == pc' = [pc EXCEPT ![c] = label]

Bearing(c) == pc[c] \in {"verify", "rotate", "sign", "store"}

-----------------------------------------------------------------------------
(* login *)

\* A locked or inactive account is refused before the password is looked at.
LoginRead(c) ==
    /\ pc[c] = "idle" /\ exists /\ active /\ ~locked
    /\ \E m \in BOOLEAN : matches' = [matches EXCEPT ![c] = m]
    /\ wasFailed' = [wasFailed EXCEPT ![c] = failed]
    /\ proved' = [proved EXCEPT ![c] = password]
    /\ Goto(c, "verify")
    /\ UNCHANGED <<user, count, row, now, token, origin, reuse, change>>

\* Faulty: one failure too many before the lock.
LoginFailsLate(c) ==
    /\ pc[c] = "verify" /\ ~matches[c] /\ exists
    /\ failed' = wasFailed[c] + 1
    /\ locked' = (locked \/ wasFailed[c] + 1 > MaxFailed)
    /\ wrong' = wrong + 1
    /\ wasLocked' = (wasLocked \/ locked')
    /\ miscounted' = (miscounted \/ failed # wasFailed[c])
    /\ Goto(c, "done")
    /\ UNCHANGED <<exists, active, password, row, now, matches, wasFailed, token,
                   proved, origin, reuse, change>>

\* The count is written as a value computed from the row that was read.
LoginFails(c) ==
    /\ pc[c] = "verify" /\ ~matches[c] /\ exists
    /\ failed' = wasFailed[c] + 1
    /\ locked' = (locked \/ wasFailed[c] + 1 >= MaxFailed)
    /\ wrong' = wrong + 1
    /\ wasLocked' = (wasLocked \/ locked')
    /\ miscounted' = (miscounted \/ failed # wasFailed[c])
    /\ Goto(c, "done")
    /\ UNCHANGED <<exists, active, password, row, now, matches, wasFailed, token,
                   proved, origin, reuse, change>>

LoginResets(c) ==
    /\ pc[c] = "verify" /\ matches[c] /\ exists
    /\ failed' = 0 /\ locked' = FALSE
    /\ wrong' = 0 /\ wasLocked' = FALSE /\ miscounted' = FALSE
    /\ Goto(c, "sign")
    /\ UNCHANGED <<exists, active, password, row, now, matches, wasFailed, token,
                   proved, origin, reuse, change>>

-----------------------------------------------------------------------------
(* generateTokens and storeRefreshToken, called by login and by refreshTokens *)

\* Faulty: the clock is one second ahead.
SignAhead(c) ==
    /\ pc[c] = "sign"
    /\ token' = [token EXCEPT ![c] = now + 1]
    /\ Goto(c, "store")
    /\ UNCHANGED <<user, count, row, now, matches, wasFailed, proved, origin, reuse,
                   change>>

Sign(c) ==
    /\ pc[c] = "sign"
    /\ token' = [token EXCEPT ![c] = now]
    /\ Goto(c, "store")
    /\ UNCHANGED <<user, count, row, now, matches, wasFailed, proved, origin, reuse,
                   change>>

Store(c) ==
    /\ pc[c] = "store" /\ exists /\ row[token[c]] = "none"
    /\ row' = [row EXCEPT ![token[c]] = "live"]
    /\ proof' = [proof EXCEPT ![token[c]] = proved[c]]
    /\ storedBy' = [storedBy EXCEPT ![token[c]] = @ \cup {c}]
    /\ Goto(c, "done")
    /\ UNCHANGED <<user, count, now, matches, wasFailed, token, proved, reuse, change>>

\* tokenHash is unique: a second token of the same second cannot be stored.
StoreClashes(c) ==
    /\ pc[c] = "store" /\ row[token[c]] # "none"
    /\ Goto(c, "clash")
    /\ UNCHANGED <<user, count, row, now, matches, wasFailed, token, proved, origin,
                   reuse, change>>

-----------------------------------------------------------------------------
(* refreshTokens *)

\* Faulty: a revoked token is accepted.
RefreshUnchecked(c) ==
    /\ pc[c] = "idle" /\ active
    /\ \E t \in Tokens :
          /\ row[t] \in {"live", "revoked"}
          /\ token' = [token EXCEPT ![c] = t]
          /\ proved' = [proved EXCEPT ![c] = proof[t]]
          /\ inFlight' = IF storedBy[t] \cap inFlight = {} THEN inFlight
                         ELSE inFlight \cup {c}
          /\ crowded' = crowded \cup
                {x \in {t} : \E d \in Calls : pc[d] = "rotate" /\ token[d] = x}
    /\ Goto(c, "rotate")
    /\ UNCHANGED <<user, count, row, now, matches, wasFailed, origin, usedBy,
                   revokedFor, changed>>

RefreshRead(c) ==
    /\ pc[c] = "idle" /\ active
    /\ \E t \in Tokens :
          /\ row[t] = "live"
          /\ token' = [token EXCEPT ![c] = t]
          /\ proved' = [proved EXCEPT ![c] = proof[t]]
          /\ inFlight' = IF storedBy[t] \cap inFlight = {} THEN inFlight
                         ELSE inFlight \cup {c}
          /\ crowded' = crowded \cup
                {x \in {t} : \E d \in Calls : pc[d] = "rotate" /\ token[d] = x}
    /\ Goto(c, "rotate")
    /\ UNCHANGED <<user, count, row, now, matches, wasFailed, origin, usedBy,
                   revokedFor, changed>>

\* The row is revoked by its id, whether or not it still is live.
Rotate(c) ==
    /\ pc[c] = "rotate" /\ row[token[c]] # "none"
    /\ row' = [row EXCEPT ![token[c]] = "revoked"]
    /\ usedBy' = [usedBy EXCEPT ![token[c]] = @ \cup {c}]
    /\ Goto(c, "sign")
    /\ UNCHANGED <<user, count, now, matches, wasFailed, token, proved, origin, crowded,
                   change>>

-----------------------------------------------------------------------------
(* logout, changePassword and updateProfile, called with a valid access token *)

LogoutOne(t) ==
    /\ row[t] # "none"
    /\ row' = [row EXCEPT ![t] = "revoked"]
    /\ UNCHANGED <<user, count, now, pc, matches, wasFailed, token, proved, origin,
                   reuse, change>>

\* Faulty: the filter selects the revoked tokens.
RevokeRevoked == row' = [t \in Tokens |-> row[t]]

RevokeAll == row' = [t \in Tokens |-> IF row[t] = "none" THEN "none" ELSE "revoked"]

LogoutAll ==
    /\ RevokeAll
    /\ UNCHANGED <<user, count, now, pc, matches, wasFailed, token, proved, origin,
                   reuse, change>>

\* The current password is verified against the row read.
ChangeRead(c) ==
    /\ pc[c] = "idle" /\ exists
    /\ Goto(c, "write")
    /\ UNCHANGED <<user, count, row, now, matches, wasFailed, token, proved, origin,
                   reuse, change>>

SetPassword(c) ==
    /\ exists /\ password < LastPassword
    /\ password' = password + 1
    /\ changed' = [changed EXCEPT ![c] = password + 1]
    /\ UNCHANGED <<exists, active, failed, locked, count, row, now, matches, wasFailed,
                   token, proved, origin, reuse, revokedFor, inFlight>>

ChangeWrite(c) ==
    /\ pc[c] = "write"
    /\ SetPassword(c)
    /\ Goto(c, "revoke")

ChangeRevoke(c) ==
    /\ pc[c] = "revoke"
    /\ RevokeAll
    /\ revokedFor' = password
    /\ inFlight' = inFlight \cup {d \in Calls : Bearing(d)}
    /\ Goto(c, "done")
    /\ UNCHANGED <<user, count, now, matches, wasFailed, token, proved, origin, reuse,
                   changed>>

\* updateProfile of an agent: the current password is optional, and no token is
\* revoked.
ProfileRead(c) ==
    /\ pc[c] = "idle" /\ exists
    /\ Goto(c, "save")
    /\ UNCHANGED <<user, count, row, now, matches, wasFailed, token, proved, origin,
                   reuse, change>>

ProfileWrite(c) ==
    /\ pc[c] = "save"
    /\ SetPassword(c)
    /\ Goto(c, "saved")

-----------------------------------------------------------------------------
(* Time, administration and failures *)

Tick ==
    /\ now < LastSecond
    /\ now' = now + 1
    /\ UNCHANGED <<user, count, row, pc, matches, wasFailed, token, proved, origin,
                   reuse, change>>

LockEnds ==
    /\ locked
    /\ locked' = FALSE
    /\ UNCHANGED <<exists, active, password, failed, count, row, now, pc, matches,
                   wasFailed, token, proved, origin, reuse, change>>

TokenExpires(t) ==
    /\ row[t] = "live"
    /\ row' = [row EXCEPT ![t] = "expired"]
    /\ UNCHANGED <<user, count, now, pc, matches, wasFailed, token, proved, origin,
                   reuse, change>>

StatusChanges ==
    /\ exists
    /\ active' = ~active
    /\ UNCHANGED <<exists, password, failed, locked, count, row, now, pc, matches,
                   wasFailed, token, proved, origin, reuse, change>>

RemoveUser ==
    /\ exists
    /\ exists' = FALSE
    /\ row' = [t \in Tokens |-> "none"]
    /\ UNCHANGED <<active, password, failed, locked, count, now, pc, matches, wasFailed,
                   token, proved, origin, reuse, change>>

\* A row that is gone makes the statement throw; or the process dies.
Fails(c) ==
    /\ pc[c] \in {"verify", "rotate", "sign", "store", "write", "revoke", "save"}
    /\ Goto(c, "failed")
    /\ UNCHANGED <<user, count, row, now, matches, wasFailed, token, proved, origin,
                   reuse, change>>

Step(c) ==
    \/ LoginRead(c) \/ LoginFails(c) \/ LoginResets(c)
    \/ Sign(c) \/ Store(c) \/ StoreClashes(c)
    \/ RefreshRead(c) \/ Rotate(c)
    \/ ChangeRead(c) \/ ChangeWrite(c) \/ ChangeRevoke(c)
    \/ ProfileRead(c) \/ ProfileWrite(c)
    \/ Fails(c)

Next ==
    \/ \E c \in Calls : Step(c)
    \/ \E t \in Tokens : LogoutOne(t) \/ TokenExpires(t)
    \/ LogoutAll \/ Tick \/ LockEnds \/ StatusChanges \/ RemoveUser

Spec == Init /\ [][Next]_vars

-----------------------------------------------------------------------------
(* Properties *)

\* After MAX_FAILED_ATTEMPTS failures without a success the account has been
\* locked, unless parallel logins counted from the same value.
LockOutAfterMax == wrong >= MaxFailed => wasLocked \/ miscounted

\* A refresh token yields a second session only if two rotations held it at a time.
TokenUsedOnce ==
    \A t \in Tokens \ crowded : \A c, d \in usedBy[t] : c = d

\* "Invalidate all refresh tokens": a session may be older than a password only if
\* it was under way when changePassword revoked the tokens, or grew out of one that
\* was; or if that password was set without the revocation, by updateProfile or by
\* a changePassword that has not come to it or was cut off before it.
OldSessionsAccountedFor ==
    \A t \in Tokens : row[t] = "live" /\ storedBy[t] \cap inFlight = {} =>
        \A p \in proof[t] + 1 .. password :
            \E c \in Calls : changed[c] = p /\ pc[c] \in {"saved", "revoke", "failed"}

\* Not kept by the code: "Rotate: revoke old, issue new"; two tokens of one second
\* are equal, and the rotation that has revoked the first cannot store the second.
RotationIssues == \A t \in Tokens : \A c \in usedBy[t] : pc[c] # "clash"

=============================================================================
