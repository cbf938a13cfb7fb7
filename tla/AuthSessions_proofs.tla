------------------------- MODULE AuthSessions_proofs -------------------------
(***************************************************************************)
(* Proofs about AuthSessions, for any calls, attempts and bounds.          *)
(***************************************************************************)
EXTENDS AuthSessions, TLAPS

LEMMA StepTypeOK == TypeOK /\ [Next]_vars => TypeOK'
<1> SUFFICES ASSUME TypeOK, [Next]_vars PROVE TypeOK'
  OBVIOUS
<1> USE BoundAssumption
    DEF TypeOK, Tokens, Goto, Bearing, RevokeAll, user, count, origin, reuse, change
<1>1. ASSUME NEW c \in Calls, LoginRead(c) PROVE TypeOK'
  BY <1>1 DEF LoginRead
<1>2. ASSUME NEW c \in Calls, LoginFails(c) PROVE TypeOK'
  <2>1. wasFailed[c] + 1 \in Nat /\ failed' = wasFailed[c] + 1 /\ wrong' = wrong + 1
    BY <1>2 DEF LoginFails
  <2>2. locked' \in BOOLEAN /\ wasLocked' \in BOOLEAN /\ miscounted' \in BOOLEAN
    BY <1>2 DEF LoginFails
  <2>3. pc' \in [Calls -> {"idle", "verify", "rotate", "sign", "store", "write",
                           "revoke", "save", "saved", "done", "clash", "failed"}]
    BY <1>2 DEF LoginFails
  <2>4. UNCHANGED <<exists, active, password, row, now, matches, wasFailed, token,
                    proved, origin, reuse, change>>
    BY <1>2 DEF LoginFails
  <2>5. QED
    BY <2>1, <2>2, <2>3, <2>4
<1>3. ASSUME NEW c \in Calls, LoginResets(c) PROVE TypeOK'
  BY <1>3 DEF LoginResets
<1>4. ASSUME NEW c \in Calls, Sign(c) PROVE TypeOK'
  BY <1>4 DEF Sign
<1>5. ASSUME NEW c \in Calls, Store(c) PROVE TypeOK'
  BY <1>5 DEF Store
<1>6. ASSUME NEW c \in Calls, StoreClashes(c) PROVE TypeOK'
  BY <1>6 DEF StoreClashes
<1>7. ASSUME NEW c \in Calls, RefreshRead(c) PROVE TypeOK'
  <2>1. PICK t \in Tokens :
           /\ token' = [token EXCEPT ![c] = t]
           /\ proved' = [proved EXCEPT ![c] = proof[t]]
    BY <1>7 DEF RefreshRead
  <2>2. token' \in [Calls -> Tokens] /\ proved' \in [Calls -> 0..LastPassword]
    BY <2>1
  <2>3. inFlight' \subseteq Calls /\ crowded' \subseteq Tokens
    BY <1>7 DEF RefreshRead
  <2>4. pc' = [pc EXCEPT ![c] = "rotate"]
    BY <1>7 DEF RefreshRead
  <2>5. UNCHANGED <<user, count, row, now, matches, wasFailed, origin, usedBy, revokedFor,
                    changed>>
    BY <1>7 DEF RefreshRead
  <2>6. QED
    BY <2>2, <2>3, <2>4, <2>5
<1>8. ASSUME NEW c \in Calls, Rotate(c) PROVE TypeOK'
  BY <1>8 DEF Rotate
<1>9. ASSUME NEW c \in Calls, ChangeRead(c) \/ ProfileRead(c) PROVE TypeOK'
  BY <1>9 DEF ChangeRead, ProfileRead
<1>10. ASSUME NEW c \in Calls, ChangeWrite(c) \/ ProfileWrite(c) PROVE TypeOK'
  <2>1. password' \in 0..LastPassword /\ changed' \in [Calls -> 0..LastPassword]
    <3>1. /\ password < LastPassword /\ password' = password + 1
          /\ changed' = [changed EXCEPT ![c] = password + 1]
      BY <1>10 DEF ChangeWrite, ProfileWrite, SetPassword
    <3>2. password + 1 \in 0..LastPassword
      BY <3>1
    <3>3. QED
      BY <3>1, <3>2
  <2>2. pc' \in [Calls -> {"idle", "verify", "rotate", "sign", "store", "write",
                           "revoke", "save", "saved", "done", "clash", "failed"}]
    BY <1>10 DEF ChangeWrite, ProfileWrite
  <2>3. UNCHANGED <<exists, active, failed, locked, count, row, now, matches, wasFailed,
                    token, proved, origin, reuse, revokedFor, inFlight>>
    BY <1>10 DEF ChangeWrite, ProfileWrite, SetPassword
  <2>4. QED
    BY <2>1, <2>2, <2>3
<1>11. ASSUME NEW c \in Calls, ChangeRevoke(c) PROVE TypeOK'
  BY <1>11 DEF ChangeRevoke
<1>12. ASSUME NEW c \in Calls, Fails(c) PROVE TypeOK'
  BY <1>12 DEF Fails
<1>13. ASSUME NEW t \in Tokens, LogoutOne(t) PROVE TypeOK'
  BY <1>13 DEF LogoutOne
<1>14. ASSUME NEW t \in Tokens, TokenExpires(t) PROVE TypeOK'
  BY <1>14 DEF TokenExpires
<1>15. CASE LogoutAll \/ Tick \/ LockEnds
  <2>1. CASE LogoutAll
    BY <2>1 DEF LogoutAll
  <2>2. CASE Tick
    <3>1. now' \in Tokens
      BY <2>2 DEF Tick
    <3>2. QED
      BY <2>2, <3>1 DEF Tick
  <2>3. CASE LockEnds
    BY <2>3 DEF LockEnds
  <2>4. QED
    BY <1>15, <2>1, <2>2, <2>3
<1>16. CASE StatusChanges \/ RemoveUser
  BY <1>16 DEF StatusChanges, RemoveUser
<1>17. CASE UNCHANGED vars
  BY <1>17 DEF vars
<1>18. QED
  BY <1>1, <1>2, <1>3, <1>4, <1>5, <1>6, <1>7, <1>8, <1>9, <1>10, <1>11, <1>12, <1>13, <1>14, <1>15, <1>16, <1>17
  DEF Next, Step

LEMMA InitTypeOK == Init => TypeOK
<1> SUFFICES ASSUME Init PROVE TypeOK
  OBVIOUS
<1>1. 0 \in Tokens /\ 0 \in 0..LastPassword
  BY BoundAssumption DEF Tokens
<1>2. /\ pc \in [Calls -> {"idle", "verify", "rotate", "sign", "store", "write",
                           "revoke", "save", "saved", "done", "clash", "failed"}]
      /\ matches \in [Calls -> BOOLEAN]
      /\ wasFailed \in [Calls -> Nat]
      /\ token \in [Calls -> Tokens]
      /\ proved \in [Calls -> 0..LastPassword]
      /\ changed \in [Calls -> 0..LastPassword]
  BY <1>1 DEF Init
<1>3. /\ row \in [Tokens -> {"none", "live", "expired", "revoked"}]
      /\ proof \in [Tokens -> 0..LastPassword]
      /\ storedBy \in [Tokens -> SUBSET Calls]
      /\ usedBy \in [Tokens -> SUBSET Calls]
  BY <1>1 DEF Init
<1>4. QED
  BY <1>1, <1>2, <1>3 DEF Init, TypeOK

\* Every variable keeps its type.
THEOREM TypeCorrect == Spec => []TypeOK
  BY InitTypeOK, StepTypeOK, PTL DEF Spec

-----------------------------------------------------------------------------
(* The inductive invariant *)

\* As long as every failure was counted from the current value, the count is right.
CountInv ==
    /\ ~miscounted => failed = wrong
    /\ LockOutAfterMax

\* A token that was used is revoked, so that nobody reads it as live again.
UseInv ==
    /\ ~exists => \A t \in Tokens : row[t] = "none"
    /\ \A t \in Tokens : usedBy[t] # {} => row[t] = "revoked" \/ ~exists
    /\ \A t \in Tokens \ crowded :
          /\ \A c, d \in usedBy[t] : c = d
          /\ \A c \in Calls : pc[c] = "rotate" /\ token[c] = t =>
                /\ usedBy[t] = {}
                /\ \A d \in Calls : pc[d] = "rotate" /\ token[d] = t => d = c

\* Who was not under way at the last revocation bears a newer password.
OldWereInFlight ==
    \A t \in Tokens :
        row[t] = "live" /\ proof[t] < revokedFor => storedBy[t] \cap inFlight # {}

OriginInv ==
    /\ revokedFor <= password
    /\ \A c \in Calls \ inFlight : Bearing(c) => proved[c] >= revokedFor
    /\ OldWereInFlight

Unrevoking(c) == pc[c] \in {"saved", "revoke", "failed"}

\* Every password since then came without a revocation, so far.
ChangeInv ==
    \A p \in revokedFor + 1 .. password :
        \E c \in Calls : changed[c] = p /\ Unrevoking(c)

IInv == TypeOK /\ CountInv /\ UseInv /\ OriginInv /\ ChangeInv

LEMMA StepCountInv == IInv /\ TypeOK' /\ [Next]_vars => CountInv'
<1> SUFFICES ASSUME IInv, TypeOK', [Next]_vars PROVE CountInv'
  OBVIOUS
<1> USE BoundAssumption
    DEF IInv, TypeOK, CountInv, LockOutAfterMax, user, count
<1>1. ASSUME NEW c \in Calls, LoginRead(c) PROVE CountInv'
  BY <1>1 DEF LoginRead
<1>2. ASSUME NEW c \in Calls, LoginFails(c) PROVE CountInv'
  BY <1>2 DEF LoginFails
<1>3. ASSUME NEW c \in Calls, LoginResets(c) PROVE CountInv'
  BY <1>3 DEF LoginResets
<1>4. ASSUME NEW c \in Calls, Sign(c) PROVE CountInv'
  BY <1>4 DEF Sign
<1>5. ASSUME NEW c \in Calls, Store(c) PROVE CountInv'
  BY <1>5 DEF Store
<1>6. ASSUME NEW c \in Calls, StoreClashes(c) PROVE CountInv'
  BY <1>6 DEF StoreClashes
<1>7. ASSUME NEW c \in Calls, RefreshRead(c) PROVE CountInv'
  BY <1>7 DEF RefreshRead
<1>8. ASSUME NEW c \in Calls, Rotate(c) PROVE CountInv'
  BY <1>8 DEF Rotate
<1>9. ASSUME NEW c \in Calls, ChangeRead(c) \/ ProfileRead(c) PROVE CountInv'
  BY <1>9 DEF ChangeRead, ProfileRead
<1>10. ASSUME NEW c \in Calls, ChangeWrite(c) \/ ProfileWrite(c) PROVE CountInv'
  BY <1>10 DEF ChangeWrite, ProfileWrite, SetPassword
<1>11. ASSUME NEW c \in Calls, ChangeRevoke(c) PROVE CountInv'
  BY <1>11 DEF ChangeRevoke
<1>12. ASSUME NEW c \in Calls, Fails(c) PROVE CountInv'
  BY <1>12 DEF Fails
<1>13. ASSUME NEW t \in Tokens, LogoutOne(t) PROVE CountInv'
  BY <1>13 DEF LogoutOne
<1>14. ASSUME NEW t \in Tokens, TokenExpires(t) PROVE CountInv'
  BY <1>14 DEF TokenExpires
<1>15. CASE LogoutAll \/ Tick \/ LockEnds
  BY <1>15 DEF LogoutAll, Tick, LockEnds
<1>16. CASE StatusChanges \/ RemoveUser
  BY <1>16 DEF StatusChanges, RemoveUser
<1>17. CASE UNCHANGED vars
  BY <1>17 DEF vars
<1>18. QED
  BY <1>1, <1>2, <1>3, <1>4, <1>5, <1>6, <1>7, <1>8, <1>9, <1>10, <1>11, <1>12, <1>13, <1>14, <1>15, <1>16, <1>17
  DEF Next, Step

LEMMA StepUseInv == IInv /\ TypeOK' /\ [Next]_vars => UseInv'
<1> SUFFICES ASSUME IInv, TypeOK', [Next]_vars PROVE UseInv'
  OBVIOUS
<1> USE DEF IInv, TypeOK, UseInv, Goto, RevokeAll, user, reuse
<1>1. ASSUME NEW c \in Calls, LoginRead(c) PROVE UseInv'
  <2>1. /\ \A d \in Calls : pc'[d] = "rotate" => pc[d] = "rotate"
        /\ UNCHANGED <<exists, row, token, usedBy, crowded>>
    BY <1>1 DEF LoginRead
  <2>2. QED
    BY <2>1
<1>2. ASSUME NEW c \in Calls, LoginFails(c) PROVE UseInv'
  BY <1>2 DEF LoginFails
<1>3. ASSUME NEW c \in Calls, LoginResets(c) PROVE UseInv'
  BY <1>3 DEF LoginResets
<1>4. ASSUME NEW c \in Calls, Sign(c) PROVE UseInv'
  BY <1>4 DEF Sign
<1>5. ASSUME NEW c \in Calls, Store(c) PROVE UseInv'
  BY <1>5 DEF Store
<1>6. ASSUME NEW c \in Calls, StoreClashes(c) PROVE UseInv'
  BY <1>6 DEF StoreClashes
<1>7. ASSUME NEW c \in Calls, RefreshRead(c) PROVE UseInv'
  <2>1. PICK t \in Tokens :
           /\ row[t] = "live"
           /\ token' = [token EXCEPT ![c] = t]
           /\ crowded' = crowded \cup
                 {x \in {t} : \E d \in Calls : pc[d] = "rotate" /\ token[d] = x}
    BY <1>7 DEF RefreshRead
  <2>2. /\ pc[c] = "idle" /\ pc' = [pc EXCEPT ![c] = "rotate"]
        /\ UNCHANGED <<exists, row, usedBy>>
    BY <1>7 DEF RefreshRead
  <2>3. usedBy[t] = {}
    BY <2>1
  <2>4. ASSUME NEW x \in Tokens \ crowded', NEW d \in Calls,
               pc'[d] = "rotate", token'[d] = x
        PROVE  /\ usedBy[x] = {}
               /\ \A e \in Calls : pc'[e] = "rotate" /\ token'[e] = x => e = d
    BY <2>1, <2>2, <2>3, <2>4
  <2>5. QED
    BY <2>1, <2>2, <2>4
<1>8. ASSUME NEW c \in Calls, Rotate(c) PROVE UseInv'
  BY <1>8 DEF Rotate
<1>9. ASSUME NEW c \in Calls, ChangeRead(c) \/ ProfileRead(c) PROVE UseInv'
  BY <1>9 DEF ChangeRead, ProfileRead
<1>10. ASSUME NEW c \in Calls, ChangeWrite(c) \/ ProfileWrite(c) PROVE UseInv'
  BY <1>10 DEF ChangeWrite, ProfileWrite, SetPassword
<1>11. ASSUME NEW c \in Calls, ChangeRevoke(c) PROVE UseInv'
  <2>1. \A d \in Calls : pc'[d] = "rotate" => pc[d] = "rotate"
    BY <1>11 DEF ChangeRevoke
  <2>2. \A t \in Tokens : /\ row[t] = "none" => row'[t] = "none"
                          /\ row[t] = "revoked" => row'[t] = "revoked"
    BY <1>11 DEF ChangeRevoke
  <2>3. UNCHANGED <<exists, token, usedBy, crowded>>
    BY <1>11 DEF ChangeRevoke
  <2>4. QED
    BY <2>1, <2>2, <2>3
<1>12. ASSUME NEW c \in Calls, Fails(c) PROVE UseInv'
  BY <1>12 DEF Fails
<1>13. ASSUME NEW t \in Tokens, LogoutOne(t) PROVE UseInv'
  BY <1>13 DEF LogoutOne
<1>14. ASSUME NEW t \in Tokens, TokenExpires(t) PROVE UseInv'
  BY <1>14 DEF TokenExpires
<1>15. CASE LogoutAll \/ Tick \/ LockEnds
  BY <1>15 DEF LogoutAll, Tick, LockEnds
<1>16. CASE StatusChanges \/ RemoveUser
  BY <1>16 DEF StatusChanges, RemoveUser
<1>17. CASE UNCHANGED vars
  BY <1>17 DEF vars
<1>18. QED
  BY <1>1, <1>2, <1>3, <1>4, <1>5, <1>6, <1>7, <1>8, <1>9, <1>10, <1>11, <1>12, <1>13, <1>14, <1>15, <1>16, <1>17
  DEF Next, Step

LEMMA StepOriginInv == IInv /\ TypeOK' /\ [Next]_vars => OriginInv'
<1> SUFFICES ASSUME IInv, TypeOK', [Next]_vars PROVE OriginInv'
  OBVIOUS
<1> USE BoundAssumption
    DEF IInv, TypeOK, OriginInv, OldWereInFlight, Bearing,
        Goto, RevokeAll, user, origin, change
<1>1. ASSUME NEW c \in Calls, LoginRead(c) PROVE OriginInv'
  BY <1>1 DEF LoginRead
<1>2. ASSUME NEW c \in Calls, LoginFails(c) PROVE OriginInv'
  BY <1>2 DEF LoginFails
<1>3. ASSUME NEW c \in Calls, LoginResets(c) PROVE OriginInv'
  BY <1>3 DEF LoginResets
<1>4. ASSUME NEW c \in Calls, Sign(c) PROVE OriginInv'
  BY <1>4 DEF Sign
<1>5. ASSUME NEW c \in Calls, Store(c) PROVE OriginInv'
  <2>1. \A d \in Calls : Bearing(d)' => Bearing(d)
    BY <1>5 DEF Store
  <2>2. UNCHANGED <<password, revokedFor, inFlight, proved>>
    BY <1>5 DEF Store
  <2>3. ASSUME NEW t \in Tokens, row'[t] = "live", proof'[t] < revokedFor'
        PROVE  storedBy'[t] \cap inFlight' # {}
    <3>1. CASE t = token[c]
      <4>1. proof'[t] = proved[c] /\ c \in storedBy'[t] /\ Bearing(c)
        BY <1>5, <3>1 DEF Store
      <4>2. QED
        BY <2>2, <2>3, <4>1
    <3>2. CASE t # token[c]
      BY <1>5, <2>2, <2>3, <3>2 DEF Store
    <3>3. QED
      BY <3>1, <3>2
  <2>4. QED
    BY <2>1, <2>2, <2>3
<1>6. ASSUME NEW c \in Calls, StoreClashes(c) PROVE OriginInv'
  BY <1>6 DEF StoreClashes
<1>7. ASSUME NEW c \in Calls, RefreshRead(c) PROVE OriginInv'
  <2>1. PICK t \in Tokens :
           /\ row[t] = "live"
           /\ proved' = [proved EXCEPT ![c] = proof[t]]
           /\ inFlight' = IF storedBy[t] \cap inFlight = {} THEN inFlight
                          ELSE inFlight \cup {c}
    BY <1>7 DEF RefreshRead
  <2>2. /\ \A d \in Calls \ {c} : Bearing(d)' <=> Bearing(d)
        /\ UNCHANGED <<password, revokedFor, row, proof, storedBy>>
    BY <1>7 DEF RefreshRead
  <2>3. c \notin inFlight' => proof[t] >= revokedFor
    BY <2>1
  <2>4. \A d \in Calls \ inFlight' : Bearing(d)' => proved'[d] >= revokedFor'
    BY <2>1, <2>2, <2>3
  <2>5. OldWereInFlight'
    BY <2>1, <2>2
  <2>6. QED
    BY <2>2, <2>4, <2>5
<1>8. ASSUME NEW c \in Calls, Rotate(c) PROVE OriginInv'
  BY <1>8 DEF Rotate
<1>9. ASSUME NEW c \in Calls, ChangeRead(c) \/ ProfileRead(c) PROVE OriginInv'
  BY <1>9 DEF ChangeRead, ProfileRead
<1>10. ASSUME NEW c \in Calls, ChangeWrite(c) \/ ProfileWrite(c) PROVE OriginInv'
  BY <1>10 DEF ChangeWrite, ProfileWrite, SetPassword
<1>11. ASSUME NEW c \in Calls, ChangeRevoke(c) PROVE OriginInv'
  BY <1>11 DEF ChangeRevoke
<1>12. ASSUME NEW c \in Calls, Fails(c) PROVE OriginInv'
  BY <1>12 DEF Fails
<1>13. ASSUME NEW t \in Tokens, LogoutOne(t) PROVE OriginInv'
  BY <1>13 DEF LogoutOne
<1>14. ASSUME NEW t \in Tokens, TokenExpires(t) PROVE OriginInv'
  BY <1>14 DEF TokenExpires
<1>15. CASE LogoutAll \/ Tick \/ LockEnds
  BY <1>15 DEF LogoutAll, Tick, LockEnds
<1>16. CASE StatusChanges \/ RemoveUser
  BY <1>16 DEF StatusChanges, RemoveUser
<1>17. CASE UNCHANGED vars
  BY <1>17 DEF vars
<1>18. QED
  BY <1>1, <1>2, <1>3, <1>4, <1>5, <1>6, <1>7, <1>8, <1>9, <1>10, <1>11, <1>12, <1>13, <1>14, <1>15, <1>16, <1>17
  DEF Next, Step

\* A step that sets no password and brings no call to its revocation.
LEMMA ChangeFrame ==
  ASSUME ChangeInv, UNCHANGED <<password, revokedFor, changed>>,
         \A c \in Calls : Unrevoking(c) => Unrevoking(c)'
  PROVE  ChangeInv'
BY DEF ChangeInv

LEMMA StepChangeInv == IInv /\ TypeOK' /\ [Next]_vars => ChangeInv'
<1> SUFFICES ASSUME IInv, TypeOK', [Next]_vars PROVE ChangeInv'
  OBVIOUS
<1> USE DEF Goto, user, change
<1>t. ChangeInv /\ pc \in [Calls -> {"idle", "verify", "rotate", "sign", "store", "write",
                         "revoke", "save", "saved", "done", "clash", "failed"}]
  BY DEF IInv, TypeOK
<1>1. ASSUME NEW c \in Calls,
             \/ LoginRead(c) \/ LoginFails(c) \/ LoginResets(c)
             \/ Sign(c) \/ Store(c) \/ StoreClashes(c)
             \/ RefreshRead(c) \/ Rotate(c) \/ ChangeRead(c) \/ ProfileRead(c) \/ Fails(c)
      PROVE  ChangeInv'
  <2>1. UNCHANGED <<password, revokedFor, changed>>
    BY <1>1 DEF LoginRead, LoginFails, LoginResets, Sign, Store, StoreClashes, RefreshRead,
       Rotate, ChangeRead, ProfileRead, Fails
  <2>2. \A d \in Calls : Unrevoking(d) => Unrevoking(d)'
    BY <1>1, <1>t DEF Unrevoking, LoginRead, LoginFails, LoginResets, Sign, Store,
       StoreClashes, RefreshRead, Rotate, ChangeRead, ProfileRead, Fails
  <2>3. QED
    BY <1>t, <2>1, <2>2, ChangeFrame
<1>2. ASSUME NEW c \in Calls, ChangeWrite(c) \/ ProfileWrite(c) PROVE ChangeInv'
  <2>1. /\ password' = password + 1 /\ revokedFor' = revokedFor
        /\ pc[c] \in {"write", "save"} /\ changed' = [changed EXCEPT ![c] = password + 1]
        /\ \A d \in Calls \ {c} : pc'[d] = pc[d]
    BY <1>2, <1>t DEF ChangeWrite, ProfileWrite, SetPassword
  <2>2. pc'[c] \in {"revoke", "saved"}
    BY <1>2, <1>t DEF ChangeWrite, ProfileWrite
  <2>3. changed \in [Calls -> 0..LastPassword] /\ revokedFor \in Nat /\ password \in Nat
    BY BoundAssumption DEF IInv, TypeOK
  <2>4. ASSUME NEW p \in revokedFor' + 1 .. password'
        PROVE  \E d \in Calls : changed'[d] = p /\ Unrevoking(d)'
    <3>1. CASE p = password + 1
      BY <2>1, <2>2, <2>3, <3>1 DEF Unrevoking
    <3>2. CASE p # password + 1
      <4>1. p \in revokedFor + 1 .. password
        BY <2>1, <2>3, <3>2
      <4>2. PICK d \in Calls : changed[d] = p /\ Unrevoking(d)
        BY <1>t, <4>1 DEF ChangeInv
      <4>3. d # c
        BY <2>1, <4>2 DEF Unrevoking
      <4>4. QED
        BY <2>1, <2>3, <4>2, <4>3 DEF Unrevoking
    <3>3. QED
      BY <3>1, <3>2
  <2>5. QED
    BY <2>4 DEF ChangeInv
<1>3. ASSUME NEW c \in Calls, ChangeRevoke(c) PROVE ChangeInv'
  <2>1. revokedFor' = password /\ password' = password /\ password \in Nat
    BY <1>3, BoundAssumption DEF ChangeRevoke, IInv, TypeOK
  <2>2. QED
    BY <2>1 DEF ChangeInv
<1>4. CASE \/ \E t \in Tokens : LogoutOne(t) \/ TokenExpires(t)
           \/ LogoutAll \/ Tick \/ LockEnds \/ StatusChanges \/ RemoveUser
           \/ UNCHANGED vars
  <2>1. UNCHANGED <<password, revokedFor, changed, pc>>
    BY <1>4 DEF LogoutOne, TokenExpires, LogoutAll, Tick, LockEnds, StatusChanges,
       RemoveUser, vars
  <2>2. QED
    BY <1>t, <2>1, ChangeFrame DEF Unrevoking
<1>5. QED
  BY <1>1, <1>2, <1>3, <1>4 DEF Next, Step

LEMMA Invariance == Spec => []IInv
<1>1. Init => IInv
  <2> SUFFICES ASSUME Init PROVE IInv
    OBVIOUS
  <2>1. CountInv
    BY BoundAssumption DEF Init, CountInv, LockOutAfterMax
  <2>2. UseInv /\ OriginInv /\ ChangeInv
    BY DEF Init, UseInv, OriginInv, OldWereInFlight, Bearing, ChangeInv
  <2>3. QED
    BY InitTypeOK, <2>1, <2>2 DEF IInv
<1>2. IInv /\ [Next]_vars => IInv'
  BY StepTypeOK, StepCountInv, StepUseInv, StepOriginInv, StepChangeInv
  DEF IInv
<1>3. QED
  BY <1>1, <1>2, PTL DEF Spec

-----------------------------------------------------------------------------
(* The properties *)

\* The lock comes after MAX_FAILED_ATTEMPTS failures unless parallel logins hide some.
THEOREM LockOut == Spec => []LockOutAfterMax
<1>1. IInv => LockOutAfterMax
  BY DEF IInv, CountInv
<1>2. QED
  BY <1>1, Invariance, PTL

\* Replaying a refresh token needs two rotations that hold it at the same time.
THEOREM UsedOnce == Spec => []TokenUsedOnce
<1>1. IInv => TokenUsedOnce
  BY DEF IInv, UseInv, TokenUsedOnce
<1>2. QED
  BY <1>1, Invariance, PTL

\* A session older than a password was under way when the tokens were revoked, or
\* that password was set without revoking them.
THEOREM OldSessions == Spec => []OldSessionsAccountedFor
<1>1. IInv => OldSessionsAccountedFor
  <2> SUFFICES ASSUME IInv, NEW t \in Tokens, row[t] = "live",
                      storedBy[t] \cap inFlight = {},
                      NEW p \in proof[t] + 1 .. password
               PROVE  \E c \in Calls : changed[c] = p
                                       /\ pc[c] \in {"saved", "revoke", "failed"}
    BY DEF OldSessionsAccountedFor
  <2>1. proof[t] >= revokedFor
    BY DEF IInv, OriginInv, OldWereInFlight, TypeOK
  <2>2. p \in revokedFor + 1 .. password
    BY <2>1 DEF IInv, TypeOK
  <2>3. QED
    BY <2>2 DEF IInv, ChangeInv, Unrevoking
<1>2. QED
  BY <1>1, Invariance, PTL

==============================================================================
