-------------------------- MODULE AuthSessions_proofs --------------------------
(* Proofs about AuthSessions, for every set of users, clients and sessions and every
   threshold, lockout time and timeout.

   TypeOK is not inductive: that a principal built from a session has an expiry needs
   the session to exist, and that the counter stays within the threshold needs the lock.
   IInv adds what the rows say of each other: a principal's session exists, belongs to
   its user, and its revision is not ahead of its account's.                         *)
EXTENDS AuthSessions, TLAPS

(* Session s, if there is one, exists and is one of u's. *)
SessionOf(s, u, sessions) ==
    s # None => sessions[s] \in SessionRows /\ sessions[s].user = u

PrincipalTied(p, users, sessions) ==
    p # None => /\ p.revision <= users[p.user].revision
                /\ SessionOf(p.session, p.user, sessions)

Tied == /\ \A c \in Clients : PrincipalTied(principal[c], user, session)
        /\ \A u \in Users : SessionOf(user[u].activeSession, u, session)

IInv == LockFollowsCounter /\ Tied

-----------------------------------------------------------------------------
(* Principals *)

UserTables == [Users -> UserRows]
SessionTables == [Sessions -> SessionRows \cup {None}]

(* build_principal returns a well-formed principal of the account, tied to the rows it
   was built from. *)
LEMMA BuildPrincipalTied ==
    ASSUME NEW users \in UserTables, NEW sessions \in SessionTables, NEW u \in Users,
           NEW wanted \in Sessions \cup {None}, SessionOf(wanted, u, sessions),
           SessionOf(users[u].activeSession, u, sessions)
    PROVE  LET p == BuildPrincipal(users, sessions, u, wanted)
           IN  p \in Principals /\ PrincipalTied(p, users, sessions)
<1> DEFINE s == IF wanted # None THEN wanted ELSE users[u].activeSession
           live == s # None /\ ~sessions[s].revoked
           p == BuildPrincipal(users, sessions, u, wanted)
<1>1. users[u] \in UserRows
  BY DEF UserTables
<1>2. s \in Sessions \cup {None} /\ SessionOf(s, u, sessions)
  BY <1>1 DEF UserRows
<1>3. p = [user |-> u, session |-> IF live THEN s ELSE None,
           expires |-> IF live THEN sessions[s].expires ELSE users[u].expires,
           revision |-> users[u].revision]
  BY DEF BuildPrincipal
<1> HIDE DEF s, p
<1>4. live => s \in Sessions /\ sessions[s] \in SessionRows /\ sessions[s].user = u
  BY <1>2 DEF SessionOf
<1>5. live => sessions[s].expires \in Instants
  BY <1>4 DEF SessionRows
<1>6. users[u].expires \in Instants \cup {None} /\ users[u].revision \in 1..MaxRevision
  BY <1>1 DEF UserRows
<1>7. p \in Principals
  BY <1>3, <1>4, <1>5, <1>6 DEF Principals
<1>8. PrincipalTied(p, users, sessions)
  BY <1>3, <1>4, <1>6 DEF PrincipalTied, SessionOf
<1> QED BY <1>7, <1>8 DEF p

(* A principal that is not rebuilt stays tied when revisions only grow and sessions keep
   their users. *)
LEMMA StaysTied ==
    ASSUME NEW users \in UserTables, NEW sessions \in SessionTables,
           \A v \in Users : user[v].revision <= users[v].revision,
           \A s \in Sessions : session[s] \in SessionRows =>
               sessions[s] \in SessionRows /\ sessions[s].user = session[s].user,
           user \in UserTables,
           NEW p \in Principals \cup {None}, PrincipalTied(p, user, session)
    PROVE  PrincipalTied(p, users, sessions)
<1> SUFFICES ASSUME p # None PROVE PrincipalTied(p, users, sessions)
  BY DEF PrincipalTied
<1>1. /\ p.user \in Users /\ p.session \in Sessions \cup {None}
      /\ p.revision \in 1..MaxRevision
  BY DEF Principals
<1>2. user[p.user].revision \in 1..MaxRevision /\ users[p.user].revision \in 1..MaxRevision
  BY <1>1 DEF UserTables, UserRows
<1>3. p.revision <= users[p.user].revision
  BY <1>1, <1>2, AuthAssumption DEF PrincipalTied
<1>4. SessionOf(p.session, p.user, sessions)
  BY <1>1 DEF PrincipalTied, SessionOf
<1> QED BY <1>3, <1>4 DEF PrincipalTied

(* Every operation of an administrator rewrites the tables, refreshes the acting client
   and leaves the others tied. *)
LEMMA WriteTied ==
    ASSUME IInv, NEW c \in Clients \cup {None}, NEW u \in Users,
           NEW users \in UserTables, NEW sessions \in SessionTables,
           \A v \in Users : /\ user[v].revision <= users[v].revision
                            /\ users[v].activeSession = user[v].activeSession
                            /\ users[v].lockedUntil # None <=> users[v].failed >= Threshold,
           \A s \in Sessions : session[s] \in SessionRows =>
               sessions[s] \in SessionRows /\ sessions[s].user = session[s].user,
           Write(c, u, users, sessions)
    PROVE  IInv'
<1>1. /\ user \in UserTables /\ session \in SessionTables
      /\ principal \in [Clients -> Principals \cup {None}] /\ now \in Instants
  BY DEF IInv, LockFollowsCounter, TypeOK, UserTables, SessionTables
<1>2. /\ user' = users /\ session' = sessions /\ now' = now
      /\ principal' = Refreshed(users, sessions, c, u)
  BY DEF Write
<1>3. ASSUME NEW v \in Users PROVE SessionOf(users[v].activeSession, v, sessions)
  <2>1. user[v].activeSession \in Sessions \cup {None}
    BY <1>1 DEF UserTables, UserRows
  <2> QED BY <2>1 DEF IInv, Tied, SessionOf
<1>4. ASSUME NEW d \in Clients
      PROVE  PrincipalTied(principal[d], users, sessions)
  <2>1. PrincipalTied(principal[d], user, session) /\ principal[d] \in Principals \cup {None}
    BY <1>1 DEF IInv, Tied
  <2> QED BY <1>1, <2>1, StaysTied
<1>5. /\ principal' \in [Clients -> Principals \cup {None}]
      /\ \A d \in Clients : PrincipalTied(principal'[d], users, sessions)
  <2>1. CASE principal' = principal
    BY <1>1, <1>4, <2>1
  <2>2. CASE principal' = [principal EXCEPT ![c] = None]
    BY <1>1, <1>4, <2>2 DEF PrincipalTied
  <2>3. ASSUME NEW p \in Principals, PrincipalTied(p, users, sessions),
               principal' = [principal EXCEPT ![c] = p]
        PROVE  <1>5!:
    BY <1>1, <1>4, <2>3
  <2>4. CASE c # None /\ principal[c] # None /\ principal[c].user = u
    <3> DEFINE s == principal[c].session
               wanted == IF s # None /\ ~sessions[s].revoked THEN s ELSE None
               p == BuildPrincipal(users, sessions, u, wanted)
    <3>1. c \in Clients /\ principal[c] \in Principals /\ s \in Sessions \cup {None}
      BY <1>1, <2>4 DEF Principals
    <3>2. SessionOf(s, u, sessions)
      BY <1>4, <2>4, <3>1 DEF PrincipalTied
    <3>3. wanted \in Sessions \cup {None} /\ SessionOf(wanted, u, sessions)
      BY <3>1, <3>2 DEF SessionOf
    <3>4. \/ principal' = [principal EXCEPT ![c] = None]
          \/ principal' = [principal EXCEPT ![c] = p]
      BY <1>2, <2>4 DEF Refreshed
    <3> HIDE DEF wanted
    <3>5. p \in Principals /\ PrincipalTied(p, users, sessions)
      BY <1>3, <3>3, BuildPrincipalTied
    <3> HIDE DEF p
    <3> QED BY <2>2, <2>3, <3>4, <3>5
  <2>5. CASE ~(c # None /\ principal[c] # None /\ principal[c].user = u)
    BY <1>2, <2>1, <2>5 DEF Refreshed
  <2> QED BY <2>4, <2>5
<1>6. TypeOK'
  BY <1>1, <1>2, <1>5 DEF TypeOK, UserTables, SessionTables
<1>7. LockFollowsCounter'
  BY <1>2, <1>6 DEF LockFollowsCounter
<1>8. Tied'
  BY <1>2, <1>3, <1>5 DEF Tied
<1> QED BY <1>7, <1>8 DEF IInv

(* _revoke_all_persisted_sessions keeps the sessions and whose they are. *)
LEMMA AllRevokedTable ==
    ASSUME session \in SessionTables, NEW u \in Users
    PROVE  /\ AllRevoked(u) \in SessionTables
           /\ \A s \in Sessions : session[s] \in SessionRows =>
                /\ AllRevoked(u)[s] \in SessionRows
                /\ AllRevoked(u)[s].user = session[s].user
                /\ session[s].user = u => AllRevoked(u)[s].revoked
<1>1. ASSUME NEW s \in Sessions, session[s] \in SessionRows
      PROVE  /\ AllRevoked(u)[s] \in SessionRows
             /\ AllRevoked(u)[s].user = session[s].user
             /\ session[s].user = u => AllRevoked(u)[s].revoked
  BY <1>1, RowsAssumption DEF AllRevoked, SessionRows
<1>2. ASSUME NEW s \in Sessions, session[s] \notin SessionRows
      PROVE  AllRevoked(u)[s] = None
  BY <1>2 DEF AllRevoked, SessionTables
<1>3. AllRevoked(u) = [s \in Sessions |-> AllRevoked(u)[s]]
  BY DEF AllRevoked
<1>4. \A s \in Sessions : AllRevoked(u)[s] \in SessionRows \cup {None}
  BY <1>1, <1>2
<1>5. AllRevoked(u) \in SessionTables
  BY <1>3, <1>4 DEF SessionTables
<1> QED BY <1>1, <1>5

-----------------------------------------------------------------------------
(* Account rows *)

SignedIn(row, expires, s) == [row EXCEPT !.expires = expires, !.activeSession = s]

RotatedTo(row, timeout, expires) ==
    [Rotated(row) EXCEPT !.timeout = timeout, !.expires = expires]

(* A row with a new expiry and session is a row that differs in them only. *)
LEMMA SignedInRow ==
    ASSUME NEW row \in UserRows, NEW expires \in Instants, NEW s \in Sessions
    PROVE  LET new == SignedIn(row, expires, s)
           IN  /\ new \in UserRows /\ new.revision = row.revision /\ new.activeSession = s
               /\ new.lockedUntil = row.lockedUntil /\ new.failed = row.failed
BY DEF SignedIn, UserRows

(* A success or an unlock clears the counter and the lock together. *)
LEMMA UnlockedRow ==
    ASSUME NEW row \in UserRows
    PROVE  /\ Unlocked(row) \in UserRows
           /\ Unlocked(row).revision = row.revision
           /\ Unlocked(row).activeSession = row.activeSession
           /\ Unlocked(row).lockedUntil = None
           /\ Unlocked(row).failed = 0
<1>1. 0 \in 0..Threshold /\ None \in Instants \cup {None}
  BY AuthAssumption
<1> QED BY <1>1 DEF Unlocked, UserRows

(* A rotation changes the revision, and with it the timeout and the expiry, only. *)
LEMMA RotatedRow ==
    ASSUME NEW row \in UserRows, row.revision < MaxRevision, NEW timeout \in Timeouts,
           NEW expires \in Instants
    PROVE  LET new == RotatedTo(row, timeout, expires)
           IN  /\ new \in UserRows /\ new.revision = row.revision + 1
               /\ new.activeSession = row.activeSession
               /\ new.lockedUntil = row.lockedUntil /\ new.failed = row.failed
<1>1. row.revision + 1 \in 1..MaxRevision
  BY AuthAssumption DEF UserRows
<1>2. Rotated(row) \in UserRows /\ Rotated(row).revision = row.revision + 1
      /\ Rotated(row).activeSession = row.activeSession
      /\ Rotated(row).lockedUntil = row.lockedUntil /\ Rotated(row).failed = row.failed
  BY <1>1 DEF Rotated, UserRows
<1> QED BY <1>2 DEF RotatedTo, UserRows

(* The counter and the lock of a row agree. *)
Counted(row) == row.lockedUntil # None <=> row.failed >= Threshold

(* What a login attempt reads: a lock that has run out counts as none. *)
LEMMA LockExpiredRow ==
    ASSUME NEW row \in UserRows, Counted(row)
    PROVE  /\ LockExpired(row) \in UserRows
           /\ LockExpired(row).revision = row.revision
           /\ LockExpired(row).activeSession = row.activeSession
           /\ Counted(LockExpired(row))
<1>1. Counted(Unlocked(row))
  <2>1. ~(0 >= Threshold)
    BY AuthAssumption
  <2> QED BY <2>1, UnlockedRow DEF Counted
<1> QED BY <1>1, UnlockedRow DEF LockExpired

(* A failed login keeps the counter within the threshold and locks when it gets there. *)
LEMMA FailedLoginRow ==
    ASSUME now \in Instants, NEW row \in UserRows, Counted(row), row.lockedUntil = None
    PROVE  /\ FailedLogin(row) \in UserRows
           /\ FailedLogin(row).revision = row.revision
           /\ FailedLogin(row).activeSession = row.activeSession
           /\ Counted(FailedLogin(row))
<1>1. now + LockoutMinutes \in Instants /\ now + LockoutMinutes # None
  BY AuthAssumption DEF Instants
<1>2. row.failed \in 0..Threshold /\ ~(row.failed >= Threshold)
  BY DEF UserRows, Counted
<1>3. row.failed + 1 \in 0..Threshold
  BY <1>2, AuthAssumption
<1> DEFINE lock == IF row.failed + 1 >= Threshold THEN now + LockoutMinutes
                   ELSE row.lockedUntil
<1>4. lock \in Instants \cup {None} /\ (lock # None <=> row.failed + 1 >= Threshold)
  BY <1>1
<1>5. FailedLogin(row) = [row EXCEPT !.failed = row.failed + 1, !.lockedUntil = lock]
  BY DEF FailedLogin
<1> HIDE DEF lock
<1>6. /\ FailedLogin(row) \in UserRows /\ FailedLogin(row).revision = row.revision
      /\ FailedLogin(row).activeSession = row.activeSession
      /\ FailedLogin(row).failed = row.failed + 1 /\ FailedLogin(row).lockedUntil = lock
  BY <1>3, <1>4, <1>5 DEF UserRows
<1> QED BY <1>4, <1>6 DEF Counted

-----------------------------------------------------------------------------
(* The inductive invariant *)

(* Initially no session exists and no account is locked. *)
LEMMA IInvInit == Init => IInv
<1> SUFFICES ASSUME Init PROVE IInv
  OBVIOUS
<1>1. PICK timeout \in Timeouts : user = [u \in Users |-> NewUser(timeout)]
  BY DEF Init
<1>2. \A u \in Users : /\ user[u] \in UserRows
                       /\ user[u].activeSession = None
                       /\ user[u].lockedUntil = None /\ user[u].failed = 0
  BY <1>1, AuthAssumption DEF NewUser, UserRows
<1>3. TypeOK
  BY <1>1, <1>2 DEF Init, TypeOK, Instants
<1> QED BY <1>2, <1>3, AuthAssumption
        DEF Init, IInv, LockFollowsCounter, Tied, PrincipalTied, SessionOf

(* A new password, a session policy and a revocation all write the account's row with a
   rotated revision and a new expiry, and revoke its sessions. *)
Rotation(c, u) ==
    \E timeout \in Timeouts, expires \in Instants :
       /\ user[u].revision < MaxRevision
       /\ Write(c, u, [user EXCEPT ![u] = RotatedTo(@, timeout, expires)], AllRevoked(u))

(* The three operations that rotate an account's revision take the form of Rotation:
   a changed password, revoked sessions and a changed timeout. *)
LEMMA RotationForm ==
    ASSUME IInv, NEW c, NEW u \in Users,
           \/ ChangePassword(c, u)
           \/ RevokeUserSessions(c, u)
           \/ \E timeout \in Timeouts : SetUserSessionPolicy(c, u, timeout)
    PROVE  Rotation(c, u)
<1>1. now \in Instants /\ user[u] \in UserRows
  BY DEF IInv, LockFollowsCounter, TypeOK
<1>2. user[u].timeout \in Timeouts /\ \A timeout \in Timeouts : now + timeout \in Instants
  BY <1>1, AuthAssumption DEF UserRows, Instants
<1>3. CASE ChangePassword(c, u)
  <2>1. [Rotated(user[u]) EXCEPT !.expires = now + user[u].timeout]
          = [Rotated(user[u]) EXCEPT !.timeout = user[u].timeout,
                                     !.expires = now + user[u].timeout]
    BY <1>1 DEF UserRows, Rotated
  <2> QED BY <1>2, <1>3, <2>1 DEF ChangePassword, Rotation, RotatedTo
<1>4. CASE \E timeout \in Timeouts : SetUserSessionPolicy(c, u, timeout)
  BY <1>2, <1>4 DEF SetUserSessionPolicy, Rotation, RotatedTo
<1>5. CASE RevokeUserSessions(c, u)
  <2>1. [Rotated(user[u]) EXCEPT !.expires = now]
          = [Rotated(user[u]) EXCEPT !.timeout = user[u].timeout, !.expires = now]
    BY <1>1 DEF UserRows, Rotated
  <2> QED BY <1>1, <1>2, <1>5, <2>1 DEF RevokeUserSessions, Rotation, RotatedTo
<1> QED BY <1>3, <1>4, <1>5

(* The operations that rotate the revision. *)
LEMMA RotationStep ==
    ASSUME IInv, NEW c \in Clients \cup {None}, NEW u \in Users, user[u].revision < MaxRevision,
           NEW timeout \in Timeouts, NEW expires \in Instants,
           Write(c, u, [user EXCEPT ![u] = RotatedTo(@, timeout, expires)], AllRevoked(u))
    PROVE  IInv'
<1> DEFINE row == RotatedTo(user[u], timeout, expires)
           users == [user EXCEPT ![u] = row]
<1>1. user \in UserTables /\ session \in SessionTables
  BY DEF IInv, LockFollowsCounter, TypeOK, UserTables, SessionTables
<1>2. user[u] \in UserRows
  BY <1>1 DEF UserTables
<1>3. /\ row \in UserRows
      /\ row.revision = user[u].revision + 1 /\ row.activeSession = user[u].activeSession
      /\ row.lockedUntil = user[u].lockedUntil /\ row.failed = user[u].failed
  BY <1>2, RotatedRow
<1> HIDE DEF row
<1>5. \A v \in Users : /\ user[v].revision \in 1..MaxRevision
                       /\ users[v] = IF v = u THEN row ELSE user[v]
  BY <1>1 DEF UserTables, UserRows
<1>6. users \in UserTables
  BY <1>1, <1>3 DEF UserTables
<1> HIDE DEF users
<1>7. \A v \in Users : /\ user[v].revision <= users[v].revision
                       /\ users[v].activeSession = user[v].activeSession
                       /\ users[v].lockedUntil # None <=> users[v].failed >= Threshold
  <2>1. \A v \in Users : user[v].lockedUntil # None <=> user[v].failed >= Threshold
    BY DEF IInv, LockFollowsCounter
  <2> QED BY <1>3, <1>5, <2>1, AuthAssumption
<1>8. Write(c, u, users, AllRevoked(u))
  BY DEF users, row
<1> QED BY <1>1, <1>6, <1>7, <1>8, AllRevokedTable, WriteTied

(* The operations that leave the sessions and the revisions alone. *)
LEMMA RowStep ==
    ASSUME IInv, NEW c \in Clients \cup {None}, NEW u \in Users, NEW row \in UserRows,
           row.revision = user[u].revision, row.activeSession = user[u].activeSession,
           row.lockedUntil # None <=> row.failed >= Threshold,
           Write(c, u, [user EXCEPT ![u] = row], session)
    PROVE  IInv'
<1> DEFINE users == [user EXCEPT ![u] = row]
<1>1. user \in UserTables /\ session \in SessionTables
  BY DEF IInv, LockFollowsCounter, TypeOK, UserTables, SessionTables
<1>2. \A v \in Users : /\ user[v].revision \in 1..MaxRevision
                       /\ users[v] = IF v = u THEN row ELSE user[v]
  BY <1>1 DEF UserTables, UserRows
<1>3. users \in UserTables
  BY <1>1 DEF UserTables
<1> HIDE DEF users
<1>4. \A v \in Users : /\ user[v].revision <= users[v].revision
                       /\ users[v].activeSession = user[v].activeSession
                       /\ users[v].lockedUntil # None <=> users[v].failed >= Threshold
  <2>1. \A v \in Users : user[v].lockedUntil # None <=> user[v].failed >= Threshold
    BY DEF IInv, LockFollowsCounter
  <2> QED BY <1>2, <2>1, AuthAssumption
<1>5. Write(c, u, users, session)
  BY DEF users
<1> QED BY <1>1, <1>3, <1>4, <1>5, WriteTied

(* revoke_session keeps the row and its user. *)
LEMMA RevokeSessionStep ==
    ASSUME IInv, NEW c \in Clients \cup {None}, NEW s \in Sessions, RevokeSession(c, s)
    PROVE  IInv'
<1> DEFINE sessions == [session EXCEPT ![s].revoked = TRUE]
<1>1. user \in UserTables /\ session \in SessionTables
  BY DEF IInv, LockFollowsCounter, TypeOK, UserTables, SessionTables
<1>2. session[s] \in SessionRows
  BY <1>1 DEF RevokeSession, SessionTables
<1>3. [session[s] EXCEPT !.revoked = TRUE] \in SessionRows
      /\ [session[s] EXCEPT !.revoked = TRUE].user = session[s].user
  BY <1>2 DEF SessionRows
<1>4. sessions \in SessionTables
  BY <1>1, <1>3 DEF SessionTables
<1>5. \A t \in Sessions : session[t] \in SessionRows =>
          sessions[t] \in SessionRows /\ sessions[t].user = session[t].user
  BY <1>1, <1>3 DEF SessionTables
<1>6. \A v \in Users : /\ user[v].revision <= user[v].revision
                       /\ user[v].lockedUntil # None <=> user[v].failed >= Threshold
  <2>1. \A v \in Users : user[v].revision \in 1..MaxRevision
    BY <1>1 DEF UserTables, UserRows
  <2> QED BY <2>1, AuthAssumption DEF IInv, LockFollowsCounter
<1>7. session[s].user \in Users
  BY <1>2 DEF SessionRows
<1>8. Write(c, session[s].user, user, sessions)
  BY DEF RevokeSession
<1> HIDE DEF sessions
<1> QED BY <1>1, <1>4, <1>5, <1>6, <1>7, <1>8, WriteTied

(* Whatever an administrator does preserves the invariant. *)
LEMMA AdministrationStep == IInv /\ AdministrationNext => IInv'
<1> SUFFICES ASSUME IInv, NEW c \in Clients \cup {None},
                    \/ \E u \in Users : \/ ChangePassword(c, u)
                                        \/ RevokeUserSessions(c, u)
                                        \/ UnlockUserAccount(c, u)
                                        \/ UpdateUserProfile(c, u)
                    \/ \E u \in Users, timeout \in Timeouts :
                          SetUserSessionPolicy(c, u, timeout)
                    \/ \E u \in Users, active \in BOOLEAN : SetUserActive(c, u, active)
                    \/ \E s \in Sessions : RevokeSession(c, s)
                    \/ ScopedAccessChanged(c)
             PROVE  IInv'
  BY DEF AdministrationNext
<1>1. /\ user \in UserTables /\ session \in SessionTables /\ now \in Instants
      /\ principal \in [Clients -> Principals \cup {None}]
  BY DEF IInv, LockFollowsCounter, TypeOK, UserTables, SessionTables
<1>2. ASSUME NEW u \in Users
      PROVE  /\ user[u] \in UserRows
             /\ user[u].timeout \in Timeouts
             /\ user[u].lockedUntil # None <=> user[u].failed >= Threshold
             /\ \A timeout \in Timeouts : now + timeout \in Instants
  BY <1>1, AuthAssumption DEF UserTables, UserRows, IInv, LockFollowsCounter, Instants
<1>3. ASSUME NEW u \in Users, Rotation(c, u) PROVE IInv'
  BY <1>3, RotationStep DEF Rotation
<1>6. ASSUME NEW u \in Users, NEW active \in BOOLEAN, SetUserActive(c, u, active)
      PROVE  IInv'
  <2> DEFINE row == [user[u] EXCEPT !.active = active]
  <2>1. /\ row \in UserRows /\ row.revision = user[u].revision
        /\ row.activeSession = user[u].activeSession
        /\ row.lockedUntil # None <=> row.failed >= Threshold
    BY <1>2 DEF UserRows
  <2>2. Write(c, u, [user EXCEPT ![u] = row], session)
    BY <1>6 DEF SetUserActive
  <2> HIDE DEF row
  <2> QED BY <2>1, <2>2, RowStep
<1>7. ASSUME NEW u \in Users, UnlockUserAccount(c, u) PROVE IInv'
  <2> DEFINE row == Unlocked(user[u])
  <2>1. /\ row \in UserRows /\ row.revision = user[u].revision
        /\ row.activeSession = user[u].activeSession
        /\ row.lockedUntil # None <=> row.failed >= Threshold
    <3>1. ~(0 >= Threshold)
      BY AuthAssumption
    <3> QED BY <1>2, <3>1, UnlockedRow
  <2>2. Write(c, u, [user EXCEPT ![u] = row], session)
    BY <1>7 DEF UnlockUserAccount
  <2> HIDE DEF row
  <2> QED BY <2>1, <2>2, RowStep
<1>8. ASSUME NEW u \in Users, UpdateUserProfile(c, u) PROVE IInv'
  <2>1. [user EXCEPT ![u] = user[u]] = user
    BY <1>1 DEF UserTables
  <2> QED BY <1>2, <1>8, <2>1, RowStep DEF UpdateUserProfile
<1>9. ASSUME ScopedAccessChanged(c) PROVE IInv'
  <2> DEFINE u == principal[c].user
             p == BuildPrincipal(user, session, u, None)
  <2>1. c \in Clients /\ principal[c] \in Principals
    BY <1>1, <1>9 DEF ScopedAccessChanged, Actor, Valid
  <2>2. u \in Users
    BY <2>1 DEF Principals
  <2>3. principal' = [principal EXCEPT ![c] = p] /\ UNCHANGED <<now, user, session>>
    BY <1>9 DEF ScopedAccessChanged
  <2>4. SessionOf(user[u].activeSession, u, session) /\ SessionOf(None, u, session)
    BY <2>2 DEF IInv, Tied, SessionOf
  <2> HIDE DEF u
  <2>5. p \in Principals /\ PrincipalTied(p, user, session)
    BY <1>1, <2>2, <2>4, BuildPrincipalTied
  <2> HIDE DEF p
  <2> QED BY <1>1, <2>1, <2>3, <2>5 DEF IInv, LockFollowsCounter, TypeOK, Tied
<1> QED BY <1>3, <1>6, <1>7, <1>8, <1>9, RotationForm, RevokeSessionStep

(* Wrong passwords, logins, checks and copies preserve the invariant. *)
LEMMA LoginStep == IInv /\ LoginNext => IInv'
<1> SUFFICES ASSUME IInv, LoginNext PROVE IInv'
  OBVIOUS
<1>1. /\ user \in UserTables /\ session \in SessionTables /\ now \in Instants
      /\ principal \in [Clients -> Principals \cup {None}]
  BY DEF IInv, LockFollowsCounter, TypeOK, UserTables, SessionTables
<1>2. ASSUME NEW u \in Users
      PROVE  /\ user[u] \in UserRows
             /\ user[u].lockedUntil # None <=> user[u].failed >= Threshold
  BY <1>1 DEF UserTables, IInv, LockFollowsCounter
<1>3. ASSUME NEW u \in Users, LoginFails(u) PROVE IInv'
  <2> DEFINE row == LockExpired(user[u])
             new == FailedLogin(row)
  <2>1. /\ row \in UserRows /\ row.revision = user[u].revision
        /\ row.activeSession = user[u].activeSession
        /\ row.lockedUntil # None <=> row.failed >= Threshold
    BY <1>2, LockExpiredRow DEF Counted
  <2>2. row.lockedUntil = None /\ user' = [user EXCEPT ![u] = new]
        /\ UNCHANGED <<now, session, principal>>
    BY <1>3 DEF LoginFails
  <2> HIDE DEF row
  <2>3. /\ new \in UserRows /\ new.revision = user[u].revision
        /\ new.activeSession = user[u].activeSession
        /\ new.lockedUntil # None <=> new.failed >= Threshold
    BY <1>1, <2>1, <2>2, FailedLoginRow DEF Counted
  <2> HIDE DEF new
  <2>4. user' \in UserTables
    BY <1>1, <2>2, <2>3 DEF UserTables
  <2>5. \A v \in Users : user'[v] = IF v = u THEN new ELSE user[v]
    BY <1>1, <2>2 DEF UserTables
  <2>6. LockFollowsCounter'
    BY <1>1, <1>2, <2>2, <2>3, <2>4, <2>5
       DEF LockFollowsCounter, TypeOK, UserTables, SessionTables
  <2>7. ASSUME NEW c \in Clients PROVE PrincipalTied(principal[c], user', session)
    <3>1. principal[c] # None => principal[c].user \in Users
      BY <1>1 DEF Principals
    <3> QED BY <2>3, <2>5, <3>1 DEF IInv, Tied, PrincipalTied
  <2>8. Tied'
    BY <2>2, <2>3, <2>5, <2>7 DEF IInv, Tied
  <2> QED BY <2>6, <2>8 DEF IInv
<1>4. ASSUME NEW c \in Clients, NEW u \in Users, NEW s \in Sessions, LoginSucceeds(c, u, s)
      PROVE  IInv'
  <2> DEFINE expires == now + user[u].timeout
             row == SignedIn(Unlocked(user[u]), expires, s)
             issued == [user |-> u, revision |-> user[u].revision, expires |-> expires,
                        revoked |-> FALSE]
             p == BuildPrincipal(user', session', u, None)
  <2>1. /\ user' = [user EXCEPT ![u] = row] /\ session' = [session EXCEPT ![s] = issued]
        /\ principal' = [principal EXCEPT ![c] = p] /\ now' = now /\ session[s] = None
    BY <1>4 DEF LoginSucceeds, SignedIn
  <2>2. expires \in Instants
    <3>1. user[u].timeout \in Nat \ {0}
      BY <1>2, AuthAssumption DEF UserRows
    <3> QED BY <1>1, <3>1 DEF Instants
  <2> HIDE DEF expires
  <2>3. /\ row \in UserRows /\ row.revision = user[u].revision /\ row.activeSession = s
        /\ row.lockedUntil # None <=> row.failed >= Threshold
    <3>1. ~(0 >= Threshold)
      BY AuthAssumption
    <3>2. /\ row \in UserRows /\ row.revision = Unlocked(user[u]).revision
          /\ row.activeSession = s /\ row.lockedUntil = Unlocked(user[u]).lockedUntil
          /\ row.failed = Unlocked(user[u]).failed
      <4>1. PICK base \in UserRows : base = Unlocked(user[u])
        BY <1>2, UnlockedRow
      <4> QED BY <2>2, <4>1, SignedInRow DEF row
    <3> HIDE DEF row
    <3> QED BY <1>2, <3>1, <3>2, UnlockedRow
  <2>4. issued \in SessionRows /\ issued.user = u
    BY <1>2, <2>2 DEF SessionRows, UserRows
  <2> HIDE DEF row, issued
  <2>5. user' \in UserTables /\ session' \in SessionTables
    BY <1>1, <2>1, <2>3, <2>4 DEF UserTables, SessionTables
  <2>6. /\ \A v \in Users : user'[v] = IF v = u THEN row ELSE user[v]
        /\ \A t \in Sessions : session'[t] = IF t = s THEN issued ELSE session[t]
    BY <1>1, <2>1 DEF UserTables, SessionTables
  <2>7. \A t \in Sessions : session[t] \in SessionRows =>
            session'[t] \in SessionRows /\ session'[t].user = session[t].user
    BY <2>1, <2>4, <2>6, RowsAssumption
  <2>8. \A v \in Users : user[v].revision <= user'[v].revision
    <3>1. \A v \in Users : user[v].revision \in 1..MaxRevision
      BY <1>1 DEF UserTables, UserRows
    <3> QED BY <2>3, <2>6, <3>1, AuthAssumption
  <2>9. ASSUME NEW v \in Users PROVE SessionOf(user'[v].activeSession, v, session')
    <3>1. CASE v = u
      BY <2>3, <2>4, <2>6, <3>1 DEF SessionOf
    <3>2. CASE v # u
      <4>1. user[v].activeSession \in Sessions \cup {None}
        BY <1>1 DEF UserTables, UserRows
      <4> QED BY <2>6, <2>7, <3>2, <4>1 DEF IInv, Tied, SessionOf
    <3> QED BY <3>1, <3>2
  <2>10. ASSUME NEW d \in Clients PROVE PrincipalTied(principal[d], user', session')
    <3>1. PrincipalTied(principal[d], user, session) /\ principal[d] \in Principals \cup {None}
      BY <1>1 DEF IInv, Tied
    <3> QED BY <1>1, <2>5, <2>7, <2>8, <3>1, StaysTied
  <2>11. p \in Principals /\ PrincipalTied(p, user', session')
    <3>1. SessionOf(user'[u].activeSession, u, session') /\ SessionOf(None, u, session')
      BY <2>9 DEF SessionOf
    <3> QED BY <2>5, <3>1, BuildPrincipalTied
  <2> HIDE DEF p
  <2>12. LockFollowsCounter'
    BY <1>1, <1>2, <2>1, <2>3, <2>5, <2>6, <2>11
       DEF LockFollowsCounter, TypeOK, UserTables, SessionTables
  <2>13. Tied'
    BY <1>1, <2>1, <2>9, <2>10, <2>11 DEF Tied
  <2> QED BY <2>12, <2>13 DEF IInv
<1>5. ASSUME NEW c \in Clients, NEW p \in Principals \cup {None},
             PrincipalTied(p, user, session), principal' = [principal EXCEPT ![c] = p],
             UNCHANGED <<now, user, session>>
      PROVE  IInv'
  BY <1>1, <1>5 DEF IInv, LockFollowsCounter, TypeOK, Tied
<1>6. ASSUME NEW c \in Clients, Logout(c) PROVE IInv'
  BY <1>5, <1>6 DEF Logout, PrincipalTied
<1>7. ASSUME NEW c \in Clients, Check(c) PROVE IInv'
  <2> DEFINE u == principal[c].user
             s == principal[c].session
             p == BuildPrincipal(user, session, u, s)
  <2>1. principal[c] \in Principals /\ PrincipalTied(principal[c], user, session)
    BY <1>1, <1>7 DEF Check, IInv, Tied
  <2>2. u \in Users /\ s \in Sessions \cup {None} /\ SessionOf(s, u, session)
    BY <1>7, <2>1 DEF Check, Principals, PrincipalTied
  <2>3. SessionOf(user[u].activeSession, u, session)
    BY <2>2 DEF IInv, Tied
  <2>4. /\ \/ principal' = [principal EXCEPT ![c] = p]
           \/ principal' = [principal EXCEPT ![c] = None]
        /\ UNCHANGED <<now, user, session>>
    BY <1>7 DEF Check
  <2> HIDE DEF u, s
  <2>5. p \in Principals /\ PrincipalTied(p, user, session)
    BY <1>1, <2>2, <2>3, BuildPrincipalTied
  <2> HIDE DEF p
  <2> QED BY <1>5, <2>4, <2>5 DEF PrincipalTied
<1>8. ASSUME NEW c \in Clients, NEW d \in Clients, CopyPrincipal(c, d) PROVE IInv'
  <2>1. PrincipalTied(principal[c], user, session) /\ principal[c] \in Principals \cup {None}
    BY <1>1 DEF IInv, Tied
  <2> QED BY <1>5, <1>8, <2>1 DEF CopyPrincipal
<1> QED BY <1>3, <1>4, <1>6, <1>7, <1>8 DEF LoginNext

(* Every step of a client, an administrator or the clock keeps the invariant. *)
LEMMA IInvStep == IInv /\ [Next]_vars => IInv'
<1> SUFFICES ASSUME IInv, [Next]_vars PROVE IInv'
  OBVIOUS
<1>1. CASE UNCHANGED <<user, session, principal>> /\ now' \in Instants
  BY <1>1 DEF IInv, LockFollowsCounter, TypeOK, Tied, PrincipalTied, SessionOf
<1>2. Tick \/ UNCHANGED vars => UNCHANGED <<user, session, principal>> /\ now' \in Instants
  BY DEF Tick, vars, IInv, LockFollowsCounter, TypeOK, Instants
<1> QED BY <1>1, <1>2, LoginStep, AdministrationStep DEF Next

(* Rows and principals keep their shape, and every principal and every account refers
   to a session of its own. *)
THEOREM SessionsTied == Spec => []IInv
<1> QED BY IInvInit, IInvStep, PTL DEF Spec

(* An account is locked exactly when its counter of failed logins has reached the
   threshold. *)
THEOREM LockCounts == Spec => []LockFollowsCounter
<1> QED BY SessionsTied, PTL DEF IInv

-----------------------------------------------------------------------------
(* Locks *)

(* No operation but an unlock touches the lock of an account while it lasts. *)
LEMMA LockStep ==
    ASSUME IInv, Next, NEW u \in Users, user[u].lockedUntil # None,
           now < user[u].lockedUntil
    PROVE  /\ user'[u].activeSession = user[u].activeSession
           /\ \/ user'[u].lockedUntil = user[u].lockedUntil
              \/ \E c \in Clients \cup {None} : UnlockUserAccount(c, u)
<1> DEFINE Kept == /\ user'[u].activeSession = user[u].activeSession
                   /\ user'[u].lockedUntil = user[u].lockedUntil
<1>1. user \in UserTables /\ user[u] \in UserRows /\ now \in Instants
  BY DEF IInv, LockFollowsCounter, TypeOK, UserTables
<1>2. ~(user[u].lockedUntil <= now)
  BY <1>1 DEF UserRows, Instants
<1>3. LockExpired(user[u]) = user[u]
  BY <1>2 DEF LockExpired
<1>4. ASSUME user' = user PROVE Kept
  BY <1>4
<1>5. ASSUME NEW v \in Users, LoginFails(v) PROVE Kept
  BY <1>1, <1>3, <1>5 DEF LoginFails, UserTables
<1>6. ASSUME NEW c \in Clients, NEW v \in Users, NEW s \in Sessions, LoginSucceeds(c, v, s)
      PROVE  Kept
  BY <1>1, <1>3, <1>6 DEF LoginSucceeds, MayLogIn, UserTables
<1>7. ASSUME NEW c \in Clients \cup {None}, NEW v \in Users,
             Rotation(c, v) \/ \E active \in BOOLEAN : SetUserActive(c, v, active)
      PROVE  Kept
  <2>1. \E row : /\ user' = [user EXCEPT ![v] = row]
                 /\ row.activeSession = user[v].activeSession
                 /\ row.lockedUntil = user[v].lockedUntil
    <3>1. user[v] \in UserRows
      BY <1>1 DEF UserTables
    <3>2. CASE Rotation(c, v)
      <4>1. PICK timeout \in Timeouts, expires \in Instants :
               /\ user[v].revision < MaxRevision
               /\ user' = [user EXCEPT ![v] = RotatedTo(@, timeout, expires)]
        BY <3>2 DEF Rotation, Write
      <4>2. /\ RotatedTo(user[v], timeout, expires).activeSession = user[v].activeSession
            /\ RotatedTo(user[v], timeout, expires).lockedUntil = user[v].lockedUntil
        BY <3>1, <4>1, RotatedRow
      <4> QED BY <4>1, <4>2
    <3>3. CASE \E active \in BOOLEAN : SetUserActive(c, v, active)
      BY <3>1, <3>3 DEF SetUserActive, Write, UserRows
    <3> QED BY <1>7, <3>2, <3>3
  <2> QED BY <1>1, <2>1 DEF UserTables
<1>8. ASSUME NEW c \in Clients \cup {None}, NEW v \in Users, UnlockUserAccount(c, v)
      PROVE  /\ user'[u].activeSession = user[u].activeSession
             /\ v # u => user'[u].lockedUntil = user[u].lockedUntil
  BY <1>1, <1>8 DEF UnlockUserAccount, Write, Unlocked, UserTables, UserRows
<1>9. ASSUME LoginNext PROVE Kept
  BY <1>4, <1>5, <1>6, <1>9 DEF LoginNext, Logout, Check, CopyPrincipal
<1>10. ASSUME AdministrationNext
       PROVE  Kept \/ (/\ user'[u].activeSession = user[u].activeSession
                       /\ \E c \in Clients \cup {None} : UnlockUserAccount(c, u))
  BY <1>4, <1>7, <1>8, <1>10, RotationForm
     DEF AdministrationNext, UpdateUserProfile, RevokeSession, ScopedAccessChanged, Write
<1> QED BY <1>4, <1>9, <1>10 DEF Next, Tick

(* While a lock lasts no login succeeds, and nothing but an unlock ends or moves it. *)
THEOREM LocksHold == Spec => LockHolds
<1>1. IInv /\ [Next]_vars =>
        [\A u \in Users :
            user[u].lockedUntil # None /\ now < user[u].lockedUntil
            => /\ user'[u].activeSession = user[u].activeSession
               /\ \/ user'[u].lockedUntil = user[u].lockedUntil
                  \/ \E c \in Clients \cup {None} : UnlockUserAccount(c, u)]_vars
  BY LockStep
<1> QED BY <1>1, SessionsTied, PTL DEF Spec, LockHolds

-----------------------------------------------------------------------------
(* Rotation *)

(* After a rotation of its account's revision a principal that was not rebuilt is not
   valid: one with a session has a revoked one, one without has an old revision. *)
LEMMA RotatedInvalid ==
    ASSUME IInv, NEW c \in Clients, principal[c] # None, principal'[c] = principal[c],
           user'[principal[c].user].revision = user[principal[c].user].revision + 1,
           session' = AllRevoked(principal[c].user)
    PROVE  ~Valid(c)'
<1> DEFINE p == principal[c]
<1>1. /\ session \in SessionTables /\ user \in UserTables /\ p \in Principals
      /\ PrincipalTied(p, user, session)
  BY DEF IInv, LockFollowsCounter, TypeOK, UserTables, SessionTables, Tied
<1>2. p.user \in Users /\ p.session \in Sessions \cup {None} /\ p.revision \in 1..MaxRevision
  BY <1>1 DEF Principals
<1>3. user[p.user].revision \in 1..MaxRevision /\ p.revision <= user[p.user].revision
  BY <1>1, <1>2 DEF UserTables, UserRows, PrincipalTied
<1>4. CASE p.session = None
  <2>1. p.revision # user'[p.user].revision
    BY <1>2, <1>3, AuthAssumption
  <2>2. ~PrincipalCurrent(p)'
    BY <2>1 DEF PrincipalCurrent
  <2> QED BY <1>4, <2>2 DEF Valid, PrincipalCurrent
<1>5. CASE p.session # None
  <2>1. session[p.session] \in SessionRows /\ session[p.session].user = p.user
    BY <1>1, <1>5 DEF PrincipalTied, SessionOf
  <2>2. AllRevoked(p.user)[p.session].revoked
    BY <1>1, <1>2, <1>5, <2>1, AllRevokedTable
  <2> QED BY <1>5, <2>2 DEF Valid, SessionCurrent
<1> QED BY <1>4, <1>5

(* A revision changes only with a rotation, which revokes the account's sessions. *)
LEMMA RevisionStep ==
    ASSUME IInv, Next, NEW u \in Users, user'[u].revision # user[u].revision
    PROVE  user'[u].revision = user[u].revision + 1 /\ session' = AllRevoked(u)
<1>1. user \in UserTables
  BY DEF IInv, LockFollowsCounter, TypeOK, UserTables
<1>2. \A v \in Users : user[v] \in UserRows
  BY <1>1 DEF UserTables
<1>3. user' # user
  OBVIOUS
<1>4. ASSUME NEW v \in Users, LoginFails(v) PROVE FALSE
  BY <1>1, <1>2, <1>4 DEF LoginFails, LockExpired, Unlocked, FailedLogin, UserTables, UserRows
<1>5. ASSUME NEW c \in Clients, NEW v \in Users, NEW s \in Sessions, LoginSucceeds(c, v, s)
      PROVE  FALSE
  BY <1>1, <1>2, <1>5 DEF LoginSucceeds, Unlocked, UserTables, UserRows
<1>6. ASSUME NEW c \in Clients \cup {None}, NEW v \in Users, Rotation(c, v)
      PROVE  user'[u].revision = user[u].revision + 1 /\ session' = AllRevoked(u)
  <2>1. PICK row : /\ user' = [user EXCEPT ![v] = row]
                   /\ row.revision = user[v].revision + 1
                   /\ session' = AllRevoked(v)
    BY <1>2, <1>6, RotatedRow DEF Rotation, Write
  <2> QED BY <1>1, <2>1 DEF UserTables
<1>7. ASSUME NEW c \in Clients \cup {None}, NEW v \in Users,
             \/ UnlockUserAccount(c, v)
             \/ \E active \in BOOLEAN : SetUserActive(c, v, active)
      PROVE  FALSE
  <2>1. \E row : user' = [user EXCEPT ![v] = row] /\ row.revision = user[v].revision
    <3>1. CASE UnlockUserAccount(c, v)
      BY <1>2, <3>1, UnlockedRow DEF UnlockUserAccount, Write
    <3>2. CASE \E active \in BOOLEAN : SetUserActive(c, v, active)
      BY <1>2, <3>2 DEF SetUserActive, Write, UserRows
    <3> QED BY <1>7, <3>1, <3>2
  <2> QED BY <1>1, <2>1 DEF UserTables
<1>8. LoginNext => FALSE
  BY <1>3, <1>4, <1>5 DEF LoginNext, Logout, Check, CopyPrincipal
<1> QED BY <1>3, <1>6, <1>7, <1>8, RotationForm DEF Next, Tick, AdministrationNext, UpdateUserProfile,
           RevokeSession, ScopedAccessChanged, Write

(* After the sessions of an account were invalidated, no client of it but the acting one
   passes its next check. *)
THEOREM RotationsReach == Spec => RotationReachesClients
<1>1. IInv /\ [Next]_vars =>
        [\A c \in Clients :
            /\ principal[c] # None /\ principal'[c] = principal[c]
            /\ user'[principal[c].user].revision # user[principal[c].user].revision
            => ~Valid(c)']_vars
  <2> SUFFICES ASSUME IInv, Next, NEW c \in Clients, principal[c] # None,
                      principal'[c] = principal[c],
                      user'[principal[c].user].revision # user[principal[c].user].revision
               PROVE  ~Valid(c)'
    OBVIOUS
  <2>1. principal[c].user \in Users
    BY DEF IInv, LockFollowsCounter, TypeOK, Principals
  <2>2. /\ user'[principal[c].user].revision = user[principal[c].user].revision + 1
        /\ session' = AllRevoked(principal[c].user)
    BY <2>1, RevisionStep
  <2> QED BY <2>2, RotatedInvalid
<1> QED BY <1>1, SessionsTied, PTL DEF Spec, RotationReachesClients
=============================================================================
