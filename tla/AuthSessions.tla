---------------------------- MODULE AuthSessions ----------------------------
(* AuthService and UserSessionContext: the failed-login counter and the lock of an
   account, the persisted sessions of its logins, the revision that invalidates them,
   and the principal each client (the window of a process, or a background worker the
   principal was copied to) holds between checks.

   Time is a number of minutes.  An operation reads the clock once and is one
   transaction.  An administrator is a client logged in as someone else, written as
   the actor None, or a client of the account itself.                            *)
EXTENDS Integers

CONSTANTS None, Users, Clients,
          Sessions,              \* sessions that may be issued
          Threshold,             \* login_lockout_threshold()
          LockoutMinutes,        \* login_lockout_minutes()
          Timeouts,              \* session timeouts an administrator may set
          MaxTime, MaxRevision   \* bounds on the clock and on the revisions

ASSUME AuthAssumption == /\ Threshold \in Nat \ {0}
                         /\ LockoutMinutes \in Nat \ {0}
                         /\ Timeouts \subseteq Nat \ {0}
                         /\ MaxTime \in Nat /\ MaxRevision \in Nat \ {0}
                         /\ None \notin Users \cup Clients \cup Sessions \cup Nat

VARIABLES now, user, session, principal

vars == <<now, user, session, principal>>

Instants == Nat \ {0}

UserRows == [active : BOOLEAN,
             failed : 0..Threshold,
             lockedUntil : Instants \cup {None},
             revision : 1..MaxRevision,
             expires : Instants \cup {None},        \* session_expires_at
             activeSession : Sessions \cup {None},
             timeout : Timeouts]

SessionRows == [user : Users, revision : 1..MaxRevision, expires : Instants,
                revoked : BOOLEAN]

ASSUME RowsAssumption == None \notin SessionRows

Principals == [user : Users, session : Sessions \cup {None},
               expires : Instants \cup {None}, revision : 1..MaxRevision]

(* TypeOK: rows and principals have the shape of their classes; the counter of failed
   logins never exceeds the threshold. *)
TypeOK == /\ now \in Instants
          /\ user \in [Users -> UserRows]
          /\ session \in [Sessions -> SessionRows \cup {None}]
          /\ principal \in [Clients -> Principals \cup {None}]

NewUser(timeout) == [active |-> TRUE, failed |-> 0, lockedUntil |-> None, revision |-> 1,
                     expires |-> None, activeSession |-> None, timeout |-> timeout]

Init == /\ now = 1
        /\ \E timeout \in Timeouts : user = [u \in Users |-> NewUser(timeout)]
        /\ session = [s \in Sessions |-> None]
        /\ principal = [c \in Clients |-> None]

-----------------------------------------------------------------------------
(* Principals *)

(* build_principal: with no session asked for, the one of the account's last login; a
   revoked one leaves the principal without a session and with the account's expiry. *)
BuildPrincipal(users, sessions, u, wanted) ==
    LET s    == IF wanted # None THEN wanted ELSE users[u].activeSession
        live == s # None /\ ~sessions[s].revoked
    IN  [user |-> u,
         session |-> IF live THEN s ELSE None,
         expires |-> IF live THEN sessions[s].expires ELSE users[u].expires,
         revision |-> users[u].revision]

PrincipalCurrentUnrevised(p) == p.expires = user[p.user].expires

(* validate_session_principal for a principal without a session *)
PrincipalCurrent(p) == /\ p.expires = user[p.user].expires
                       /\ p.revision = user[p.user].revision

(* ... and with one *)
SessionCurrent(s) == /\ ~session[s].revoked
                     /\ now < session[s].expires
                     /\ session[s].revision = user[session[s].user].revision

Valid(c) == LET p == principal[c]
            IN  /\ p # None
                /\ p.expires # None => now < p.expires
                /\ user[p.user].active
                /\ user[p.user].expires # None
                /\ now < user[p.user].expires
                /\ IF p.session = None THEN PrincipalCurrent(p) ELSE SessionCurrent(p.session)

(* _active_principal: every permission check validates, and clears or renews. *)
Check(c) ==
    /\ principal[c] # None
    /\ principal' = [principal EXCEPT ![c] =
          IF Valid(c) THEN BuildPrincipal(user, session, @.user, @.session) ELSE None]
    /\ UNCHANGED <<now, user, session>>

(* _refresh_current_session_if_user, run by the client that changed the account *)
Refreshed(users, sessions, c, u) ==
    IF c = None \/ principal[c] = None THEN principal
    ELSE IF principal[c].user # u THEN principal
    ELSE LET s == principal[c].session
         IN  [principal EXCEPT ![c] =
                IF \/ ~users[u].active
                   \/ users[u].expires # None /\ now >= users[u].expires
                THEN None
                ELSE BuildPrincipal(users, sessions, u,
                        IF s # None /\ ~sessions[s].revoked THEN s ELSE None)]

-----------------------------------------------------------------------------
(* Logging in *)

Unlocked(row) == [row EXCEPT !.failed = 0, !.lockedUntil = None]

LockExpired(row) == IF row.lockedUntil # None /\ row.lockedUntil <= now
                    THEN Unlocked(row) ELSE row

(* _register_failed_login: a wrong password or a wrong second factor. *)
FailedLogin(row) ==
    [row EXCEPT !.failed = @ + 1,
                !.lockedUntil = IF row.failed + 1 >= Threshold THEN now + LockoutMinutes ELSE @]

LoginFails(u) ==
    /\ user[u].active
    /\ LET row == LockExpired(user[u])
       IN  /\ row.lockedUntil = None
           /\ user' = [user EXCEPT ![u] = FailedLogin(row)]
    /\ UNCHANGED <<now, session, principal>>

MayLogInAnytime(row) == TRUE

MayLogIn(row) == LockExpired(row).lockedUntil = None

(* _complete_successful_authentication, and the login dialog that takes the principal;
   authenticate_federated ends the same way. *)
LoginSucceeds(c, u, s) ==
    /\ user[u].active
    /\ MayLogIn(user[u])
    /\ session[s] = None
    /\ principal[c] = None
    /\ LET expires == now + user[u].timeout
       IN  /\ user' = [user EXCEPT ![u] = [Unlocked(@) EXCEPT !.expires = expires,
                                                              !.activeSession = s]]
           /\ session' = [session EXCEPT ![s] = [user |-> u, revision |-> user[u].revision,
                                                 expires |-> expires, revoked |-> FALSE]]
    /\ principal' = [principal EXCEPT ![c] = BuildPrincipal(user', session', u, None)]
    /\ UNCHANGED now

Logout(c) == /\ principal[c] # None
             /\ principal' = [principal EXCEPT ![c] = None]
             /\ UNCHANGED <<now, user, session>>

(* worker_service_scope: a background worker starts with the principal of its window. *)
CopyPrincipal(c, d) == /\ c # d
                       /\ principal[c] # None
                       /\ principal' = [principal EXCEPT ![d] = principal[c]]
                       /\ UNCHANGED <<now, user, session>>

-----------------------------------------------------------------------------
(* Administration.  c is the client that performs the operation, or None. *)

Actor(c) == c # None => Valid(c)

Write(c, u, users, sessions) == /\ user' = users
                                /\ session' = sessions
                                /\ principal' = Refreshed(users, sessions, c, u)
                                /\ UNCHANGED now

(* _revoke_all_persisted_sessions *)
AllRevoked(u) == [s \in Sessions |-> IF session[s] # None /\ session[s].user = u
                                     THEN [session[s] EXCEPT !.revoked = TRUE]
                                     ELSE session[s]]

(* _rotate_session_revision *)
Rotated(row) == [row EXCEPT !.revision = @ + 1]

(* change_password by the account itself, reset_user_password by an administrator *)
ChangePassword(c, u) ==
    /\ Actor(c)
    /\ user[u].revision < MaxRevision
    /\ Write(c, u, [user EXCEPT ![u] = [Rotated(@) EXCEPT !.expires = now + user[u].timeout]],
             AllRevoked(u))

SetUserSessionPolicy(c, u, timeout) ==
    /\ Actor(c)
    /\ user[u].revision < MaxRevision
    /\ Write(c, u, [user EXCEPT ![u] = [Rotated(@) EXCEPT !.timeout = timeout,
                                                          !.expires = now + timeout]],
             AllRevoked(u))

RevokeUserSessions(c, u) ==
    /\ Actor(c)
    /\ user[u].revision < MaxRevision
    /\ Write(c, u, [user EXCEPT ![u] = [Rotated(@) EXCEPT !.expires = now]], AllRevoked(u))

RevokeSession(c, s) ==
    /\ Actor(c)
    /\ session[s] # None
    /\ Write(c, session[s].user, user, [session EXCEPT ![s].revoked = TRUE])

SetUserActive(c, u, active) ==
    /\ Actor(c)
    /\ Write(c, u, [user EXCEPT ![u].active = active], session)

UnlockKeepingCounter(c, u) ==
    /\ Actor(c)
    /\ Write(c, u, [user EXCEPT ![u].lockedUntil = None], session)

UnlockUserAccount(c, u) ==
    /\ Actor(c)
    /\ Write(c, u, [user EXCEPT ![u] = Unlocked(@)], session)

(* The profile, identity and second-factor operations write columns that are not
   modelled and refresh the acting client. *)
UpdateUserProfile(c, u) == /\ Actor(c)
                           /\ Write(c, u, user, session)

(* A change of scoped access refreshes the acting client without naming its session. *)
ScopedAccessChanged(c) ==
    /\ c # None /\ Actor(c)
    /\ principal' = [principal EXCEPT ![c] = BuildPrincipal(user, session, @.user, None)]
    /\ UNCHANGED <<now, user, session>>

Tick == /\ now < MaxTime
        /\ now' = now + 1
        /\ UNCHANGED <<user, session, principal>>

LoginNext == \/ \E u \in Users : LoginFails(u)
             \/ \E c \in Clients, u \in Users, s \in Sessions : LoginSucceeds(c, u, s)
             \/ \E c \in Clients : Logout(c) \/ Check(c)
             \/ \E c, d \in Clients : CopyPrincipal(c, d)

AdministrationNext == \E c \in Clients \cup {None} :
    \/ \E u \in Users : \/ ChangePassword(c, u)
                        \/ RevokeUserSessions(c, u)
                        \/ UnlockUserAccount(c, u)
                        \/ UpdateUserProfile(c, u)
    \/ \E u \in Users, timeout \in Timeouts : SetUserSessionPolicy(c, u, timeout)
    \/ \E u \in Users, active \in BOOLEAN : SetUserActive(c, u, active)
    \/ \E s \in Sessions : RevokeSession(c, s)
    \/ ScopedAccessChanged(c)

Next == Tick \/ LoginNext \/ AdministrationNext

Spec == Init /\ [][Next]_vars

-----------------------------------------------------------------------------
(* LockFollowsCounter: an account carries a lock exactly when its counter has reached the
   threshold, however failures, successes, expiries and administrators take turns: a
   counter that outlives its lock would lock the account at the next mistake, a lock
   without a counter would come too early. *)
LockFollowsCounter ==
    TypeOK /\ \A u \in Users : user[u].lockedUntil # None <=> user[u].failed >= Threshold

(* LockHolds: while the lock lasts no login of any kind succeeds, and only an
   administrator changes the counter or moves the end of the lock. *)
LockHolds ==
    [][\A u \in Users :
          user[u].lockedUntil # None /\ now < user[u].lockedUntil
          => /\ user'[u].activeSession = user[u].activeSession
             /\ \/ user'[u].lockedUntil = user[u].lockedUntil
                \/ \E c \in Clients \cup {None} : UnlockUserAccount(c, u)]_vars

(* RotationReachesClients: after the sessions of an account were invalidated, by a new
   password, a policy or a revocation, no client of it but the acting one passes its
   next check, whichever login its principal came from. *)
RotationReachesClients ==
    [][\A c \in Clients :
          /\ principal[c] # None /\ principal'[c] = principal[c]
          /\ user'[principal[c].user].revision # user[principal[c].user].revision
          => ~Valid(c)']_vars
=============================================================================
