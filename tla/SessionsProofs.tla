--------------------------- MODULE SessionsProofs ---------------------------
(***************************************************************************)
(* Sessions, for any number of users, logins and requests and any time to  *)
(* live: how long a session outlives what it was given for, that its user  *)
(* has a row, and that no request undoes a deletion.                       *)
(***************************************************************************)
EXTENDS Sessions, AccountsProofs

(* A session or a login about to write one has a user whose row is there,  *)
(* and before it is written nothing can be wrong with it.                  *)
LoginInv ==
    \A l \in Logins :
        /\ login[l].pc = "checked" \/ Alive(l) =>
              /\ login[l].user \in Users /\ login[l].role \in Roles
              /\ Known(login[l].user)
        /\ login[l].pc \in {"idle", "checked", "refused"} => left[l] = 0 /\ since[l] = 0

ByInv == \A e \in Edits : by[e] # None => Known(by[e].user)

SessionsInv ==
    /\ AccountsInv
    /\ SessionsTypeOK
    /\ LoginInv
    /\ ByInv
    /\ SessionsDieInTime

LEMMA SessionsInvInit == SessionsInit => SessionsInv
<1> SUFFICES ASSUME SessionsInit PROVE SessionsInv
  OBVIOUS
<1> USE SessionConstants, NoUserIsNoRow
<1>1. PICK pw \in Passwords :
          users = [u \in Users |->
                      IF u = Root
                      THEN [role |-> "admin", status |-> "active", deleted_at |-> "null", pw |-> pw]
                      ELSE NoUser]
  BY DEF SessionsInit
<1>2. [role |-> "admin", status |-> "active", deleted_at |-> "null", pw |-> pw] \in UserRows
  BY DEF UserRows, Statuses, Times
<1>3. users \in [Users -> UserRows \cup {NoUser}]
  BY <1>1, <1>2
<1>4. AccountsInv
  BY <1>3, AccountsInvInit DEF SessionsInit
<1>5. SessionsTypeOK
  <2>1. AccountsTypeOK
    BY <1>4 DEF AccountsInv
  <2>2. IdleLogin \in [pc : {"idle", "checked", "refused", "stored", "in", "failed"},
                       user : Users \cup {None}, role : Roles \cup {None}, pw : Passwords \cup {None}]
    BY DEF IdleLogin
  <2>3. 0 \in 0 .. SessionTtl /\ 0 \in 0 .. SessionTtl + 1
    OBVIOUS
  <2> QED BY <2>1, <2>2, <2>3 DEF SessionsInit, SessionsTypeOK
<1>6. LoginInv
  <2>1. IdleLogin.pc = "idle"
    BY DEF IdleLogin
  <2> QED BY <2>1 DEF SessionsInit, LoginInv, Alive
<1>7. ByInv /\ SessionsDieInTime
  BY DEF SessionsInit, ByInv, SessionsDieInTime, Alive
<1> QED BY <1>4, <1>5, <1>6, <1>7 DEF SessionsInv

(* Nothing but the login itself, the clock and a logout touches a session: *)
(* what is left of it can only shrink, and its count grows with the clock. *)
LEMMA SessionsShrink ==
    ASSUME SessionsInv, UNCHANGED login,
           users' = users \/ \E e \in Edits : EditCommit(e),
           AccountsTypeOK', AccountsInv',
           late' = late, audit' = audit,
           left' \in [Logins -> 0 .. SessionTtl], since' \in [Logins -> 0 .. SessionTtl + 1],
           \A l \in Logins : left'[l] <= left[l],
           \A l \in Logins : left[l] = 0 => since'[l] = 0 \/ since'[l] = since[l],
           \A l \in Logins : left'[l] > 0 => since'[l] = 0 \/ since'[l] + left'[l] <= since[l] + left[l],
           by' \in [Edits -> [user : Users, role : Roles] \cup {None}],
           \A e \in Edits : by'[e] # None => by'[e] = by[e] \/ Known(by'[e].user)
    PROVE  SessionsInv'
<1> USE SessionConstants
<1>1. \A u \in Users : Known(u) => Known(u)'
  BY CommitRespects DEF SessionsInv, Known
<1>2. SessionsTypeOK'
  BY DEF SessionsInv, SessionsTypeOK
<1>3. \A l \in Logins : Alive(l)' => Alive(l)
  BY DEF Alive, SessionsInv, SessionsTypeOK
<1>4. LoginInv'
  <2> SUFFICES ASSUME NEW l \in Logins
               PROVE  /\ login[l].pc = "checked" \/ Alive(l)' =>
                            /\ login[l].user \in Users /\ login[l].role \in Roles
                            /\ Known(login[l].user)'
                      /\ login[l].pc \in {"idle", "checked", "refused"} => left'[l] = 0 /\ since'[l] = 0
    BY DEF LoginInv, Alive, Known
  <2>1. login[l].pc = "checked" \/ Alive(l)' =>
            login[l].user \in Users /\ login[l].role \in Roles /\ Known(login[l].user)
    BY <1>3 DEF SessionsInv, LoginInv
  <2>2. login[l].pc \in {"idle", "checked", "refused"} => left[l] = 0 /\ since[l] = 0
    BY DEF SessionsInv, LoginInv
  <2>3. left[l] = 0 => left'[l] = 0
    BY DEF SessionsInv, SessionsTypeOK
  <2> QED BY <1>1, <2>1, <2>2, <2>3
<1>5. ByInv'
  <2> SUFFICES ASSUME NEW e \in Edits, by'[e] # None
               PROVE  users'[by'[e].user] # NoUser
    BY DEF ByInv, Known
  <2>1. by'[e].user \in Users
    OBVIOUS
  <2>2. users[by'[e].user] # NoUser
    BY DEF SessionsInv, ByInv, Known
  <2> QED BY <1>1, <2>1, <2>2 DEF Known
<1>6. SessionsDieInTime'
  <2> SUFFICES ASSUME NEW l \in Logins, left'[l] > 0, l \notin late
               PROVE  since'[l] + left'[l] <= SessionTtl
    BY DEF SessionsDieInTime, Alive
  <2>1. left[l] > 0 /\ left[l] \in Nat /\ since[l] \in Nat /\ left'[l] \in 0 .. SessionTtl /\ since'[l] \in Nat
    BY <1>3 DEF Alive, SessionsInv, SessionsTypeOK
  <2>2. since[l] + left[l] <= SessionTtl
    BY <2>1 DEF SessionsInv, SessionsDieInTime, Alive
  <2> QED BY <2>1, <2>2
<1> QED BY <1>2, <1>4, <1>5, <1>6 DEF SessionsInv

(* The type of what the sessions keep, apart from the logins themselves. *)
LEMMA SessionFacts ==
    ASSUME SessionsInv
    PROVE  /\ left \in [Logins -> 0 .. SessionTtl] /\ since \in [Logins -> 0 .. SessionTtl + 1]
           /\ by \in [Edits -> [user : Users, role : Roles] \cup {None}]
           /\ \A l \in Logins : left[l] \in Nat /\ since[l] \in Nat /\ left[l] <= left[l]
           /\ SessionTtl \in Nat \ {0} /\ AccountsInv
BY SessionConstants DEF SessionsInv, SessionsTypeOK

(* A login goes on: only its own record, and at LoginStore its session. *)
LEMMA LoginKeeps ==
    ASSUME SessionsInv, NEW l \in Logins, LoginStep(l)
    PROVE  SessionsInv'
<1> USE SessionFacts
<1>1. AccountsInv' /\ users' = users /\ edits' = edits /\ by' = by
  <2>1. UNCHANGED <<users, edits>> /\ by' = by
    BY DEF LoginStep, LoginCheck, LoginRefused, LoginStore, LoginCommit, LoginFails
  <2> QED BY <2>1, AccountsStutter
<1>2. ByInv'
  BY <1>1 DEF SessionsInv, ByInv, Known
<1>3. ASSUME NEW rec \in [pc : {"idle", "checked", "refused", "stored", "in", "failed"},
                          user : Users \cup {None}, role : Roles \cup {None},
                          pw : Passwords \cup {None}],
             login' = [login EXCEPT ![l] = rec], since' = since, late' \subseteq Logins,
             late \subseteq late', audit' \subseteq Logins,
             \/ left' = left
             \/ login[l].pc = "checked" /\ left' = [left EXCEPT ![l] = SessionTtl],
             rec.pc = "checked" \/ left'[l] > 0 =>
                rec.user \in Users /\ rec.role \in Roles /\ Known(rec.user),
             rec.pc \in {"idle", "checked", "refused"} => left'[l] = 0 /\ since[l] = 0
      PROVE  SessionsInv'
  <2>1. left' \in [Logins -> 0 .. SessionTtl] /\ AccountsTypeOK'
    BY <1>1, <1>3 DEF AccountsInv
  <2>2. SessionsTypeOK'
    BY <1>1, <1>3, <2>1 DEF SessionsInv, SessionsTypeOK
  <2>3. login'[l] = rec /\ \A k \in Logins \ {l} : login'[k] = login[k] /\ left'[k] = left[k]
    BY <1>3 DEF SessionsInv, SessionsTypeOK
  <2>4. LoginInv'
    BY <1>1, <1>3, <2>3 DEF SessionsInv, LoginInv, Alive, Known
  <2>5. SessionsDieInTime'
    <3> SUFFICES ASSUME NEW k \in Logins, left'[k] > 0, k \notin late'
                 PROVE  since[k] + left'[k] <= SessionTtl
      BY <1>3 DEF SessionsDieInTime, Alive
    <3>1. CASE left'[k] = left[k]
      BY <1>3, <3>1 DEF SessionsInv, SessionsDieInTime, Alive
    <3>2. CASE k = l /\ login[l].pc = "checked" /\ left' = [left EXCEPT ![l] = SessionTtl]
      <4>1. since[l] = 0 /\ left'[l] = SessionTtl
        BY <3>2 DEF SessionsInv, LoginInv
      <4> QED BY <3>2, <4>1
    <3> QED BY <1>3, <2>3, <3>1, <3>2
  <2> QED BY <1>1, <1>2, <2>2, <2>4, <2>5 DEF SessionsInv
<1>4. /\ login \in [Logins -> [pc : {"idle", "checked", "refused", "stored", "in", "failed"},
                             user : Users \cup {None}, role : Roles \cup {None},
                             pw : Passwords \cup {None}]]
      /\ late \subseteq Logins /\ audit \subseteq Logins
      /\ login[l].pc = "checked" \/ left[l] > 0 =>
            login[l].user \in Users /\ login[l].role \in Roles /\ Known(login[l].user)
      /\ login[l].pc \in {"idle", "checked", "refused"} => left[l] = 0 /\ since[l] = 0
  BY DEF SessionsInv, SessionsTypeOK, LoginInv, Alive
<1>5. ASSUME NEW u \in Users, NEW pw \in Passwords, LoginCheck(l, u, pw)
      PROVE  SessionsInv'
  <2> DEFINE rec == [pc |-> "checked", user |-> u, role |-> users[u].role, pw |-> pw]
  <2>1. /\ login' = [login EXCEPT ![l] = rec] /\ UNCHANGED <<left, since, late, audit>>
        /\ login[l].pc = "idle" /\ Known(u)
    BY <1>5 DEF LoginCheck, Usable
  <2>2. users[u].role \in Roles
    BY <2>1 DEF AccountsInv, AccountsTypeOK, UserRows, Known
  <2>3. rec \in [pc : {"idle", "checked", "refused", "stored", "in", "failed"},
                 user : Users \cup {None}, role : Roles \cup {None}, pw : Passwords \cup {None}]
    BY <2>2
  <2> QED BY <1>3, <1>4, <2>1, <2>2, <2>3
<1>6. CASE LoginRefused(l)
  <2>1. /\ login' = [login EXCEPT ![l] = RefusedLogin] /\ UNCHANGED <<left, since, late, audit>>
        /\ login[l].pc = "idle"
    BY <1>6 DEF LoginRefused
  <2>2. /\ RefusedLogin \in [pc : {"idle", "checked", "refused", "stored", "in", "failed"},
                             user : Users \cup {None}, role : Roles \cup {None},
                             pw : Passwords \cup {None}]
        /\ RefusedLogin.pc = "refused"
    BY DEF RefusedLogin, IdleLogin
  <2>3. left'[l] = 0 /\ since[l] = 0 /\ ~ left'[l] > 0 /\ RefusedLogin.pc # "checked"
    BY <1>4, <2>1, <2>2
  <2> HIDE DEF RefusedLogin
  <2> QED BY <1>3, <1>4, <2>1, <2>2, <2>3
<1>7. ASSUME NEW label \in {"stored", "in", "failed"},
             login' = [login EXCEPT ![l].pc = label], since' = since, late' \subseteq Logins,
             late \subseteq late', audit' \subseteq Logins,
             login[l].pc = "checked" \/ left' = left,
             left' = left \/ left' = [left EXCEPT ![l] = SessionTtl]
      PROVE  SessionsInv'
  <2> DEFINE rec == [login[l] EXCEPT !.pc = label]
  <2>1. /\ login' = [login EXCEPT ![l] = rec]
        /\ rec \in [pc : {"idle", "checked", "refused", "stored", "in", "failed"},
                     user : Users \cup {None}, role : Roles \cup {None}, pw : Passwords \cup {None}]
        /\ rec.pc = label /\ rec.user = login[l].user /\ rec.role = login[l].role
    BY <1>4, <1>7
  <2> HIDE DEF rec
  <2> QED BY <1>3, <1>4, <1>7, <2>1
<1>8. CASE LoginStore(l)
  BY <1>4, <1>7, <1>8 DEF LoginStore
<1>9. CASE LoginCommit(l)
  BY <1>4, <1>7, <1>9 DEF LoginCommit
<1>10. CASE LoginFails(l)
  BY <1>4, <1>7, <1>10 DEF LoginFails
<1> QED BY <1>5, <1>6, <1>8, <1>9, <1>10 DEF LoginStep

(* A request begins, commits or fails, and its session goes on as it was. *)
LEMMA RequestKeeps ==
    ASSUME SessionsInv, NEW e \in Edits, RequestStep(e)
    PROVE  SessionsInv'
<1> USE SessionFacts
<1>1. ASSUME NEW l \in Logins, Authenticate(e, l)
      PROVE  SessionsInv'
  <2> DEFINE rec == [user |-> login[l].user, role |-> login[l].role]
  <2>1. login[l].user \in Users /\ login[l].role \in Roles /\ Known(login[l].user)
    BY <1>1 DEF Authenticate, SessionsInv, LoginInv
  <2>2. /\ UNCHANGED <<users, edits, login, left, audit, since, late>>
        /\ by' = [by EXCEPT ![e] = rec]
    BY <1>1 DEF Authenticate
  <2>3. AccountsInv' /\ AccountsTypeOK'
    BY <2>2, AccountsStutter DEF AccountsInv
  <2>4. /\ rec \in [user : Users, role : Roles] /\ Known(rec.user)
        /\ by'[e] = rec /\ \A f \in Edits \ {e} : by'[f] = by[f]
    BY <2>1, <2>2
  <2> HIDE DEF rec
  <2>5. /\ by' \in [Edits -> [user : Users, role : Roles] \cup {None}]
        /\ \A f \in Edits : by'[f] # None => by'[f] = by[f] \/ Known(by'[f].user)
    BY <2>2, <2>4
  <2> QED BY <2>2, <2>3, <2>5, SessionsShrink
<1>2. ASSUME by' = by \/ by' = [by EXCEPT ![e] = None], UNCHANGED <<login, left, audit, late>>,
             \A l \in Logins : since'[l] = 0 \/ since'[l] = since[l],
             since' = [l \in Logins |-> since'[l]],
             \/ UNCHANGED <<users, edits>> \/ EditCommit(e) \/ EditFails(e) \/ EditBegin(e)
      PROVE  SessionsInv'
  <2>1. AccountsInv' /\ AccountsTypeOK' /\ (users' = users \/ EditCommit(e))
    BY <1>2, AccountsStutter, EditKeeps, BeginLeavesUsers DEF AccountsInv
  <2>2. /\ by' \in [Edits -> [user : Users, role : Roles] \cup {None}]
        /\ \A f \in Edits : by'[f] # None => by'[f] = by[f]
    BY <1>2
  <2>3. since' \in [Logins -> 0 .. SessionTtl + 1]
    BY <1>2
  <2> QED BY <1>2, <2>1, <2>2, <2>3, SessionsShrink
<1>3. since = [l \in Logins |-> since[l]]
  OBVIOUS
<1>4. CASE AdminRequest(e)
  <2>1. EditBegin(e) /\ Served(e)
    BY <1>4 DEF AdminRequest, EditBegin
  <2> QED BY <1>2, <1>3, <2>1 DEF Served
<1>5. CASE OwnRequest(e)
  <2>1. by[e].user \in Users
    BY <1>5 DEF OwnRequest
  <2>2. EditBegin(e) /\ Served(e)
    BY <1>5, <2>1 DEF OwnRequest, EditBegin
  <2> QED BY <1>2, <1>3, <2>2 DEF Served
<1>6. CASE Turned(e)
  BY <1>2, <1>3, <1>6 DEF Turned, Served
<1>7. CASE EditCommit(e) /\ UNCHANGED <<login, left, by, audit, late>> /\ Recount
  BY <1>2, <1>7 DEF Recount
<1>8. CASE EditFails(e) /\ UNCHANGED <<login, left, by, audit, since, late>>
  BY <1>2, <1>3, <1>8
<1> QED BY <1>1, <1>4, <1>5, <1>6, <1>7, <1>8 DEF RequestStep

(* A logout, the clock and a request that only reads. *)
LEMMA ClockKeeps ==
    ASSUME SessionsInv,
           SessionTick \/ UNCHANGED sessionVars \/ \E l \in Logins : Use(l) \/ Logout(l)
    PROVE  SessionsInv'
<1> USE SessionFacts
<1>1. UNCHANGED <<users, edits, login, by, audit, late>>
  BY DEF SessionTick, Use, Logout, sessionVars
<1>2. AccountsInv' /\ AccountsTypeOK'
  BY <1>1, AccountsStutter DEF AccountsInv
<1>3. CASE SessionTick
  <2>1. left' \in [Logins -> 0 .. SessionTtl] /\ \A l \in Logins : left'[l] <= left[l]
    BY <1>3 DEF SessionTick, Alive
  <2>2. since' \in [Logins -> 0 .. SessionTtl + 1]
    BY <1>3 DEF SessionTick
  <2>3. \A l \in Logins : left[l] = 0 => since'[l] = 0
    BY <1>3 DEF SessionTick, Alive
  <2>4. ASSUME NEW l \in Logins, left'[l] > 0
        PROVE  since'[l] = 0 \/ since'[l] + left'[l] <= since[l] + left[l]
    <3>1. left[l] > 0 /\ left'[l] = left[l] - 1 /\ since'[l] \in {0, since[l], since[l] + 1}
      BY <1>3, <2>4 DEF SessionTick, Alive
    <3> QED BY <3>1
  <2> QED BY <1>1, <1>2, <2>1, <2>2, <2>3, <2>4, SessionsShrink
<1>4. CASE UNCHANGED sessionVars \/ \E l \in Logins : Use(l) \/ Logout(l)
  <2>1. /\ left' \in [Logins -> 0 .. SessionTtl] /\ since' = since
        /\ \A l \in Logins : left'[l] <= left[l]
    BY <1>4 DEF Use, Logout, sessionVars
  <2> QED BY <1>1, <1>2, <2>1, SessionsShrink
<1> QED BY <1>3, <1>4

LEMMA SessionsStep == SessionsInv /\ [SessionsNext]_sessionVars => SessionsInv'
<1> SUFFICES ASSUME SessionsInv, [SessionsNext]_sessionVars
             PROVE  SessionsInv'
  OBVIOUS
<1>1. ASSUME NEW l \in Logins, LoginStep(l) \/ Use(l) \/ Logout(l)
      PROVE  SessionsInv'
  BY <1>1, LoginKeeps, ClockKeeps
<1>2. ASSUME NEW e \in Edits, RequestStep(e)
      PROVE  SessionsInv'
  BY <1>2, RequestKeeps
<1>3. CASE SessionTick \/ UNCHANGED sessionVars
  BY <1>3, ClockKeeps
<1> QED BY <1>1, <1>2, <1>3 DEF SessionsNext

(* The inductive invariant of the sessions. *)
THEOREM SessionsInvariant == SessionsSpec => []SessionsInv
BY SessionsInvInit, SessionsStep, PTL DEF SessionsSpec

(* Every variable of the logins, the sessions and the requests keeps its   *)
(* type; in particular no session has more than its time to live left.     *)
THEOREM SessionsTypeCorrect == SessionsSpec => []SessionsTypeOK
<1>1. SessionsInv => SessionsTypeOK
  BY DEF SessionsInv
<1> QED BY <1>1, SessionsInvariant, PTL

(* require_session never writes the entry again: a session that an account *)
(* no longer agrees with is gone after one time to live.                   *)
THEOREM SessionsDie == SessionsSpec => []SessionsDieInTime
<1>1. SessionsInv => SessionsDieInTime
  BY DEF SessionsInv
<1> QED BY <1>1, SessionsInvariant, PTL

(* The assertion of auth.me and me.change_password: soft_delete leaves the *)
(* row, so the user of a live session has one.                             *)
THEOREM UserIsThere == SessionsSpec => []SessionHasItsUser
<1>1. SessionsInv => SessionHasItsUser
  BY DEF SessionsInv, LoginInv, ByInv, SessionHasItsUser
<1> QED BY <1>1, SessionsInvariant, PTL

(* patch_user writes the columns it changed and no others: a deletion that *)
(* was committed after it read the row stays.                              *)
THEOREM DeletedForGood == SessionsSpec => DeletionIsFinal
<1>1. ASSUME SessionsInv, [SessionsNext]_sessionVars
      PROVE  [\A u \in Users : Known(u) /\ Deleted(u) => Known(u)' /\ Deleted(u)']_users
  <2>1. AccountsInv
    BY <1>1 DEF SessionsInv
  <2>2. users' = users \/ \E e \in Edits : EditCommit(e)
    <3>1. ASSUME NEW l \in Logins, LoginStep(l) \/ Use(l) \/ Logout(l)
          PROVE  users' = users
      BY <3>1 DEF LoginStep, LoginCheck, LoginRefused, LoginStore, LoginCommit, LoginFails,
                  Use, Logout, sessionVars
    <3>2. ASSUME NEW e \in Edits, RequestStep(e), ~ EditCommit(e)
          PROVE  users' = users
      BY <3>2 DEF RequestStep, Authenticate, AdminRequest, OwnRequest, Turned, EditFails,
                  CreateUser, PatchUser, DeleteUser, ResetPassword, ChangePassword, Want
    <3>3. CASE SessionTick \/ UNCHANGED sessionVars
      BY <3>3 DEF SessionTick, sessionVars
    <3> QED BY <1>1, <3>1, <3>2, <3>3 DEF SessionsNext
  <2> QED BY <2>1, <2>2, CommitRespects
<1>2. SessionsInv /\ [SessionsNext]_sessionVars
        => [\A u \in Users : Known(u) /\ Deleted(u) => Known(u)' /\ Deleted(u)']_users
  BY <1>1
<1> QED BY <1>2, SessionsInvariant, PTL DEF SessionsSpec, DeletionIsFinal
=============================================================================
