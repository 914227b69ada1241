------------------------------ MODULE Sessions ------------------------------
(***************************************************************************)
(* Logging in and what a session allows.  A login reads the user's row,    *)
(* takes its time over the password, writes the session into Redis and has *)
(* its audit entry committed once the response has left.  The session is a *)
(* copy of the user's id and role with a time to live of its own; a        *)
(* request that presents it is believed without a look at the users table. *)
(* What administrators and users then change of that table (Accounts)      *)
(* reaches a session only when it ends.                                    *)
(***************************************************************************)
EXTENDS Accounts, Naturals

CONSTANTS
    Root,        \* the administrator scripts/seed_admin.py creates
    Logins,      \* the login requests; each has a session token of its own
    SessionTtl   \* settings.session_ttl_seconds, in ticks of the clock

ASSUME SessionConstants ==
    Root \in Users /\ "admin" \in Roles /\ SessionTtl \in Nat \ {0}

VARIABLES
    login,       \* login request -> where it stands, and the row it read
    left,        \* login -> the ticks its Redis entry has left, 0 for none
    by,          \* request -> whom its session resolved to, None before that
    audit,       \* the logins with a committed "login" entry
    since,       \* login -> ticks since its session last agreed with the
                 \* user's row, up to SessionTtl + 1
    late         \* logins whose session no longer agreed when it was written
                 \* (since and late are history variables)

sessionVars == <<users, edits, login, left, by, audit, since, late>>

IdleLogin == [pc |-> "idle", user |-> None, role |-> None, pw |-> None]

RefusedLogin == [IdleLogin EXCEPT !.pc = "refused"]

SessionsInit ==
    /\ \E pw \in Passwords :
          users = [u \in Users |->
                      IF u = Root
                      THEN [role |-> "admin", status |-> "active", deleted_at |-> "null", pw |-> pw]
                      ELSE NoUser]
    /\ edits = [e \in Edits |-> IdleEdit]
    /\ login = [l \in Logins |-> IdleLogin]
    /\ left = [l \in Logins |-> 0]
    /\ by = [e \in Edits |-> None]
    /\ audit = {}
    /\ since = [l \in Logins |-> 0]
    /\ late = {}

Alive(l) == left[l] > 0

(* The session says what the row says, and the row would let the user in. *)
Agrees(l) ==
    LET s == login[l] IN
    s.user # None /\ Usable(s.user) /\ users[s.user].role = s.role /\ users[s.user].pw = s.pw

-----------------------------------------------------------------------------
(* login. *)

(* The row is read and the password verified against the hash it holds. *)
LoginCheck(l, u, pw) ==
    /\ login[l].pc = "idle"
    /\ Usable(u) /\ users[u].pw = pw
    /\ login' = [login EXCEPT ![l] = [pc |-> "checked", user |-> u, role |-> users[u].role, pw |-> pw]]
    /\ UNCHANGED <<users, edits, left, by, audit, since, late>>

(* No such user, not usable, or the wrong password.  The login_failed      *)
(* entry is added to the request's database session, which is rolled back  *)
(* because the handler then raises.                                        *)
LoginRefused(l) ==
    /\ login[l].pc = "idle"
    /\ login' = [login EXCEPT ![l] = RefusedLogin]
    /\ UNCHANGED <<users, edits, left, by, audit, since, late>>

(* create_session; the response with the cookie leaves.                    *)
(* LoginStoreLong is not the code: it takes the seconds for minutes.       *)
LoginStoreLong(l) ==
    /\ login[l].pc = "checked"
    /\ login' = [login EXCEPT ![l].pc = "stored"]
    /\ left' = [left EXCEPT ![l] = 60 * SessionTtl]
    /\ late' = IF Agrees(l) THEN late ELSE late \cup {l}
    /\ UNCHANGED <<users, edits, by, audit, since>>

LoginStore(l) ==
    /\ login[l].pc = "checked"
    /\ login' = [login EXCEPT ![l].pc = "stored"]
    /\ left' = [left EXCEPT ![l] = SessionTtl]
    /\ late' = IF Agrees(l) THEN late ELSE late \cup {l}
    /\ UNCHANGED <<users, edits, by, audit, since>>

LoginCommit(l) ==
    /\ login[l].pc = "stored"
    /\ login' = [login EXCEPT ![l].pc = "in"]
    /\ audit' = audit \cup {l}
    /\ UNCHANGED <<users, edits, left, by, since, late>>

(* A store does not answer, or the process dies: a session already written *)
(* stays.                                                                  *)
LoginFails(l) ==
    /\ login[l].pc \in {"checked", "stored"}
    /\ login' = [login EXCEPT ![l].pc = "failed"]
    /\ UNCHANGED <<users, edits, left, by, audit, since, late>>

-----------------------------------------------------------------------------
(* Requests that present a session. *)

(* A request that only reads.                                              *)
(* UseExtending is not the code: it renews the session (extend_session).   *)
UseExtending(l) ==
    /\ Alive(l)
    /\ left' = [left EXCEPT ![l] = SessionTtl]
    /\ UNCHANGED <<users, edits, login, by, audit, since, late>>

Use(l) == Alive(l) /\ UNCHANGED sessionVars

Logout(l) ==
    /\ Alive(l)
    /\ left' = [left EXCEPT ![l] = 0]
    /\ UNCHANGED <<users, edits, login, by, audit, since, late>>

(* require_session: the token is looked up, and the CSRF token found to be *)
(* the session's.                                                          *)
Authenticate(e, l) ==
    /\ edits[e] = IdleEdit /\ by[e] = None
    /\ Alive(l)
    /\ by' = [by EXCEPT ![e] = [user |-> login[l].user, role |-> login[l].role]]
    /\ UNCHANGED <<users, edits, login, left, audit, since, late>>

Served(e) ==
    /\ by' = [by EXCEPT ![e] = None]
    /\ UNCHANGED <<login, left, audit, since, late>>

AdminRequest(e) ==
    /\ by[e] # None /\ by[e].role = "admin"
    /\ \E u \in Users :
          \/ CreateUser(e, u) \/ PatchUser(e, u) \/ DeleteUser(e, u)
          \/ \E pw \in Passwords : ResetPassword(e, u, pw)
    /\ Served(e)

OwnRequest(e) ==
    /\ by[e] # None
    /\ \E old, pw \in Passwords : ChangePassword(e, by[e].user, old, pw)
    /\ Served(e)

(* The role does not suffice, the old password is wrong, or a call fails. *)
Turned(e) == by[e] # None /\ Served(e) /\ UNCHANGED <<users, edits>>

-----------------------------------------------------------------------------
(* A commit to the users table may make a session agree with it again. *)
Recount == since' = [l \in Logins |-> IF Agrees(l)' THEN 0 ELSE since[l]]

SessionTick ==
    /\ left' = [l \in Logins |-> IF Alive(l) THEN left[l] - 1 ELSE 0]
    /\ since' = [l \in Logins |-> IF ~ Alive(l) \/ Agrees(l) THEN 0
                                  ELSE IF since[l] > SessionTtl THEN since[l] ELSE since[l] + 1]
    /\ UNCHANGED <<users, edits, login, by, audit, late>>

LoginStep(l) ==
    \/ \E u \in Users, pw \in Passwords : LoginCheck(l, u, pw)
    \/ LoginRefused(l) \/ LoginStore(l) \/ LoginCommit(l) \/ LoginFails(l)

RequestStep(e) ==
    \/ \E l \in Logins : Authenticate(e, l)
    \/ AdminRequest(e) \/ OwnRequest(e) \/ Turned(e)
    \/ EditCommit(e) /\ UNCHANGED <<login, left, by, audit, late>> /\ Recount
    \/ EditFails(e) /\ UNCHANGED <<login, left, by, audit, since, late>>

SessionsNext ==
    \/ \E l \in Logins : LoginStep(l) \/ Use(l) \/ Logout(l)
    \/ \E e \in Edits : RequestStep(e)
    \/ SessionTick

SessionsSpec == SessionsInit /\ [][SessionsNext]_sessionVars

FairSessionsSpec == SessionsSpec /\ WF_sessionVars(SessionTick)

-----------------------------------------------------------------------------
(* Properties. *)

SessionsTypeOK ==
    /\ AccountsTypeOK
    /\ login \in [Logins -> [pc : {"idle", "checked", "refused", "stored", "in", "failed"},
                             user : Users \cup {None}, role : Roles \cup {None},
                             pw : Passwords \cup {None}]]
    /\ left \in [Logins -> 0 .. SessionTtl]
    /\ by \in [Edits -> [user : Users, role : Roles] \cup {None}]
    /\ audit \subseteq Logins
    /\ since \in [Logins -> 0 .. SessionTtl + 1]
    /\ late \subseteq Logins

(* Whatever is done to an account (suspended, deleted, given another role  *)
(* or another password), a session opened before goes on for one lifetime  *)
(* at most, counted from that moment, unless its login was overtaken by    *)
(* the change: using a session does not lengthen it.                       *)
SessionsDieInTime ==
    \A l \in Logins : Alive(l) /\ l \notin late => since[l] + left[l] <= SessionTtl

(* "assert user is not None" in auth.me and me.change_password: a session  *)
(* never outlives the row of its user, nor does a request under way.       *)
SessionHasItsUser ==
    /\ \A l \in Logins : Alive(l) => Known(login[l].user)
    /\ \A e \in Edits : by[e] # None => Known(by[e].user)

(* Every session comes to an end without anybody's doing. *)
SessionsEnd == \A l \in Logins : Alive(l) ~> ~ Alive(l)

(* "All login attempts written to audit log (success + failure)": one that *)
(* was refused has its entry.                                              *)
RefusedLoginsAudited == \A l \in Logins : login[l].pc = "refused" => l \in audit
=============================================================================
