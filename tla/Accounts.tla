------------------------------ MODULE Accounts ------------------------------
(***************************************************************************)
(* The users table and the requests that change it: an administrator's     *)
(* create_user, patch_user, delete_user and admin_reset_password, and a    *)
(* user's own change_password.  Each is one transaction: it reads its row, *)
(* and the columns it changed are committed by get_session when the        *)
(* request is torn down, other requests having read and committed in       *)
(* between.  Who may send these requests is the concern of Sessions.       *)
(***************************************************************************)
CONSTANTS
    Users,       \* the user ids uuid4 may hand out
    NoUser,      \* what session.get returns when there is no such row
    None,
    Roles,       \* what users.role may hold
    Passwords,   \* a password_hash stands for the password it was made from
    Edits        \* the requests that may be under way at once

VARIABLES
    users,       \* the users table: user id -> its committed row, or NoUser
    edits        \* request -> the row it works on and the columns it changed

Statuses == {"active", "suspended"}

Times == {"null", "set"}

UserRows == [role : Roles, status : Statuses, deleted_at : Times, pw : Passwords]

ASSUME NoUserIsNoRow ==
    /\ NoUser \notin UserRows
    /\ None \notin Users \cup Roles \cup Statuses \cup Times \cup Passwords

(* What a transaction has changed of a row; None where it left the column. *)
Changes ==
    [role : Roles \cup {None}, status : Statuses \cup {None},
     deleted_at : Times \cup {None}, pw : Passwords \cup {None}]

NoChange == [role |-> None, status |-> None, deleted_at |-> None, pw |-> None]

IdleEdit == [user |-> None, set |-> NoChange]

AccountsInit ==
    /\ users = [u \in Users |-> NoUser]
    /\ edits = [e \in Edits |-> IdleEdit]

Known(u) == users[u] # NoUser

Deleted(u) == users[u].deleted_at # "null"

(* What authentication asks of a user's row. *)
Usable(u) == Known(u) /\ users[u].status = "active" /\ ~ Deleted(u)

Want(e, u, set) ==
    /\ edits[e] = IdleEdit
    /\ edits' = [edits EXCEPT ![e] = [user |-> u, set |-> set]]
    /\ UNCHANGED users

(* A column given the value it already had counts as unchanged.            *)
(* ChangedWhole is not the code: it takes every column for changed.        *)
ChangedWhole(row, role, status) ==
    [role |-> role, status |-> status, deleted_at |-> row.deleted_at, pw |-> row.pw]

Changed(row, role, status) ==
    [role |-> IF role = row.role THEN None ELSE role,
     status |-> IF status = row.status THEN None ELSE status,
     deleted_at |-> None, pw |-> None]

CreateUser(e, u) ==
    /\ ~ Known(u) /\ \A f \in Edits : edits[f].user # u
    /\ \E role \in Roles, pw \in Passwords :
          Want(e, u, [role |-> role, status |-> "active", deleted_at |-> "null", pw |-> pw])

(* Either field may be left out of the body, and keeps its value. *)
PatchUser(e, u) ==
    /\ Known(u) /\ ~ Deleted(u)
    /\ \E role \in Roles, status \in Statuses : Want(e, u, Changed(users[u], role, status))

(* Deleting again, or nobody, is answered alike and changes nothing. *)
DeleteUser(e, u) ==
    Want(e, u, IF Known(u) /\ ~ Deleted(u) THEN [NoChange EXCEPT !.deleted_at = "set"] ELSE NoChange)

(* A new hash has a new salt, and differs from the old one whatever the    *)
(* password.                                                               *)
ResetPassword(e, u, pw) ==
    Want(e, u, IF Known(u) THEN [NoChange EXCEPT !.pw = pw] ELSE NoChange)

ChangePassword(e, u, old, pw) ==
    /\ Known(u) /\ users[u].pw = old
    /\ Want(e, u, [NoChange EXCEPT !.pw = pw])

EditBegin(e) ==
    \E u \in Users :
        \/ CreateUser(e, u) \/ PatchUser(e, u) \/ DeleteUser(e, u)
        \/ \E pw \in Passwords : ResetPassword(e, u, pw)
        \/ \E old, pw \in Passwords : ChangePassword(e, u, old, pw)

(* The row as the UPDATE of the changed columns leaves it. *)
Kept(old, new) == IF new = None THEN old ELSE new

Saved(row, set) ==
    [role |-> Kept(row.role, set.role), status |-> Kept(row.status, set.status),
     deleted_at |-> Kept(row.deleted_at, set.deleted_at), pw |-> Kept(row.pw, set.pw)]

(* WrittenRemoving is not the code: a deletion takes the row away.         *)
WrittenRemoving(u, set) ==
    IF set.deleted_at = "set" \/ (~ Known(u) /\ set = NoChange) THEN NoUser
    ELSE IF Known(u) THEN Saved(users[u], set) ELSE set

Written(u, set) ==
    IF Known(u) THEN Saved(users[u], set) ELSE IF set = NoChange THEN NoUser ELSE set

EditCommit(e) ==
    LET t == edits[e] IN
    /\ t # IdleEdit
    /\ users' = [users EXCEPT ![t.user] = Written(t.user, t.set)]
    /\ edits' = [edits EXCEPT ![e] = IdleEdit]

(* The request fails, or its process dies, and the transaction rolls back. *)
EditFails(e) ==
    /\ edits[e] # IdleEdit
    /\ edits' = [edits EXCEPT ![e] = IdleEdit]
    /\ UNCHANGED users

-----------------------------------------------------------------------------
(* Properties. *)

AccountsTypeOK ==
    /\ users \in [Users -> UserRows \cup {NoUser}]
    /\ edits \in [Edits -> [user : Users \cup {None}, set : Changes]]

(* A user once deleted stays deleted, whatever administrators do at the    *)
(* same time: a patch that read the row before the deletion was committed  *)
(* and is committed after it must not bring the user back.                 *)
DeletionIsFinal == [][\A u \in Users : Known(u) /\ Deleted(u) => Known(u)' /\ Deleted(u)']_users
=============================================================================
