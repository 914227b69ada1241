--------------------------- MODULE AccountsProofs ---------------------------
(***************************************************************************)
(* What the users table keeps to, whoever changes it: the facts Sessions   *)
(* and ApiKeys build on, for any number of users and requests.             *)
(***************************************************************************)
EXTENDS Accounts, TLAPS

(* A request that has something to write either inserts a row, for an id   *)
(* nobody else works on, or changes columns of a row that is there; and    *)
(* none of them takes a deletion back.                                     *)
Inserts(e) ==
    /\ ~ Known(edits[e].user) /\ edits[e].set \in UserRows
    /\ \A f \in Edits \ {e} : edits[f].user = edits[e].user => edits[f].set = NoChange

Updates(e) == Known(edits[e].user) /\ edits[e].set.deleted_at \in {None, "set"}

EditInv ==
    \A e \in Edits : edits[e] # IdleEdit =>
        /\ edits[e].user \in Users
        /\ edits[e].set = NoChange \/ Inserts(e) \/ Updates(e)

AccountsInv == AccountsTypeOK /\ EditInv

(* NoChange is one of the changes, a row is another, and a user id is not None. *)
LEMMA ChangesFacts ==
    /\ NoChange \in Changes /\ NoChange.deleted_at = None /\ NoChange \notin UserRows
    /\ UserRows \subseteq Changes
    /\ IdleEdit \in [user : Users \cup {None}, set : Changes]
    /\ IdleEdit.user = None /\ IdleEdit.set = NoChange /\ None \notin Users
BY NoUserIsNoRow DEF NoChange, Changes, UserRows, Statuses, Times, IdleEdit

(* The table with a user or none and nobody at work. *)
LEMMA AccountsInvInit ==
    ASSUME users \in [Users -> UserRows \cup {NoUser}], edits = [e \in Edits |-> IdleEdit]
    PROVE  AccountsInv
BY ChangesFacts DEF AccountsInv, AccountsTypeOK, EditInv

(* A request begins: it joins those at work, and disturbs none of them. *)
LEMMA WantKeeps ==
    ASSUME AccountsInv, NEW e \in Edits, NEW u \in Users, NEW set \in Changes, Want(e, u, set),
           \/ set = NoChange
           \/ Known(u) /\ set.deleted_at \in {None, "set"}
           \/ ~ Known(u) /\ set \in UserRows /\ \A f \in Edits : edits[f].user # u
    PROVE  AccountsInv'
<1>1. /\ users' = users /\ edits[e] = IdleEdit
      /\ edits' = [edits EXCEPT ![e] = [user |-> u, set |-> set]]
      /\ edits \in [Edits -> [user : Users \cup {None}, set : Changes]]
  BY DEF Want, AccountsInv, AccountsTypeOK
<1>2. AccountsTypeOK'
  BY <1>1 DEF AccountsInv, AccountsTypeOK
<1>3. edits'[e].user = u /\ edits'[e].set = set /\ \A f \in Edits \ {e} : edits'[f] = edits[f]
  BY <1>1
<1>4. ASSUME NEW f \in Edits, edits'[f] # IdleEdit
      PROVE  /\ edits'[f].user \in Users
             /\ edits'[f].set = NoChange \/ Inserts(f)' \/ Updates(f)'
  <2>1. CASE f = e
    BY <1>1, <1>3, <2>1 DEF Inserts, Updates, Known
  <2>2. CASE f # e
    <3>1. /\ edits[f].user \in Users
          /\ edits[f].set = NoChange \/ Inserts(f) \/ Updates(f)
      BY <1>3, <1>4, <2>2 DEF AccountsInv, EditInv
    <3>2. CASE edits[f].set = NoChange
      BY <1>3, <2>2, <3>1, <3>2
    <3>3. CASE Updates(f)
      BY <1>1, <1>3, <2>2, <3>1, <3>3 DEF Updates, Known
    <3>4. CASE Inserts(f)
      <4>1. u = edits[f].user => set = NoChange
        BY <3>4 DEF Inserts
      <4>2. Inserts(f)'
        BY <1>1, <1>3, <2>2, <3>4, <4>1 DEF Inserts, Known
      <4> QED BY <1>3, <2>2, <3>1, <4>2
    <3> QED BY <3>1, <3>2, <3>3, <3>4
  <2> QED BY <2>1, <2>2
<1> QED BY <1>2, <1>4 DEF AccountsInv, EditInv

(* Each of the requests begins that way. *)
LEMMA CreateKeeps ==
    ASSUME AccountsInv, NEW e \in Edits, NEW u \in Users, CreateUser(e, u)
    PROVE  AccountsInv'
<1>1. PICK role \in Roles, pw \in Passwords :
          Want(e, u, [role |-> role, status |-> "active", deleted_at |-> "null", pw |-> pw])
  BY DEF CreateUser
<1>2. [role |-> role, status |-> "active", deleted_at |-> "null", pw |-> pw] \in UserRows
  BY DEF UserRows, Statuses, Times
<1> QED BY <1>1, <1>2, ChangesFacts, WantKeeps DEF CreateUser

LEMMA PatchKeeps ==
    ASSUME AccountsInv, NEW e \in Edits, NEW u \in Users, PatchUser(e, u)
    PROVE  AccountsInv'
<1>1. PICK role \in Roles, status \in Statuses : Want(e, u, Changed(users[u], role, status))
  BY DEF PatchUser
<1>2. /\ Changed(users[u], role, status) \in Changes
      /\ Changed(users[u], role, status).deleted_at = None
  BY ChangesFacts DEF Changed, Changes, NoChange
<1> QED BY <1>1, <1>2, WantKeeps DEF PatchUser

LEMMA DeleteKeeps ==
    ASSUME AccountsInv, NEW e \in Edits, NEW u \in Users, DeleteUser(e, u)
    PROVE  AccountsInv'
<1>1. CASE Known(u) /\ ~ Deleted(u)
  <2>1. /\ [NoChange EXCEPT !.deleted_at = "set"] \in Changes
        /\ [NoChange EXCEPT !.deleted_at = "set"].deleted_at = "set"
    BY DEF Changes, NoChange, Times
  <2> QED BY <1>1, <2>1, WantKeeps DEF DeleteUser
<1>2. CASE ~ (Known(u) /\ ~ Deleted(u))
  BY <1>2, ChangesFacts, WantKeeps DEF DeleteUser
<1> QED BY <1>1, <1>2

LEMMA PasswordKeeps ==
    ASSUME AccountsInv, NEW e \in Edits, NEW u \in Users, NEW pw \in Passwords,
           ResetPassword(e, u, pw) \/ \E old \in Passwords : ChangePassword(e, u, old, pw)
    PROVE  AccountsInv'
<1>1. /\ [NoChange EXCEPT !.pw = pw] \in Changes
      /\ [NoChange EXCEPT !.pw = pw].deleted_at = None
  BY DEF Changes, NoChange
<1>2. \/ Known(u) /\ Want(e, u, [NoChange EXCEPT !.pw = pw])
      \/ Want(e, u, NoChange)
  BY DEF ResetPassword, ChangePassword
<1> QED BY <1>1, <1>2, ChangesFacts, WantKeeps

(* A request fails, and leaves those at work. *)
LEMMA FailKeeps ==
    ASSUME AccountsInv, NEW e \in Edits, EditFails(e)
    PROVE  AccountsInv'
<1>1. /\ users' = users /\ edits' = [edits EXCEPT ![e] = IdleEdit]
      /\ edits \in [Edits -> [user : Users \cup {None}, set : Changes]]
  BY DEF EditFails, AccountsInv, AccountsTypeOK
<1>2. edits'[e] = IdleEdit /\ \A f \in Edits \ {e} : edits'[f] = edits[f]
  BY <1>1
<1>3. AccountsTypeOK'
  BY <1>1, ChangesFacts DEF AccountsInv, AccountsTypeOK
<1>4. EditInv'
  BY <1>1, <1>2, ChangesFacts DEF AccountsInv, EditInv, Inserts, Updates, Known
<1> QED BY <1>3, <1>4 DEF AccountsInv

(* What a commit leaves in its row: a row, and not one that was deleted    *)
(* and no longer is.                                                       *)
LEMMA CommitWrites ==
    ASSUME AccountsInv, NEW e \in Edits, EditCommit(e)
    PROVE  LET u == edits[e].user IN
           /\ u \in Users
           /\ users' = [users EXCEPT ![u] = Written(u, edits[e].set)]
           /\ edits' = [edits EXCEPT ![e] = IdleEdit]
           /\ Known(u) => Written(u, edits[e].set) \in UserRows
           /\ ~ Known(u) => Written(u, edits[e].set) \in UserRows \cup {NoUser}
           /\ ~ Known(u) /\ Written(u, edits[e].set) # NoUser => Inserts(e)
           /\ Known(u) /\ Deleted(u) => Written(u, edits[e].set).deleted_at # "null"
<1> DEFINE u == edits[e].user
           set == edits[e].set
<1>1. /\ u \in Users /\ set \in Changes
      /\ set = NoChange \/ Inserts(e) \/ Updates(e)
      /\ users \in [Users -> UserRows \cup {NoUser}]
  BY DEF EditCommit, AccountsInv, AccountsTypeOK, EditInv
<1>2. /\ users' = [users EXCEPT ![u] = Written(u, set)]
      /\ edits' = [edits EXCEPT ![e] = IdleEdit]
  BY DEF EditCommit
<1>3. CASE Known(u)
  <2>1. users[u] \in UserRows /\ set.deleted_at \in {None, "set"}
    BY <1>1, <1>3, ChangesFacts DEF Known, Inserts, Updates
  <2>2. Written(u, set) = Saved(users[u], set)
    BY <1>3 DEF Written
  <2>3. Saved(users[u], set) \in UserRows
    BY <1>1, <2>1 DEF Saved, Kept, UserRows, Changes
  <2>4. Saved(users[u], set).deleted_at \in {users[u].deleted_at, "set"}
    BY <2>1 DEF Saved, Kept
  <2> QED BY <1>1, <1>2, <1>3, <2>2, <2>3, <2>4 DEF Deleted
<1>4. CASE ~ Known(u)
  BY <1>1, <1>2, <1>4 DEF Written, Inserts, Updates
<1> QED BY <1>3, <1>4

(* A commit keeps every row there is. *)
LEMMA CommitKeeps ==
    ASSUME AccountsInv, NEW e \in Edits, EditCommit(e)
    PROVE  AccountsInv'
<1> DEFINE u == edits[e].user
           row == Written(u, edits[e].set)
<1>1. /\ u \in Users
      /\ users' = [users EXCEPT ![u] = row]
      /\ edits' = [edits EXCEPT ![e] = IdleEdit]
      /\ row \in UserRows \cup {NoUser}
      /\ Known(u) => row \in UserRows
      /\ row # NoUser /\ ~ Known(u) => Inserts(e)
  BY CommitWrites
<1>2. Inserts(e) => \A f \in Edits \ {e} : edits[f].user = u => edits[f].set = NoChange
  BY DEF Inserts
<1> HIDE DEF row, u
<1>3. /\ users \in [Users -> UserRows \cup {NoUser}] /\ NoUser \notin UserRows
      /\ edits \in [Edits -> [user : Users \cup {None}, set : Changes]]
  BY NoUserIsNoRow DEF AccountsInv, AccountsTypeOK
<1>4. AccountsTypeOK'
  BY <1>1, <1>3, ChangesFacts DEF AccountsTypeOK
<1>5. /\ \A v \in Users : Known(v) => Known(v)'
      /\ \A v \in Users : ~ Known(v) /\ Known(v)' => v = u /\ Inserts(e)
  BY <1>1, <1>3 DEF Known
<1>6. edits'[e] = IdleEdit /\ \A f \in Edits \ {e} : edits'[f] = edits[f]
  BY <1>1, <1>3
<1>7. ASSUME NEW f \in Edits, edits'[f] # IdleEdit
      PROVE  /\ edits'[f].user \in Users
             /\ edits'[f].set = NoChange \/ Inserts(f)' \/ Updates(f)'
  <2>1. /\ f # e /\ edits'[f] = edits[f] /\ edits[f].user \in Users
        /\ edits[f].set = NoChange \/ Inserts(f) \/ Updates(f)
    BY <1>6, <1>7 DEF AccountsInv, EditInv
  <2>2. CASE edits[f].set = NoChange
    BY <2>1, <2>2
  <2>3. CASE Updates(f)
    BY <1>5, <2>1, <2>3 DEF Updates
  <2>4. CASE Inserts(f) /\ edits[f].set # NoChange
    <3>1. ~ Known(edits[f].user)'
      BY <1>2, <1>5, <2>1, <2>4 DEF Inserts
    <3>2. \A g \in Edits \ {f} : edits'[g].user = edits[f].user => edits'[g].set = NoChange
      BY <1>6, <2>4, ChangesFacts DEF Inserts
    <3>3. Inserts(f)'
      BY <2>1, <2>4, <3>1, <3>2 DEF Inserts
    <3> QED BY <2>1, <3>3
  <2> QED BY <2>1, <2>2, <2>3, <2>4
<1> QED BY <1>4, <1>7 DEF AccountsInv, EditInv

(* Every step of a request keeps the table in order. *)
LEMMA EditKeeps ==
    ASSUME AccountsInv, NEW e \in Edits, EditBegin(e) \/ EditFails(e) \/ EditCommit(e)
    PROVE  AccountsInv'
<1>1. CASE EditBegin(e)
  BY <1>1, CreateKeeps, PatchKeeps, DeleteKeeps, PasswordKeeps DEF EditBegin
<1> QED BY <1>1, FailKeeps, CommitKeeps

(* Whatever happens elsewhere keeps it in order too. *)
LEMMA AccountsStutter == AccountsInv /\ UNCHANGED <<users, edits>> => AccountsInv'
BY DEF AccountsInv, AccountsTypeOK, EditInv, Inserts, Updates, Known

(* Nothing but a commit changes the table. *)
LEMMA BeginLeavesUsers ==
    ASSUME NEW e \in Edits, EditBegin(e) \/ EditFails(e)
    PROVE  users' = users
BY DEF EditBegin, EditFails, CreateUser, PatchUser, DeleteUser, ResetPassword, ChangePassword, Want

(* No commit takes a row away, or a deletion back. *)
LEMMA CommitRespects ==
    ASSUME AccountsInv, NEW e \in Edits, EditCommit(e)
    PROVE  \A u \in Users : /\ Known(u) => Known(u)'
                            /\ Known(u) /\ Deleted(u) => Deleted(u)'
<1> DEFINE t == edits[e].user
           row == Written(t, edits[e].set)
<1>1. /\ t \in Users /\ users' = [users EXCEPT ![t] = row]
      /\ Known(t) => row \in UserRows
      /\ Known(t) /\ Deleted(t) => row.deleted_at # "null"
      /\ users \in [Users -> UserRows \cup {NoUser}] /\ NoUser \notin UserRows
  BY CommitWrites, NoUserIsNoRow DEF AccountsInv, AccountsTypeOK
<1> HIDE DEF t, row
<1> QED BY <1>1 DEF Known, Deleted
=============================================================================
