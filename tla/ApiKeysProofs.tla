--------------------------- MODULE ApiKeysProofs ---------------------------
(***************************************************************************)
(* What holds of API keys for any number of users, keys and requests and   *)
(* for any life of a cache entry.                                          *)
(***************************************************************************)
EXTENDS ApiKeys, AccountsProofs, FiniteSetTheorems, TLAPS

(* A rotation saw keys of its own user only, and holds a new key that      *)
(* nobody else has.                                                        *)
RotationInv ==
    \A r \in Rotations :
        /\ rots[r].pc # "idle" => rots[r].user \in Users
        /\ \A k \in rots[r].seen : Issued(k) /\ keys[k].user = rots[r].user
        /\ rots[r].pc = "commit" =>
              /\ rots[r].new \in Keys /\ ~ Issued(rots[r].new)
              /\ \A q \in Rotations : rots[q].new = rots[r].new => q = r

CallInv ==
    \A c \in Calls : calls[c].pc # "idle" => calls[c].key \in Keys

KeysInv == KeysTypeOK /\ AccountsInv /\ RotationInv /\ CallInv

(* What the administrator's requests do to the keys: nothing but Recount. *)
EditStep(e) ==
    /\ \/ (EditBegin(e) \/ EditFails(e)) /\ UNCHANGED since
       \/ EditCommit(e) /\ Recount
    /\ UNCHANGED <<keys, rots, cache, calls, late, crossed>>

-----------------------------------------------------------------------------
(* Types. *)

(* The tables start empty and nobody is at work. *)
LEMMA KeysInvInit == KeysInit => KeysInv
<1> SUFFICES ASSUME KeysInit PROVE KeysInv
  OBVIOUS
<1> USE ApiKeyConstants
<1>1. AccountsInv
  BY AccountsInvInit DEF KeysInit, AccountsInit
<1>2. KeysTypeOK
  BY <1>1 DEF KeysInit, KeysTypeOK, AccountsInv, IdleRotation, IdleCall
<1>3. RotationInv /\ CallInv
  BY DEF KeysInit, RotationInv, CallInv, IdleRotation, IdleCall
<1> QED BY <1>1, <1>2, <1>3 DEF KeysInv

(* Every step of KeysNext is one of these. *)
LEMMA KeysSteps ==
    ASSUME KeysNext
    PROVE  \/ \E e \in Edits : EditStep(e)
           \/ \E r \in Rotations : \/ \E u \in Users : RotateRead(r, u)
                                   \/ \E k \in Keys : RotateFlush(r, k)
                                   \/ RotateCommit(r) \/ RotateFails(r)
           \/ \E c \in Calls : \/ \E k \in Keys : Hit(c, k) \/ Miss(c, k)
                               \/ CallStep(c)
           \/ Tick
BY DEF KeysNext, EditStep

(* What a rotation commits is a table again, with one new row. *)
LEMMA RotatedType ==
    ASSUME KeysInv, NEW r \in Rotations, rots[r].pc = "commit"
    PROVE  /\ Rotated(rots[r]) \in [Keys -> KeyRows \cup {NoKey}]
           /\ Rotated(rots[r])[rots[r].new] = [user |-> rots[r].user, status |-> "active"]
           /\ \A k \in Keys \ {rots[r].new} :
                 /\ Rotated(rots[r])[k] = NoKey <=> ~ Issued(k)
                 /\ Issued(k) => Rotated(rots[r])[k].user = keys[k].user
<1> DEFINE t == rots[r]
<1>1. /\ t.user \in Users /\ t.new \in Keys /\ ~ Issued(t.new) /\ t.seen \subseteq Keys
      /\ \A k \in t.seen : Issued(k)
      /\ keys \in [Keys -> KeyRows \cup {NoKey}]
  BY DEF KeysInv, KeysTypeOK, RotationInv
<1>2. NoKey \notin KeyRows
  BY ApiKeyConstants
<1> HIDE DEF t
<1> QED BY <1>1, <1>2 DEF Rotated, KeyRows, Issued, t

(* A rotation that has a new key is about to commit it. *)
LEMMA RotationStep ==
    ASSUME KeysInv, NEW r \in Rotations,
           \/ \E u \in Users : RotateRead(r, u)
           \/ \E k \in Keys : RotateFlush(r, k)
           \/ RotateCommit(r) \/ RotateFails(r)
    PROVE  KeysInv'
<1> USE ApiKeyConstants
<1>0. /\ AccountsInv /\ RotationInv /\ CallInv
      /\ keys \in [Keys -> KeyRows \cup {NoKey}]
      /\ rots \in [Rotations -> [pc : {"idle", "flush", "commit"}, user : Users \cup {None},
                                 seen : SUBSET Keys, new : Keys \cup {None},
                                 overtaken : BOOLEAN]]
  BY DEF KeysInv, KeysTypeOK
<1>1. UNCHANGED <<users, edits, cache, calls, late>>
  BY DEF RotateRead, RotateFlush, RotateCommit, RotateFails
<1>2. AccountsInv' /\ AccountsTypeOK' /\ CallInv'
  BY <1>0, <1>1, AccountsStutter DEF AccountsInv, CallInv
<1>3. ASSUME NEW u \in Users, RotateRead(r, u) PROVE KeysInv'
  <2>1. /\ keys' = keys /\ UNCHANGED <<since, crossed>>
        /\ rots' = [rots EXCEPT ![r] = [pc |-> "flush", user |-> u, seen |-> ActiveKeys(u),
                                        new |-> None, overtaken |-> FALSE]]
    BY <1>3 DEF RotateRead
  <2>2. ActiveKeys(u) \subseteq Keys /\ \A k \in ActiveKeys(u) : Issued(k) /\ keys[k].user = u
    BY DEF ActiveKeys, Active
  <2>3. RotationInv'
    BY <1>0, <2>1, <2>2 DEF RotationInv, Issued
  <2>4. KeysTypeOK'
    BY <1>1, <1>2, <2>1, <2>2 DEF KeysInv, KeysTypeOK
  <2> QED BY <1>2, <2>3, <2>4 DEF KeysInv
<1>4. ASSUME NEW k \in Keys, RotateFlush(r, k) PROVE KeysInv'
  <2>1. /\ keys' = keys /\ UNCHANGED <<since, crossed>>
        /\ rots' = [rots EXCEPT ![r].pc = "commit", ![r].new = k]
        /\ rots[r].pc = "flush" /\ ~ Issued(k) /\ \A q \in Rotations : rots[q].new # k
    BY <1>4 DEF RotateFlush
  <2>2. RotationInv'
    BY <1>0, <2>1 DEF RotationInv, Issued
  <2>3. KeysTypeOK'
    BY <1>0, <1>1, <1>2, <2>1 DEF KeysInv, KeysTypeOK
  <2> QED BY <1>2, <2>2, <2>3 DEF KeysInv
<1>5. CASE RotateFails(r)
  <2>1. UNCHANGED <<keys, since, crossed>> /\ rots' = [rots EXCEPT ![r] = IdleRotation]
    BY <1>5 DEF RotateFails
  <2>2. RotationInv'
    BY <1>0, <2>1 DEF RotationInv, Issued, IdleRotation
  <2>3. KeysTypeOK'
    BY <1>0, <1>1, <1>2, <2>1 DEF KeysInv, KeysTypeOK, IdleRotation
  <2> QED BY <1>2, <2>2, <2>3 DEF KeysInv
<1>6. CASE RotateCommit(r)
  <2>1. /\ rots[r].pc = "commit"
        /\ keys' = Rotated(rots[r])
        /\ rots' = Overtaking(r)
        /\ crossed' \subseteq crossed \cup {rots[r].user}
        /\ since' = [k \in Keys |-> IF Good(k)' THEN 0 ELSE since[k]]
    BY <1>6 DEF RotateCommit, Recount
  <2>2. keys' \in [Keys -> KeyRows \cup {NoKey}] /\ rots[r].user \in Users /\ rots[r].new \in Keys
    BY <1>0, <2>1, RotatedType DEF RotationInv
  <2>3. /\ \A k \in Keys : Issued(k) => Issued(k)' /\ keys'[k].user = keys[k].user
        /\ \A k \in Keys : k # rots[r].new /\ ~ Issued(k) => ~ Issued(k)'
    BY <1>0, <2>1, RotatedType DEF RotationInv, Issued
  <2>4. RotationInv'
    <3> SUFFICES ASSUME NEW p \in Rotations
                 PROVE  /\ rots'[p].pc # "idle" => rots'[p].user \in Users
                        /\ \A k \in rots'[p].seen : Issued(k)' /\ keys'[k].user = rots'[p].user
                        /\ rots'[p].pc = "commit" =>
                              /\ rots'[p].new \in Keys /\ ~ Issued(rots[p].new)'
                              /\ rots'[p].new = rots[p].new
                              /\ \A q \in Rotations : rots'[q].new = rots'[p].new => q = p
      BY DEF RotationInv, Issued
    <3>1. CASE p = r
      BY <1>0, <2>1, <3>1 DEF Overtaking, IdleRotation
    <3>2. CASE p # r
      <4>1. /\ rots'[p].pc = rots[p].pc /\ rots'[p].user = rots[p].user
            /\ rots'[p].seen = rots[p].seen /\ rots'[p].new = rots[p].new
            /\ \A q \in Rotations : rots'[q].new \in {rots[q].new, None}
        BY <1>0, <2>1, <3>2 DEF Overtaking, IdleRotation
      <4>2. \A k \in rots[p].seen : k \in Keys /\ Issued(k) /\ keys[k].user = rots[p].user
        BY <1>0 DEF RotationInv
      <4>3. rots[p].pc = "commit" =>
                /\ rots[p].new \in Keys /\ ~ Issued(rots[p].new) /\ rots[p].new # rots[r].new
                /\ \A q \in Rotations : rots[q].new = rots[p].new => q = p
        BY <1>0, <3>2 DEF RotationInv
      <4> QED BY <1>0, <2>3, <4>1, <4>2, <4>3 DEF RotationInv
    <3> QED BY <3>1, <3>2
  <2>5. since' \in [Keys -> 0 .. KeyTtl + 1]
    BY <2>1 DEF KeysInv, KeysTypeOK
  <2>6. crossed' \subseteq Users
    BY <2>1, <2>2 DEF KeysInv, KeysTypeOK
  <2>7. rots' \in [Rotations -> [pc : {"idle", "flush", "commit"}, user : Users \cup {None},
                                seen : SUBSET Keys, new : Keys \cup {None},
                                overtaken : BOOLEAN]]
    <3> DEFINE Stages == [pc : {"idle", "flush", "commit"}, user : Users \cup {None},
                          seen : SUBSET Keys, new : Keys \cup {None}, overtaken : BOOLEAN]
    <3>1. IdleRotation \in Stages
      BY DEF IdleRotation
    <3>2. \A q \in Rotations : rots[q] \in Stages /\ [rots[q] EXCEPT !.overtaken = TRUE] \in Stages
      BY <1>0
    <3>3. rots \in [Rotations -> Stages]
      BY <1>0
    <3> HIDE DEF Stages
    <3>4. rots' \in [Rotations -> Stages]
      BY <2>1, <3>1, <3>2 DEF Overtaking
    <3> QED BY <3>4 DEF Stages
  <2>8. KeysTypeOK'
    BY <1>1, <1>2, <2>2, <2>5, <2>6, <2>7 DEF KeysInv, KeysTypeOK
  <2> QED BY <1>2, <2>4, <2>8 DEF KeysInv
<1> QED BY <1>3, <1>4, <1>5, <1>6

(* Requests that present a key only move themselves and fill the cache. *)
LEMMA CallKeeps ==
    ASSUME KeysInv, NEW c \in Calls,
           (\E k \in Keys : Hit(c, k) \/ Miss(c, k)) \/ CallStep(c)
    PROVE  KeysInv'
<1> USE ApiKeyConstants
<1>1. UNCHANGED <<users, edits, keys, rots, since, crossed>>
  BY DEF Hit, Miss, CallStep, CheckKey, CheckUser, Check, Remember, CallFails, keyVars
<1>2. /\ cache' \in [Keys -> 0 .. KeyTtl] /\ late' \subseteq Keys /\ CallInv'
      /\ calls' \in [Calls -> [pc : {"idle", "key", "user", "store"}, key : Keys \cup {None}]]
  <2>1. /\ cache \in [Keys -> 0 .. KeyTtl] /\ late \subseteq Keys /\ CallInv
        /\ calls \in [Calls -> [pc : {"idle", "key", "user", "store"}, key : Keys \cup {None}]]
    BY DEF KeysInv, KeysTypeOK
  <2>2. CASE \E k \in Keys : Hit(c, k) \/ Miss(c, k)
    BY <2>1, <2>2 DEF Hit, Miss, CallInv, keyVars
  <2>3. CASE CheckKey(c) \/ CheckUser(c)
    BY <2>1, <2>3 DEF CheckKey, CheckUser, Check, CallInv, IdleCall
  <2>4. CASE Remember(c)
    BY <2>1, <2>4 DEF Remember, CallInv, IdleCall
  <2>5. CASE CallFails(c)
    BY <2>1, <2>5 DEF CallFails, CallInv, IdleCall
  <2> QED BY <2>2, <2>3, <2>4, <2>5 DEF CallStep
<1>3. AccountsInv' /\ AccountsTypeOK' /\ RotationInv'
  BY <1>1, AccountsStutter DEF KeysInv, AccountsInv, RotationInv, Issued
<1> QED BY <1>1, <1>2, <1>3 DEF KeysInv, KeysTypeOK

(* Every step keeps the types and who works on what. *)
LEMMA KeysInvStep == KeysInv /\ [KeysNext]_keyVars => KeysInv'
<1> SUFFICES ASSUME KeysInv, [KeysNext]_keyVars PROVE KeysInv'
  OBVIOUS
<1> USE ApiKeyConstants
<1>1. CASE UNCHANGED keyVars
  BY <1>1, AccountsStutter DEF keyVars, KeysInv, KeysTypeOK, AccountsInv, RotationInv, CallInv, Issued
<1>2. ASSUME NEW e \in Edits, EditStep(e) PROVE KeysInv'
  <2>1. AccountsInv' /\ AccountsTypeOK'
    BY <1>2, EditKeeps DEF EditStep, KeysInv, AccountsInv
  <2>2. since' \in [Keys -> 0 .. KeyTtl + 1]
    BY <1>2 DEF EditStep, Recount, KeysInv, KeysTypeOK
  <2>3. RotationInv' /\ CallInv'
    BY <1>2 DEF EditStep, KeysInv, RotationInv, CallInv, Issued
  <2> QED BY <1>2, <2>1, <2>2, <2>3 DEF EditStep, KeysInv, KeysTypeOK
<1>3. CASE Tick
  <2>1. UNCHANGED <<users, edits, keys, rots, calls, late, crossed>>
    BY <1>3 DEF Tick
  <2>2. cache' \in [Keys -> 0 .. KeyTtl] /\ since' \in [Keys -> 0 .. KeyTtl + 1]
    BY <1>3 DEF Tick, KeysInv, KeysTypeOK
  <2>3. AccountsInv' /\ AccountsTypeOK' /\ RotationInv' /\ CallInv'
    BY <2>1, AccountsStutter DEF KeysInv, AccountsInv, RotationInv, CallInv, Issued
  <2> QED BY <2>1, <2>2, <2>3 DEF KeysInv, KeysTypeOK
<1> QED BY <1>1, <1>2, <1>3, KeysSteps, RotationStep, CallKeeps

(* Every variable keeps its type, for any number of users, keys and requests. *)
THEOREM KeysTypeCorrect == KeysSpec => []KeysTypeOK
<1>1. KeysInv => KeysTypeOK
  BY DEF KeysInv
<1> QED BY <1>1, KeysInvInit, KeysInvStep, PTL DEF KeysSpec

-----------------------------------------------------------------------------
(* How long a key works. *)

(* A key is good now, or since counts from the moment it was not; what is  *)
(* left of its entry and that time never add up to more than one life.     *)
TimeInv ==
    /\ KeysDieInTime
    /\ \A k \in Keys : Good(k) => since[k] = 0

(* Recount only ever sets a count back, and does so for the keys that are  *)
(* good.                                                                   *)
LEMMA RecountKeeps ==
    ASSUME KeysInv, TimeInv, UNCHANGED <<cache, late>>,
           Recount \/ UNCHANGED <<users, keys, since>>
    PROVE  TimeInv'
<1>1. cache \in [Keys -> 0 .. KeyTtl] /\ since \in [Keys -> 0 .. KeyTtl + 1] /\ KeyTtl \in Nat
  BY ApiKeyConstants DEF KeysInv, KeysTypeOK
<1>2. CASE Recount
  <2>1. \A k \in Keys : since'[k] = IF Good(k)' THEN 0 ELSE since[k]
    BY <1>2 DEF Recount
  <2> QED BY <1>1, <2>1 DEF TimeInv, KeysDieInTime
<1>3. CASE UNCHANGED <<users, keys, since>>
  BY <1>1, <1>3 DEF TimeInv, KeysDieInTime, Good, Active, Issued, Usable, Known, Deleted
<1> QED BY <1>2, <1>3

(* A key an administrator's edit or a rotation makes bad begins to count;  *)
(* an entry written for a bad key is late; the clock takes from the one    *)
(* what it adds to the other.                                              *)
LEMMA TimeInvStep == KeysInv /\ TimeInv /\ [KeysNext]_keyVars => TimeInv'
<1> SUFFICES ASSUME KeysInv, TimeInv, [KeysNext]_keyVars PROVE TimeInv'
  OBVIOUS
<1>0. /\ cache \in [Keys -> 0 .. KeyTtl] /\ since \in [Keys -> 0 .. KeyTtl + 1]
      /\ KeyTtl \in Nat /\ CallInv
  BY ApiKeyConstants DEF KeysInv, KeysTypeOK
<1>1. CASE UNCHANGED keyVars
  BY <1>1, RecountKeeps DEF keyVars
<1>2. ASSUME NEW e \in Edits, EditStep(e) PROVE TimeInv'
  BY <1>2, RecountKeeps, BeginLeavesUsers DEF EditStep
<1>3. ASSUME NEW r \in Rotations,
             \/ \E u \in Users : RotateRead(r, u)
             \/ \E k \in Keys : RotateFlush(r, k)
             \/ RotateCommit(r) \/ RotateFails(r)
      PROVE  TimeInv'
  BY <1>3, RecountKeeps DEF RotateRead, RotateFlush, RotateCommit, RotateFails
<1>4. ASSUME NEW c \in Calls,
             (\E k \in Keys : Hit(c, k) \/ Miss(c, k)) \/ CallStep(c)
      PROVE  TimeInv'
  <2>1. CASE ~ Remember(c)
    BY <1>4, <2>1, RecountKeeps
       DEF Hit, Miss, CallStep, CheckKey, CheckUser, Check, CallFails, keyVars
  <2>2. CASE Remember(c)
    <3> DEFINE key == calls[c].key
    <3>1. /\ UNCHANGED <<users, keys, since>> /\ key \in Keys
          /\ cache' = [cache EXCEPT ![key] = KeyTtl]
          /\ late' = IF Good(key) THEN late \ {key} ELSE late \cup {key}
      BY <1>0, <2>2 DEF Remember, CallInv
    <3>2. \A k \in Keys : Good(k)' <=> Good(k)
      BY <3>1 DEF Good, Active, Issued, Usable, Known, Deleted
    <3> HIDE DEF key
    <3> QED BY <1>0, <3>1, <3>2 DEF TimeInv, KeysDieInTime
  <2> QED BY <2>1, <2>2
<1>5. CASE Tick
  <2>1. /\ UNCHANGED <<users, keys, late>>
        /\ cache' = [k \in Keys |-> IF cache[k] > 0 THEN cache[k] - 1 ELSE 0]
        /\ since' = [k \in Keys |-> IF Good(k) \/ ~ Issued(k) THEN 0
                                    ELSE IF since[k] > KeyTtl THEN since[k] ELSE since[k] + 1]
    BY <1>5 DEF Tick
  <2>2. \A k \in Keys : Good(k)' <=> Good(k)
    BY <2>1 DEF Good, Active, Issued, Usable, Known, Deleted
  <2> QED BY <1>0, <2>1, <2>2 DEF TimeInv, KeysDieInTime
<1> QED BY <1>1, <1>2, <1>3, <1>4, <1>5, KeysSteps

(* A key that was revoked, or whose user was suspended or deleted, works   *)
(* for one life of a cache entry at most, unless its entry was written     *)
(* later.                                                                  *)
THEOREM KeysDie == KeysSpec => []KeysDieInTime
<1>1. KeysInit => TimeInv
  BY DEF KeysInit, TimeInv, KeysDieInTime
<1>2. TimeInv => KeysDieInTime
  BY DEF TimeInv
<1> QED BY <1>1, <1>2, KeysInvInit, KeysInvStep, TimeInvStep, PTL DEF KeysSpec

-----------------------------------------------------------------------------
(* How many keys work. *)

(* Only a commit changes the keys or who is crossed. *)
LEMMA OnlyCommits ==
    ASSUME [KeysNext]_keyVars
    PROVE  UNCHANGED <<keys, crossed>> \/ \E r \in Rotations : RotateCommit(r)
BY KeysSteps DEF EditStep, RotateRead, RotateFlush, RotateFails, Hit, Miss, CallStep, CheckKey,
                 CheckUser, Check, Remember, CallFails, Tick, keyVars

(* After a commit its user has the new key, and of the old ones those the  *)
(* rotation had not seen; other users have what they had.                  *)
LEMMA CommitLeaves ==
    ASSUME KeysInv, NEW r \in Rotations, RotateCommit(r)
    PROVE  \A u \in Users :
              ActiveKeys(u)' = IF u = rots[r].user
                               THEN (ActiveKeys(u) \ rots[r].seen) \cup {rots[r].new}
                               ELSE ActiveKeys(u)
<1>0. PICK t : t = rots[r]
  OBVIOUS
<1>1. /\ t.user \in Users /\ t.new \in Keys /\ ~ Issued(t.new) /\ t.seen \subseteq Keys
      /\ \A k \in t.seen : Issued(k) /\ keys[k].user = t.user
      /\ keys \in [Keys -> KeyRows \cup {NoKey}]
      /\ keys' = Rotated(t)
  BY <1>0 DEF KeysInv, KeysTypeOK, RotationInv, RotateCommit
<1>2. \A k \in Keys :
          /\ k = t.new => keys'[k] = [user |-> t.user, status |-> "active"]
          /\ k # t.new /\ k \in t.seen => keys'[k] = [keys[k] EXCEPT !.status = "revoked"]
          /\ k # t.new /\ k \notin t.seen => keys'[k] = keys[k]
  BY <1>1 DEF Rotated
<1>3. \A k \in Keys :
          /\ k = t.new => Active(k)' /\ keys'[k].user = t.user
          /\ k # t.new /\ k \in t.seen => ~ Active(k)'
          /\ k # t.new /\ k \notin t.seen => (Active(k)' <=> Active(k)) /\ keys'[k] = keys[k]
  <2> SUFFICES ASSUME NEW k \in Keys
               PROVE  /\ k = t.new => Active(k)' /\ keys'[k].user = t.user
                      /\ k # t.new /\ k \in t.seen => ~ Active(k)'
                      /\ k # t.new /\ k \notin t.seen =>
                            (Active(k)' <=> Active(k)) /\ keys'[k] = keys[k]
    OBVIOUS
  <2>1. CASE k = t.new
    <3>1. keys'[k] = [user |-> t.user, status |-> "active"]
      BY <1>2, <2>1
    <3>2. keys'[k] \in KeyRows
      BY <1>1, <3>1 DEF KeyRows
    <3> QED BY <2>1, <3>1, <3>2, ApiKeyConstants DEF Active, Issued
  <2>2. CASE k # t.new /\ k \in t.seen
    <3>1. keys[k] \in KeyRows
      BY <1>1, <2>2 DEF Issued
    <3>2. keys'[k] = [keys[k] EXCEPT !.status = "revoked"]
      BY <1>2, <2>2
    <3>3. keys'[k].status = "revoked"
      BY <3>1, <3>2 DEF KeyRows
    <3> QED BY <2>2, <3>3 DEF Active
  <2>3. CASE k # t.new /\ k \notin t.seen
    BY <1>2, <2>3 DEF Active, Issued
  <2> QED BY <2>1, <2>2, <2>3
<1>4. \A u \in Users, k \in Keys :
          k \in ActiveKeys(u)' <=>
             \/ k = t.new /\ u = t.user
             \/ k # t.new /\ k \notin t.seen /\ k \in ActiveKeys(u)
  BY <1>3 DEF ActiveKeys
<1>5. \A u \in Users : ActiveKeys(u)' \subseteq Keys /\ ActiveKeys(u) \subseteq Keys
  BY DEF ActiveKeys
<1>6. \A u \in Users : t.new \notin ActiveKeys(u)
  BY <1>1 DEF ActiveKeys, Active
<1>7. \A u \in Users : u # t.user => t.seen \cap ActiveKeys(u) = {}
  BY <1>1 DEF ActiveKeys
<1>8. ASSUME NEW u \in Users
      PROVE  ActiveKeys(u)' = IF u = t.user THEN (ActiveKeys(u) \ t.seen) \cup {t.new}
                                            ELSE ActiveKeys(u)
  <2>1. CASE u = t.user
    BY <1>1, <1>4, <1>5, <1>6, <2>1
  <2>2. CASE u # t.user
    <3>1. \A k \in Keys : k \in ActiveKeys(u)' <=> k \in ActiveKeys(u)
      BY <1>4, <1>6, <1>7, <2>2
    <3>2. ActiveKeys(u)' = ActiveKeys(u)
      BY <1>5, <3>1
    <3> QED BY <2>2, <3>2
  <2> QED BY <2>1, <2>2
<1> QED BY <1>0, <1>8

(* A rotation that was not overtaken still sees what there is, and a user  *)
(* whose last one was not has one active key at most.                      *)
SeesAll(r) ==
    rots[r].pc # "idle" /\ ~ rots[r].overtaken => rots[r].seen = ActiveKeys(rots[r].user)

OvertakingInv == TwoKeysOnlyByOvertaking /\ \A r \in Rotations : SeesAll(r)

(* Steps that leave the keys alone only begin, move or end a rotation. *)
LEMMA SeesAllStays ==
    ASSUME KeysInv, OvertakingInv, [KeysNext]_keyVars, UNCHANGED <<keys, crossed>>,
           \A r \in Rotations : ~ RotateCommit(r)
    PROVE  OvertakingInv'
<1>0. rots \in [Rotations -> [pc : {"idle", "flush", "commit"}, user : Users \cup {None},
                              seen : SUBSET Keys, new : Keys \cup {None},
                              overtaken : BOOLEAN]]
  BY DEF KeysInv, KeysTypeOK
<1>1. \A u \in Users \cup {None} : ActiveKeys(u)' = ActiveKeys(u)
  BY DEF ActiveKeys, Active, Issued
<1>2. TwoKeysOnlyByOvertaking'
  BY <1>1 DEF OvertakingInv, TwoKeysOnlyByOvertaking
<1>3. ASSUME NEW q \in Rotations, rots'[q] = rots[q] PROVE SeesAll(q)'
  BY <1>0, <1>1, <1>3 DEF OvertakingInv, SeesAll
<1>4. ASSUME NEW r \in Rotations,
             \/ \E u \in Users : RotateRead(r, u)
             \/ \E k \in Keys : RotateFlush(r, k)
             \/ RotateFails(r)
      PROVE  \A q \in Rotations : SeesAll(q)'
  <2>1. \A q \in Rotations \ {r} : rots'[q] = rots[q]
    BY <1>0, <1>4 DEF RotateRead, RotateFlush, RotateFails
  <2>2. ASSUME NEW u \in Users, RotateRead(r, u) PROVE SeesAll(r)'
    BY <1>0, <1>1, <2>2 DEF RotateRead, SeesAll
  <2>3. ASSUME NEW k \in Keys, RotateFlush(r, k) PROVE SeesAll(r)'
    BY <1>0, <1>1, <2>3 DEF RotateFlush, SeesAll, OvertakingInv
  <2>4. ASSUME RotateFails(r) PROVE SeesAll(r)'
    BY <1>0, <2>4 DEF RotateFails, SeesAll, IdleRotation
  <2>5. SeesAll(r)'
    BY <1>4, <2>2, <2>3, <2>4
  <2> QED BY <1>3, <2>1, <2>5
<1>5. (\A q \in Rotations : SeesAll(q)') => OvertakingInv'
  BY <1>2 DEF OvertakingInv
<1>6. \/ UNCHANGED rots
      \/ \E r \in Rotations : \/ \E u \in Users : RotateRead(r, u)
                              \/ \E k \in Keys : RotateFlush(r, k)
                              \/ RotateFails(r)
  BY KeysSteps DEF EditStep, Hit, Miss, CallStep, CheckKey, CheckUser, Check, Remember,
                   CallFails, Tick, keyVars
<1>7. CASE UNCHANGED rots
  <2>1. \A q \in Rotations : rots'[q] = rots[q]
    BY <1>7
  <2>2. \A q \in Rotations : SeesAll(q)'
    BY <1>3, <2>1
  <2> QED BY <1>5, <2>2
<1>8. CASE \E r \in Rotations : \/ \E u \in Users : RotateRead(r, u)
                                \/ \E k \in Keys : RotateFlush(r, k)
                                \/ RotateFails(r)
  <2>1. \A q \in Rotations : SeesAll(q)'
    BY <1>4, <1>8
  <2> QED BY <1>5, <2>1
<1> QED BY <1>6, <1>7, <1>8

(* A commit overtakes the others of its user, and leaves other users' keys *)
(* as they are; not overtaken itself, it revokes every key there is.       *)
LEMMA CommitOvertakes ==
    ASSUME KeysInv, OvertakingInv, NEW r \in Rotations, RotateCommit(r)
    PROVE  OvertakingInv'
<1>0. /\ rots \in [Rotations -> [pc : {"idle", "flush", "commit"}, user : Users \cup {None},
                                 seen : SUBSET Keys, new : Keys \cup {None},
                                 overtaken : BOOLEAN]]
      /\ \A q \in Rotations : rots[q].pc # "idle" => rots[q].user \in Users
  BY DEF KeysInv, KeysTypeOK, RotationInv
<1>1. /\ rots[r].pc = "commit" /\ rots' = Overtaking(r)
      /\ crossed' = IF rots[r].overtaken THEN crossed \cup {rots[r].user}
                                         ELSE crossed \ {rots[r].user}
  BY DEF RotateCommit
<1>2. ASSUME NEW u \in Users, u # rots[r].user PROVE ActiveKeys(u)' = ActiveKeys(u)
  BY <1>2, CommitLeaves
<1>3. ASSUME NEW u \in Users, u \notin crossed' PROVE Cardinality(ActiveKeys(u)') <= 1
  <2>1. CASE u = rots[r].user
    <3>1. rots[r].seen = ActiveKeys(u)
      BY <1>0, <1>1, <1>3, <2>1 DEF OvertakingInv, SeesAll
    <3>2. ActiveKeys(u)' = (ActiveKeys(u) \ rots[r].seen) \cup {rots[r].new}
      BY <2>1, CommitLeaves
    <3>3. ActiveKeys(u)' = {rots[r].new}
      BY <3>1, <3>2
    <3>4. Cardinality(ActiveKeys(u)') = 1
      BY <3>3, FS_Singleton
    <3> QED BY <3>4
  <2>2. CASE u # rots[r].user
    <3>1. u \notin crossed
      BY <1>1, <1>3, <2>2
    <3>2. ActiveKeys(u)' = ActiveKeys(u)
      BY <1>2, <2>2
    <3> QED BY <3>1, <3>2 DEF OvertakingInv, TwoKeysOnlyByOvertaking
  <2> QED BY <2>1, <2>2
<1>4. ASSUME NEW q \in Rotations PROVE SeesAll(q)'
  <2>1. CASE q = r
    BY <1>0, <1>1, <2>1 DEF Overtaking, IdleRotation, SeesAll
  <2>2. CASE q # r /\ rots[q].user = rots[r].user
    BY <1>0, <1>1, <2>2 DEF Overtaking, SeesAll
  <2>3. CASE q # r /\ rots[q].user # rots[r].user
    <3>1. PICK u : u = rots[q].user
      OBVIOUS
    <3>2. rots'[q] = rots[q]
      BY <1>0, <1>1, <2>3 DEF Overtaking
    <3>3. rots[q].pc # "idle" => ActiveKeys(u)' = ActiveKeys(u)
      BY <1>0, <1>2, <2>3, <3>1
    <3>4. rots[q].pc # "idle" /\ ~ rots[q].overtaken => rots[q].seen = ActiveKeys(u)
      BY <3>1 DEF OvertakingInv, SeesAll
    <3>5. rots'[q].pc # "idle" /\ ~ rots'[q].overtaken => rots'[q].seen = ActiveKeys(u)'
      BY <3>2, <3>3, <3>4
    <3>6. rots'[q].user = u
      BY <3>1, <3>2
    <3> QED BY <3>5, <3>6 DEF SeesAll, ActiveKeys
  <2> QED BY <2>1, <2>2, <2>3
<1> QED BY <1>3, <1>4 DEF OvertakingInv, TwoKeysOnlyByOvertaking

(* However rotations overlap, two keys of a user are active only where one *)
(* was overtaken by another, and the next one that is not repairs it.      *)
THEOREM KeysLeftByOvertaking == KeysSpec => []TwoKeysOnlyByOvertaking
<1>1. KeysInit => OvertakingInv
  <2> SUFFICES ASSUME KeysInit PROVE OvertakingInv
    OBVIOUS
  <2>1. \A u \in Users : ActiveKeys(u) = {}
    BY DEF KeysInit, ActiveKeys, Active, Issued
  <2>2. Cardinality({}) = 0
    BY FS_EmptySet
  <2>3. TwoKeysOnlyByOvertaking
    BY <2>1, <2>2 DEF TwoKeysOnlyByOvertaking
  <2> QED BY <2>3 DEF KeysInit, OvertakingInv, SeesAll, IdleRotation
<1>2. KeysInv /\ OvertakingInv /\ [KeysNext]_keyVars => OvertakingInv'
  BY SeesAllStays, CommitOvertakes, OnlyCommits
<1>3. OvertakingInv => TwoKeysOnlyByOvertaking
  BY DEF OvertakingInv
<1> QED BY <1>1, <1>2, <1>3, KeysInvInit, KeysInvStep, PTL DEF KeysSpec

(* A user who was given a key has one that is active, whatever fails.      *)
THEOREM AlwaysAKey == KeysSpec => []NeverWithoutKey
<1>1. KeysInit => NeverWithoutKey
  BY DEF KeysInit, NeverWithoutKey, Issued
<1>2. KeysInv /\ NeverWithoutKey /\ [KeysNext]_keyVars => NeverWithoutKey'
  <2> SUFFICES ASSUME KeysInv, NeverWithoutKey, [KeysNext]_keyVars PROVE NeverWithoutKey'
    OBVIOUS
  <2>1. CASE UNCHANGED <<keys, crossed>>
    BY <2>1 DEF NeverWithoutKey, ActiveKeys, Active, Issued
  <2>2. ASSUME NEW r \in Rotations, RotateCommit(r) PROVE NeverWithoutKey'
    <3> SUFFICES ASSUME NEW k \in Keys, Issued(k)', NEW u \in Users, u = keys'[k].user
                 PROVE  ActiveKeys(u)' # {}
      BY <2>2, KeysInvStep DEF NeverWithoutKey, Issued, KeysInv, KeysTypeOK, KeyRows
    <3>1. rots[r].new \in Keys /\ rots[r].pc = "commit" /\ keys' = Rotated(rots[r])
      BY <2>2 DEF RotateCommit, KeysInv, RotationInv
    <3>4. keys'[rots[r].new].user = rots[r].user
      <4>1. Rotated(rots[r])[rots[r].new] = [user |-> rots[r].user, status |-> "active"]
        BY <3>1, RotatedType
      <4> QED BY <3>1, <4>1
    <3>2. CASE u = rots[r].user
      BY <2>2, <3>2, CommitLeaves
    <3>3. CASE u # rots[r].user
      <4>1. k # rots[r].new
        BY <3>3, <3>4
      <4>2. Issued(k) /\ keys[k].user = u
        BY <3>1, <4>1, RotatedType DEF Issued
      <4> QED BY <2>2, <3>3, <4>2, CommitLeaves DEF NeverWithoutKey
    <3> QED BY <3>2, <3>3
  <2> QED BY <2>1, <2>2, OnlyCommits
<1> QED BY <1>1, <1>2, KeysInvInit, KeysInvStep, PTL DEF KeysSpec
=============================================================================
