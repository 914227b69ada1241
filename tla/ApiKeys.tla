------------------------------ MODULE ApiKeys ------------------------------
(***************************************************************************)
(* API keys: their rotation, by the user or by an administrator, and their *)
(* use.  A key resolves to its user through the api_keys and users tables, *)
(* and what it resolved to is kept in Redis for apikey_cache_ttl_seconds.  *)
(* A rotation is one transaction, but its answer, with the new key, leaves *)
(* before it is committed; a resolution is four separate calls to two      *)
(* stores; and neither a rotation nor an administrator's edit touches the  *)
(* cache.                                                                  *)
(***************************************************************************)
EXTENDS Accounts, Naturals, FiniteSets

CONSTANTS
    Keys,        \* the keys generate_key may draw, named by their lookup hash
    NoKey,       \* no such row
    Rotations,   \* the rotation requests that may be under way at once
    Calls,       \* the requests that may be presenting a key at once
    KeyTtl       \* settings.apikey_cache_ttl_seconds, in ticks of the clock

KeyRows == [user : Users, status : {"active", "revoked"}]

ASSUME ApiKeyConstants == KeyTtl \in Nat \ {0} /\ None \notin Keys /\ NoKey \notin KeyRows

VARIABLES
    keys,        \* the api_keys table: key -> its committed row, or NoKey
    rots,        \* rotation -> where it stands
    cache,       \* key -> the ticks its Redis entry has left, 0 for no entry
    calls,       \* request -> where its authentication stands
    since,       \* key -> ticks since it last was good, up to KeyTtl + 1
    late,        \* keys whose entry was written after they had gone bad
    crossed      \* users whose last rotation to commit had been overtaken
                 \* (since, late and crossed are history variables, and so
                 \* is the field overtaken of a rotation)

keyVars == <<users, edits, keys, rots, cache, calls, since, late, crossed>>

Issued(k) == keys[k] # NoKey

Active(k) == Issued(k) /\ keys[k].status = "active"

Good(k) == Active(k) /\ Usable(keys[k].user)

ActiveKeys(u) == {k \in Keys : Active(k) /\ keys[k].user = u}

IdleRotation == [pc |-> "idle", user |-> None, seen |-> {}, new |-> None,
                 overtaken |-> FALSE]

IdleCall == [pc |-> "idle", key |-> None]

KeysInit ==
    /\ AccountsInit
    /\ keys = [k \in Keys |-> NoKey]
    /\ rots = [r \in Rotations |-> IdleRotation]
    /\ cache = [k \in Keys |-> 0]
    /\ calls = [c \in Calls |-> IdleCall]
    /\ since = [k \in Keys |-> 0]
    /\ late = {}
    /\ crossed = {}

-----------------------------------------------------------------------------
(* rotate_api_key and admin_rotate_api_key. *)

(* revoke_all_for_user selects the active keys.  An administrator may name *)
(* any user id.                                                            *)
RotateRead(r, u) ==
    /\ rots[r].pc = "idle"
    /\ rots' = [rots EXCEPT ![r] = [pc |-> "flush", user |-> u, seen |-> ActiveKeys(u),
                                    new |-> None, overtaken |-> FALSE]]
    /\ UNCHANGED <<users, edits, keys, cache, calls, since, late, crossed>>

(* create flushes the revocations and the new row, and the answer leaves   *)
(* with the new key.  Until the commit the revoked rows are locked.        *)
RotateFlush(r, k) ==
    /\ rots[r].pc = "flush"
    /\ ~ Issued(k) /\ \A q \in Rotations : rots[q].new # k
    /\ \A q \in Rotations : rots[q].pc = "commit" => rots[q].seen \cap rots[r].seen = {}
    /\ rots' = [rots EXCEPT ![r].pc = "commit", ![r].new = k]
    /\ UNCHANGED <<users, edits, keys, cache, calls, since, late, crossed>>

(* The keys whose user and row are good again start counting anew. *)
Recount == since' = [k \in Keys |-> IF Good(k)' THEN 0 ELSE since[k]]

(* RotatedKeepingOld is not the code: it forgets the revocations. *)
RotatedKeepingOld(t) ==
    [k \in Keys |-> IF k = t.new THEN [user |-> t.user, status |-> "active"] ELSE keys[k]]

Rotated(t) ==
    [k \in Keys |->
        IF k = t.new THEN [user |-> t.user, status |-> "active"]
        ELSE IF k \in t.seen THEN [keys[k] EXCEPT !.status = "revoked"]
        ELSE keys[k]]

(* A rotation ends, and the others under way for its user are overtaken.   *)
Overtaking(r) ==
    [q \in Rotations |->
        IF q = r THEN IdleRotation
        ELSE IF rots[q].user = rots[r].user THEN [rots[q] EXCEPT !.overtaken = TRUE]
        ELSE rots[q]]

RotateCommit(r) ==
    LET t == rots[r] IN
    /\ t.pc = "commit"
    /\ keys' = Rotated(t)
    /\ rots' = Overtaking(r)
    /\ crossed' = IF t.overtaken THEN crossed \cup {t.user} ELSE crossed \ {t.user}
    /\ UNCHANGED <<users, edits, cache, calls, late>>
    /\ Recount

(* RotateHalfway is not the code: the revocations have a commit of their own. *)
RotateHalfway(r) ==
    /\ rots[r].pc # "idle"
    /\ keys' = [k \in Keys |-> IF k \in rots[r].seen THEN [keys[k] EXCEPT !.status = "revoked"]
                                                     ELSE keys[k]]
    /\ rots' = [rots EXCEPT ![r] = IdleRotation]
    /\ UNCHANGED <<users, edits, cache, calls, since, late, crossed>>

RotateFails(r) ==
    /\ rots[r].pc # "idle"
    /\ rots' = [rots EXCEPT ![r] = IdleRotation]
    /\ UNCHANGED <<users, edits, keys, cache, calls, since, late, crossed>>

-----------------------------------------------------------------------------
(* _resolve_api_key: a request presents key k. *)

(* Redis knows the key, and the request is let in.                         *)
(* HitExtending is not the code: it makes the entry young again.           *)
HitExtending(c, k) ==
    /\ calls[c].pc = "idle" /\ cache[k] > 0
    /\ cache' = [cache EXCEPT ![k] = KeyTtl]
    /\ UNCHANGED <<users, edits, keys, rots, calls, since, late, crossed>>

Hit(c, k) ==
    /\ calls[c].pc = "idle" /\ cache[k] > 0
    /\ UNCHANGED keyVars

Miss(c, k) ==
    /\ calls[c].pc = "idle" /\ cache[k] = 0
    /\ calls' = [calls EXCEPT ![c] = [pc |-> "key", key |-> k]]
    /\ UNCHANGED <<users, edits, keys, rots, cache, since, late, crossed>>

(* A check of the database: the request goes on, or is turned away.        *)
Check(c, label, passes, next) ==
    /\ calls[c].pc = label
    /\ calls' = [calls EXCEPT ![c] = IF passes THEN [@ EXCEPT !.pc = next] ELSE IdleCall]
    /\ UNCHANGED <<users, edits, keys, rots, cache, since, late, crossed>>

CheckKey(c) == Check(c, "key", Active(calls[c].key), "user")

CheckUser(c) == Check(c, "user", Usable(keys[calls[c].key].user), "store")

(* The entry is written, and the request let in.                           *)
(* RememberTooLong is not the code: it takes the seconds for minutes.      *)
RememberTooLong(c) ==
    LET k == calls[c].key IN
    /\ calls[c].pc = "store"
    /\ cache' = [cache EXCEPT ![k] = 60 * KeyTtl]
    /\ late' = IF Good(k) THEN late \ {k} ELSE late \cup {k}
    /\ calls' = [calls EXCEPT ![c] = IdleCall]
    /\ UNCHANGED <<users, edits, keys, rots, since, crossed>>

Remember(c) ==
    LET k == calls[c].key IN
    /\ calls[c].pc = "store"
    /\ cache' = [cache EXCEPT ![k] = KeyTtl]
    /\ late' = IF Good(k) THEN late \ {k} ELSE late \cup {k}
    /\ calls' = [calls EXCEPT ![c] = IdleCall]
    /\ UNCHANGED <<users, edits, keys, rots, since, crossed>>

(* A store does not answer, and the request fails. *)
CallFails(c) ==
    /\ calls[c].pc # "idle"
    /\ calls' = [calls EXCEPT ![c] = IdleCall]
    /\ UNCHANGED <<users, edits, keys, rots, cache, since, late, crossed>>

-----------------------------------------------------------------------------
(* Time passes, and Redis drops what has expired. *)
Tick ==
    /\ cache' = [k \in Keys |-> IF cache[k] > 0 THEN cache[k] - 1 ELSE 0]
    /\ since' = [k \in Keys |-> IF Good(k) \/ ~ Issued(k) THEN 0
                                ELSE IF since[k] > KeyTtl THEN since[k] ELSE since[k] + 1]
    /\ UNCHANGED <<users, edits, keys, rots, calls, late, crossed>>

CallStep(c) == CheckKey(c) \/ CheckUser(c) \/ Remember(c) \/ CallFails(c)

KeysNext ==
    \/ \E e \in Edits :
          \/ (EditBegin(e) \/ EditFails(e)) /\ UNCHANGED <<keys, rots, cache, calls, since, late, crossed>>
          \/ EditCommit(e) /\ UNCHANGED <<keys, rots, cache, calls, late, crossed>> /\ Recount
    \/ \E r \in Rotations :
          \/ \E u \in Users : RotateRead(r, u)
          \/ \E k \in Keys : RotateFlush(r, k)
          \/ RotateCommit(r) \/ RotateFails(r)
    \/ \E c \in Calls :
          \/ \E k \in Keys : Hit(c, k) \/ Miss(c, k)
          \/ CallStep(c)
    \/ Tick

KeysSpec == KeysInit /\ [][KeysNext]_keyVars

-----------------------------------------------------------------------------
(* Properties. *)

KeysTypeOK ==
    /\ AccountsTypeOK
    /\ keys \in [Keys -> KeyRows \cup {NoKey}]
    /\ rots \in [Rotations -> [pc : {"idle", "flush", "commit"}, user : Users \cup {None},
                               seen : SUBSET Keys, new : Keys \cup {None},
                               overtaken : BOOLEAN]]
    /\ cache \in [Keys -> 0 .. KeyTtl]
    /\ calls \in [Calls -> [pc : {"idle", "key", "user", "store"}, key : Keys \cup {None}]]
    /\ since \in [Keys -> 0 .. KeyTtl + 1]
    /\ late \subseteq Keys
    /\ crossed \subseteq Users

(* A key that was revoked, or whose user was suspended or deleted, works   *)
(* for one life of a cache entry at most, counted from that moment, unless *)
(* a request it overtook wrote the entry after it: hits do not extend the  *)
(* entry.                                                                  *)
KeysDieInTime ==
    \A k \in Keys : cache[k] > 0 /\ k \notin late => since[k] + cache[k] <= KeyTtl

(* "Old key disabled atomically": however rotations, edits and failures    *)
(* interleave, a user has two active keys only where a rotation was        *)
(* overtaken, that is where another of the same user committed between its *)
(* read and its own commit; and the next one that is not repairs it.       *)
TwoKeysOnlyByOvertaking ==
    \A u \in Users : u \notin crossed => Cardinality(ActiveKeys(u)) <= 1

(* A user has one active key at most, for get_active_for_user asks for     *)
(* scalar_one_or_none.                                                     *)
OneActiveKey == \A u \in Users : Cardinality(ActiveKeys(u)) <= 1

(* A user who was given a key has one that is active: the old key goes and *)
(* the new one comes in one transaction, whatever fails.                   *)
NeverWithoutKey ==
    \A k \in Keys : Issued(k) => ActiveKeys(keys[k].user) # {}
=============================================================================
