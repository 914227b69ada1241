---------------------------- MODULE QueriesProofs ----------------------------
(***************************************************************************)
(* The readers of the tables, for any number of rows, any page size and    *)
(* any periods: what a walk from the first page to the last misses, and    *)
(* whether the figures of a dashboard fit together.                        *)
(***************************************************************************)
EXTENDS DetailPage, FiniteSetTheorems, TLAPS

(* A row's place among those of a set, newest first. *)
RankIn(S, r) == Cardinality({s \in S : s >= r})

(* The rows of U that come on the first n places of S. *)
Among(U, S, n) == {r \in U : RankIn(S, r) <= n}

-----------------------------------------------------------------------------
(* Places. *)

LEMMA RowsAreFew ==
    ASSUME NEW S \in SUBSET Rows
    PROVE  IsFiniteSet(S) /\ Cardinality(S) \in 0 .. MaxRow
<1>1. IsFiniteSet(Rows) /\ Cardinality(Rows) = MaxRow
  BY FS_Interval, ListingConstants DEF Rows
<1> QED BY <1>1, FS_Subset, FS_CardinalityType, ListingConstants

LEMMA CountIsNat == \A S \in SUBSET Rows : Cardinality(S) \in Nat
BY RowsAreFew

LEMMA RankBounds ==
    ASSUME NEW S \in SUBSET Rows, NEW r \in S
    PROVE  RankIn(S, r) \in 1 .. Cardinality(S)
<1> DEFINE T == {s \in S : s >= r}
<1>1. T \in SUBSET S /\ r \in T
  BY ListingConstants DEF Rows
<1>2. IsFiniteSet(S) /\ Cardinality(S) \in Nat
  BY RowsAreFew
<1>3. IsFiniteSet(T) /\ Cardinality(T) <= Cardinality(S) /\ Cardinality(T) \in Nat
  BY <1>1, <1>2, FS_Subset, FS_CardinalityType
<1>4. Cardinality(T) # 0
  BY <1>1, <1>3, FS_EmptySet
<1> QED BY <1>2, <1>3, <1>4 DEF RankIn

LEMMA RankIsNat == \A S \in SUBSET Rows : \A r \in S : RankIn(S, r) \in Nat
<1>1. ASSUME NEW S \in SUBSET Rows, NEW r \in S PROVE RankIn(S, r) \in Nat
  <2>1. RankIn(S, r) \in 1 .. Cardinality(S) /\ Cardinality(S) \in Nat
    BY RankBounds, CountIsNat
  <2> QED BY <2>1
<1> QED BY <1>1

(* A newer row comes before an older one. *)
LEMMA RankFalls ==
    ASSUME NEW S \in SUBSET Rows, NEW r \in S, NEW s \in S, r < s
    PROVE  RankIn(S, s) < RankIn(S, r)
<1> DEFINE A == {q \in S : q >= s}
           B == {q \in S : q >= r}
<1>0. S \subseteq Nat /\ r \in Nat /\ s \in Nat
  BY DEF Rows
<1>1. A \in SUBSET B /\ r \in B /\ r \notin A
  <2>1. \A q \in A : q \in B
    BY <1>0
  <2>2. r \in B
    BY <1>0
  <2>3. r \notin A
    BY <1>0
  <2> QED BY <2>1, <2>2, <2>3
<1>2. IsFiniteSet(B) /\ Cardinality(B) \in Nat
  <2>1. B \in SUBSET Rows
    OBVIOUS
  <2> QED BY <2>1, RowsAreFew
<1>3. IsFiniteSet(A) /\ Cardinality(A) <= Cardinality(B) /\ Cardinality(A) # Cardinality(B)
  BY <1>1, <1>2, FS_Subset
<1>4. Cardinality(A) \in Nat
  BY <1>3, FS_CardinalityType
<1> QED BY <1>2, <1>3, <1>4 DEF RankIn

LEMMA RanksDiffer ==
    ASSUME NEW S \in SUBSET Rows, NEW r \in S, NEW s \in S, RankIn(S, r) = RankIn(S, s)
    PROVE  r = s
<1>1. r \in Int /\ s \in Int /\ RankIn(S, r) \in Int /\ RankIn(S, s) \in Int
  BY RankBounds DEF Rows
<1>2. ~ r < s /\ ~ s < r
  BY <1>1, RankFalls
<1> QED BY <1>1, <1>2

(* Only so many rows come after the first n. *)
LEMMA FewAfter ==
    ASSUME NEW S \in SUBSET Rows, NEW n \in Nat, NEW m \in Nat, Cardinality(S) <= n + m
    PROVE  Cardinality({r \in S : RankIn(S, r) > n}) <= m
<1> DEFINE A == {r \in S : RankIn(S, r) > n}
           T == (n + 1) .. (n + m)
           f == [r \in A |-> RankIn(S, r)]
<1>1. \A r \in A : RankIn(S, r) \in T
  BY RankBounds, RowsAreFew
<1>2. \A r, s \in A : f[r] = f[s] => r = s
  BY RanksDiffer
<1>3. f \in Injection(A, T)
  BY <1>1, <1>2 DEF Injection, IsInjective
<1>4. IsFiniteSet(T) /\ Cardinality(T) = m
  BY FS_Interval
<1> HIDE DEF f, T
<1> QED BY <1>3, <1>4, FS_Injection

-----------------------------------------------------------------------------
(* A row enters or leaves. *)

LEMMA Entering ==
    ASSUME NEW S \in SUBSET Rows, NEW x \in Rows, NEW r \in Rows
    PROVE  RankIn(S, r) <= RankIn(S \cup {x}, r)
<1> DEFINE A == {q \in S : q >= r}
           B == {q \in S \cup {x} : q >= r}
<1>1. B \in SUBSET Rows /\ A \in SUBSET B
  OBVIOUS
<1>2. IsFiniteSet(B)
  BY <1>1, RowsAreFew
<1> QED BY <1>1, <1>2, FS_Subset DEF RankIn

LEMMA Leaving ==
    ASSUME NEW S \in SUBSET Rows, NEW x \in S, NEW r \in Rows
    PROVE  RankIn(S, r) <= RankIn(S \ {x}, r) + 1
<1> DEFINE A == {q \in S : q >= r}
           B == {q \in S \ {x} : q >= r}
<1>1. B = A \ {x} /\ A \in SUBSET Rows
  OBVIOUS
<1>2. IsFiniteSet(A) /\ Cardinality(A) \in Nat
  BY <1>1, RowsAreFew
<1>3. Cardinality(B) = IF x \in A THEN Cardinality(A) - 1 ELSE Cardinality(A)
  BY <1>1, <1>2, FS_RemoveElement
<1> QED BY <1>2, <1>3 DEF RankIn

(* One row at most comes among the first n when another leaves. *)
LEMMA OneMoves ==
    ASSUME NEW S \in SUBSET Rows, NEW x \in S, NEW U \in SUBSET S, NEW n \in Nat
    PROVE  Cardinality(Among(U \ {x}, S \ {x}, n)) <= Cardinality(Among(U, S, n)) + 1
<1> DEFINE A == Among(U \ {x}, S \ {x}, n)
           B == Among(U, S, n)
           C == {r \in U : RankIn(S, r) = n + 1}
<1>1. A \in SUBSET (B \cup C)
  <2> SUFFICES ASSUME NEW r \in A PROVE r \in B \/ r \in C
    OBVIOUS
  <2>1. r \in U /\ r \in S /\ r \in S \ {x} /\ r \in Rows /\ RankIn(S \ {x}, r) <= n
    BY DEF Among
  <2>2. RankIn(S, r) <= RankIn(S \ {x}, r) + 1
    BY <2>1, Leaving
  <2>3. RankIn(S, r) \in Nat /\ RankIn(S \ {x}, r) \in Nat
    BY <2>1, RankBounds, RowsAreFew
  <2> QED BY <2>1, <2>2, <2>3 DEF Among
<1>2. B \in SUBSET Rows /\ C \in SUBSET Rows
  BY DEF Among
<1>3. IsFiniteSet(B) /\ IsFiniteSet(C) /\ Cardinality(B) \in Nat
  BY <1>2, RowsAreFew
<1>4. Cardinality(C) <= 1
  <2>1. \A r, s \in C : r = s
    BY RanksDiffer
  <2>2. CASE C = {}
    BY <2>2, FS_EmptySet
  <2>3. CASE C # {}
    <3>1. PICK r : r \in C
      BY <2>3
    <3>2. C = {r}
      BY <2>1, <3>1
    <3> HIDE DEF C
    <3> QED BY <3>2, FS_Singleton
  <2> QED BY <2>2, <2>3
<1> HIDE DEF A, B, C
<1>5. IsFiniteSet(B \cup C) /\ Cardinality(B \cup C) <= Cardinality(B) + 1
  <2>1. /\ IsFiniteSet(B \cup C)
        /\ Cardinality(B \cup C) = Cardinality(B) + Cardinality(C) - Cardinality(B \cap C)
    BY <1>3, FS_Union
  <2>2. B \cap C \in SUBSET Rows
    BY <1>2
  <2>3. Cardinality(B \cap C) \in Nat /\ Cardinality(C) \in Nat
    BY <1>2, <2>2, RowsAreFew
  <2> QED BY <1>3, <1>4, <2>1, <2>3
<1>6. Cardinality(A) <= Cardinality(B \cup C) /\ Cardinality(A) \in Nat /\ Cardinality(B \cup C) \in Nat
  BY <1>1, <1>5, FS_Subset, FS_CardinalityType
<1> QED BY <1>3, <1>5, <1>6 DEF A, B

-----------------------------------------------------------------------------
(* The walk. *)

(* Of the rows still unseen, no more come before the end of the pages      *)
(* shown than rows have left; and between a count and its page, no more    *)
(* rows are listed than were counted or have entered since.                *)
WalkInv ==
    /\ unseen \subseteq Listed
    /\ walk.asked <= walk.top + 1 /\ walk.page <= walk.top
    /\ walk.pc \in {"asked", "counted"} => walk.asked >= 1
    /\ Cardinality(Among(unseen, Listed, walk.top * Size)) <= left
    /\ walk.pc = "counted" => Cardinality(Listed) <= walk.total + grew
    /\ WalkMissesFew

ListingsInv == ListingsTypeOK /\ WalkInv

LEMMA ListedAreRows == Listed \in SUBSET Rows
BY DEF Listed

LEMMA NoneMissed == ASSUME NEW S, NEW n PROVE Among({}, S, n) = {} /\ Cardinality({}) = 0
BY FS_EmptySet DEF Among

LEMMA ListingsInvInit == ListingsInit => ListingsInv
<1> SUFFICES ASSUME ListingsInit PROVE ListingsInv
  OBVIOUS
<1> USE DEF ListingsInit, IdleWalk
<1>1. ListingsTypeOK
  BY ListingConstants DEF ListingsTypeOK
<1>2. Among(unseen, Listed, walk.top * Size) = {} /\ Cardinality({}) = 0
  BY NoneMissed
<1>3. WalkInv
  BY <1>2 DEF WalkInv, WalkMissesFew
<1> QED BY <1>1, <1>3 DEF ListingsInv

(* A transaction changes one row. *)
LEMMA OneRow ==
    ASSUME ListingsTypeOK, TableStep
    PROVE  /\ table' \in [Rows -> {"absent", "deleted", "written"} \cup JobStatuses \cup UserStatuses]
           /\ \E r \in Rows : \A s \in Rows \ {r} : table'[s] = table[s]
<1>1. ASSUME NEW r \in Rows, NEW to \in {"absent", "deleted", "written"} \cup JobStatuses \cup UserStatuses,
             table' = [table EXCEPT ![r] = to]
      PROVE  /\ table' \in [Rows -> {"absent", "deleted", "written"} \cup JobStatuses \cup UserStatuses]
             /\ \A s \in Rows \ {r} : table'[s] = table[s]
  BY <1>1 DEF ListingsTypeOK
<1>2. CASE Lifecycle!Next
  BY <1>1, <1>2 DEF Lifecycle!Next, Lifecycle!Submit, Lifecycle!Start, Lifecycle!Finish,
        Lifecycle!Reopen, Lifecycle!Overrule, Lifecycle!Become, JobStatuses
<1>3. CASE UserStep
  BY <1>1, <1>3 DEF UserStep
<1>4. CASE EntryStep
  BY <1>1, <1>4 DEF EntryStep
<1> QED BY <1>2, <1>3, <1>4 DEF TableStep

(* So one row enters the listing, or leaves it, or none. *)
LEMMA OneEntersOrLeaves ==
    ASSUME ListingsTypeOK, TableStep, UNCHANGED filter
    PROVE  \/ Listed' = Listed
           \/ \E x \in Rows \ Listed : Listed' = Listed \cup {x}
           \/ \E x \in Listed : Listed' = Listed \ {x}
<1>1. PICK r \in Rows : \A s \in Rows \ {r} : table'[s] = table[s]
  BY OneRow
<1>2. \A s \in Rows \ {r} : s \in Listed' <=> s \in Listed
  BY <1>1 DEF Listed, MatchesIn
<1>3. Listed \subseteq Rows /\ Listed' \subseteq Rows
  BY DEF Listed
<1> HIDE DEF Listed
<1> QED BY <1>2, <1>3

LEMMA CommitWalks == ListingsInv /\ Commit => ListingsInv'
<1> SUFFICES ASSUME ListingsInv, Commit PROVE ListingsInv'
  OBVIOUS
<1>0. /\ Listed \in SUBSET Rows /\ unseen \in SUBSET Listed
      /\ walk.top \in Nat /\ walk.top * Size \in Nat /\ left \in Nat /\ grew \in Nat
  BY ListedAreRows, ListingConstants DEF ListingsInv, ListingsTypeOK, WalkInv
<1>1. /\ walk' = walk /\ unseen' = unseen \cap Listed'
      /\ left' = IF Listed \subseteq Listed' THEN left ELSE left + 1
      /\ grew' = IF walk.pc = "counted" /\ ~ Listed' \subseteq Listed THEN grew + 1 ELSE grew
  BY DEF Commit
<1>2. ListingsTypeOK'
  <2>1. /\ table' \in [Rows -> {"absent", "deleted", "written"} \cup JobStatuses \cup UserStatuses]
        /\ UNCHANGED <<listing, filter>>
    BY OneRow DEF Commit, ListingsInv
  <2>2. left' \in 0 .. MaxLeft
    BY ListingConstants DEF Commit, ListingsInv, ListingsTypeOK
  <2>3. grew' \in Nat /\ unseen' \subseteq Rows
    BY <1>0, <1>1
  <2> QED BY <1>1, <2>1, <2>2, <2>3 DEF ListingsInv, ListingsTypeOK, Filters
<1>3. \/ Listed' = Listed
      \/ \E x \in Rows \ Listed : Listed' = Listed \cup {x}
      \/ \E x \in Listed : Listed' = Listed \ {x}
  BY OneEntersOrLeaves DEF Commit, ListingsInv
<1>4. Cardinality(Among(unseen', Listed', walk.top * Size)) <= left'
  <2>0. Cardinality(Among(unseen, Listed, walk.top * Size)) <= left
    BY DEF ListingsInv, WalkInv
  <2>1. CASE Listed' = Listed
    BY <1>0, <1>1, <2>0, <2>1
  <2>2. ASSUME NEW x \in Rows \ Listed, Listed' = Listed \cup {x}
        PROVE  Cardinality(Among(unseen', Listed', walk.top * Size)) <= left'
    <3>1. unseen' = unseen /\ left' = left
      BY <1>0, <1>1, <2>2
    <3> DEFINE A == Among(unseen, Listed', walk.top * Size)
               B == Among(unseen, Listed, walk.top * Size)
    <3>2. A \in SUBSET B
      <4> SUFFICES ASSUME NEW r \in A PROVE r \in B
        OBVIOUS
      <4>1. r \in unseen /\ RankIn(Listed', r) <= walk.top * Size
        BY DEF Among
      <4>2. r \in Listed /\ r \in Listed' /\ r \in Rows /\ Listed' \in SUBSET Rows
        BY <1>0, <2>2, <4>1
      <4>3. RankIn(Listed, r) <= RankIn(Listed', r)
        BY <1>0, <2>2, <4>2, Entering
      <4>4. RankIn(Listed, r) \in Nat /\ RankIn(Listed', r) \in Nat
        BY <1>0, <4>2, RankIsNat
      <4> QED BY <1>0, <4>1, <4>3, <4>4 DEF Among
    <3>3. B \in SUBSET Rows /\ A \in SUBSET Rows
      BY <1>0 DEF Among
    <3>4. IsFiniteSet(B) /\ Cardinality(B) \in Nat /\ Cardinality(A) \in Nat
      BY <3>3, RowsAreFew
    <3>5. Cardinality(A) <= Cardinality(B)
      BY <3>2, <3>4, FS_Subset
    <3> QED BY <1>0, <2>0, <3>1, <3>4, <3>5
  <2>3. ASSUME NEW x \in Listed, Listed' = Listed \ {x}
        PROVE  Cardinality(Among(unseen', Listed', walk.top * Size)) <= left'
    <3>1. unseen' = unseen \ {x} /\ left' = left + 1
      BY <1>0, <1>1, <2>3
    <3>2. Cardinality(Among(unseen \ {x}, Listed \ {x}, walk.top * Size))
             <= Cardinality(Among(unseen, Listed, walk.top * Size)) + 1
      BY <1>0, OneMoves
    <3>3. /\ Among(unseen, Listed, walk.top * Size) \in SUBSET Rows
          /\ Among(unseen \ {x}, Listed \ {x}, walk.top * Size) \in SUBSET Rows
      BY <1>0 DEF Among
    <3>4. /\ Cardinality(Among(unseen, Listed, walk.top * Size)) \in Nat
          /\ Cardinality(Among(unseen \ {x}, Listed \ {x}, walk.top * Size)) \in Nat
      BY <3>3, CountIsNat
    <3> QED BY <1>0, <2>0, <2>3, <3>1, <3>2, <3>4
  <2> QED BY <1>3, <2>1, <2>2, <2>3
<1>5. walk.pc = "counted" => Cardinality(Listed') <= walk.total + grew'
  <2> SUFFICES ASSUME walk.pc = "counted" PROVE Cardinality(Listed') <= walk.total + grew'
    OBVIOUS
  <2>0. /\ Cardinality(Listed) <= walk.total + grew /\ walk.total \in Nat
        /\ IsFiniteSet(Listed) /\ Cardinality(Listed) \in Nat
    BY <1>0, RowsAreFew DEF ListingsInv, WalkInv, ListingsTypeOK
  <2>1. CASE Listed' = Listed
    BY <1>1, <2>0, <2>1
  <2>2. ASSUME NEW x \in Rows \ Listed, Listed' = Listed \cup {x}
        PROVE  Cardinality(Listed') <= walk.total + grew'
    <3>1. Cardinality(Listed') = Cardinality(Listed) + 1
      BY <2>0, <2>2, FS_AddElement
    <3>2. grew' = grew + 1
      BY <1>1, <2>2
    <3> QED BY <1>0, <2>0, <3>1, <3>2
  <2>3. ASSUME NEW x \in Listed, Listed' = Listed \ {x}
        PROVE  Cardinality(Listed') <= walk.total + grew'
    <3>1. Cardinality(Listed') = Cardinality(Listed) - 1
      BY <2>0, <2>3, FS_RemoveElement
    <3>2. grew' = grew
      BY <1>1, <2>3
    <3> QED BY <1>0, <2>0, <3>1, <3>2
  <2> QED BY <1>3, <2>1, <2>2, <2>3
<1>6. WalkMissesFew'
  <2>1. Cardinality(unseen') <= Cardinality(unseen) /\ Cardinality(unseen') \in Nat
        /\ Cardinality(unseen) \in Nat
    <3>1. unseen' \in SUBSET unseen /\ unseen \in SUBSET Rows
      BY <1>0, <1>1
    <3>2. IsFiniteSet(unseen) /\ Cardinality(unseen) \in Nat
      BY <3>1, RowsAreFew
    <3> QED BY <3>1, <3>2, FS_Subset, FS_CardinalityType
  <2>2. left <= left' /\ grew <= grew' /\ left' \in Nat /\ grew' \in Nat
    BY <1>0, <1>1
  <2>3. LastPage' = LastPage
    BY <1>1 DEF LastPage
  <2> QED BY <1>0, <1>1, <2>1, <2>2, <2>3 DEF WalkMissesFew, ListingsInv, WalkInv
<1>7. WalkInv'
  <2>1. unseen' \subseteq Listed'
    BY <1>1
  <2> QED BY <1>1, <1>4, <1>5, <1>6, <2>1 DEF ListingsInv, WalkInv
<1> QED BY <1>2, <1>7 DEF ListingsInv

LEMMA TurnWalks == ListingsInv /\ (Open \/ Turn) => ListingsInv'
<1> SUFFICES ASSUME ListingsInv, Open \/ Turn PROVE ListingsInv'
  OBVIOUS
<1>0. Listed' = Listed /\ UNCHANGED <<listing, filter, table>>
  BY DEF Open, Turn, Listed, MatchesIn
<1>1. ListingsTypeOK'
  <2>1. walk' \in [pc : {"idle", "asked", "counted", "shown"}, page : Nat, asked : Nat,
                   total : 0 .. MaxRow, top : Nat]
    <3>1. CASE Open
      <4>1. walk' = [pc |-> "asked", page |-> 0, asked |-> 1, total |-> 0, top |-> 0]
        BY <3>1 DEF Open, IdleWalk
      <4>2. 0 \in 0 .. MaxRow
        BY ListingConstants
      <4> QED BY <4>1, <4>2
    <3>2. CASE Turn
      <4>1. PICK to \in {walk.page - 1, walk.page, walk.page + 1} :
               to >= 1 /\ walk' = [walk EXCEPT !.pc = "asked", !.asked = to]
        BY <3>2 DEF Turn
      <4>2. to \in Nat
        BY <4>1 DEF ListingsInv, ListingsTypeOK
      <4> QED BY <4>1, <4>2 DEF ListingsInv, ListingsTypeOK
    <3> QED BY <3>1, <3>2
  <2>2. unseen' \subseteq Rows /\ left' \in 0 .. MaxLeft /\ grew' \in Nat
    BY ListingConstants DEF ListingsInv, ListingsTypeOK, Open, Turn
  <2> QED BY <1>0, <2>1, <2>2 DEF ListingsInv, ListingsTypeOK, Filters
<1>2. CASE Open
  <2>1. walk' = [IdleWalk EXCEPT !.pc = "asked", !.asked = 1] /\ unseen' = {} /\ left' = 0
    BY <1>2 DEF Open
  <2>2. /\ walk'.pc = "asked" /\ walk'.asked = 1 /\ walk'.top = 0 /\ walk'.page = 0
    BY <2>1 DEF IdleWalk
  <2>3. Cardinality(Among(unseen', Listed', walk'.top * Size)) = 0
    BY <2>1, NoneMissed
  <2>4. WalkInv'
    BY <2>1, <2>2, <2>3 DEF WalkInv, WalkMissesFew
  <2> QED BY <1>1, <2>4 DEF ListingsInv
<1>3. CASE Turn
  <2>1. PICK to \in {walk.page - 1, walk.page, walk.page + 1} :
           to >= 1 /\ walk' = [walk EXCEPT !.pc = "asked", !.asked = to]
    BY <1>3 DEF Turn
  <2>2. walk'.pc = "asked" /\ walk'.asked = to /\ walk'.page = walk.page /\ walk'.top = walk.top
    BY <2>1 DEF ListingsInv, ListingsTypeOK
  <2>3. UNCHANGED <<unseen, left, grew>>
    BY <1>3 DEF Turn
  <2>4. to <= walk'.top + 1 /\ to >= 1
    BY <2>1, <2>2 DEF ListingsInv, ListingsTypeOK, WalkInv
  <2>5. Cardinality(Among(unseen', Listed', walk'.top * Size)) <= left'
    BY <1>0, <2>2, <2>3 DEF ListingsInv, WalkInv
  <2>6. WalkInv'
    BY <1>0, <2>2, <2>3, <2>4, <2>5 DEF ListingsInv, WalkInv, WalkMissesFew
  <2> QED BY <1>1, <2>6 DEF ListingsInv
<1> QED BY <1>2, <1>3

LEMMA CountWalks == ListingsInv /\ Count => ListingsInv'
<1> SUFFICES ASSUME ListingsInv, Count PROVE ListingsInv'
  OBVIOUS
<1>0. /\ Listed' = Listed /\ Listed \in SUBSET Rows
      /\ walk' = [walk EXCEPT !.pc = "counted", !.total = Cardinality(Listed)]
      /\ unseen' = (IF walk.top = 0 THEN Listed ELSE unseen)
      /\ grew' = 0 /\ UNCHANGED <<listing, filter, table, left>>
  BY ListedAreRows DEF Count, Listed, MatchesIn
<1>1. Cardinality(Listed) \in 0 .. MaxRow
  BY <1>0, RowsAreFew
<1>2. /\ walk'.pc = "counted" /\ walk'.total = Cardinality(Listed)
      /\ walk'.asked = walk.asked /\ walk'.page = walk.page /\ walk'.top = walk.top
      /\ walk.asked >= 1
  BY <1>0 DEF ListingsInv, ListingsTypeOK, WalkInv, Count
<1>3. ListingsTypeOK'
  <2>1. walk' \in [pc : {"idle", "asked", "counted", "shown"}, page : Nat, asked : Nat,
                   total : 0 .. MaxRow, top : Nat]
    BY <1>0, <1>1 DEF ListingsInv, ListingsTypeOK
  <2> QED BY <1>0, <2>1 DEF ListingsInv, ListingsTypeOK, Filters
<1>4. Cardinality(Among(unseen', Listed', walk'.top * Size)) <= left'
  <2>1. CASE walk.top = 0
    <3>1. Among(unseen', Listed', walk'.top * Size) = {}
      <4>1. walk'.top * Size = 0
        BY <1>2, <2>1, ListingConstants
      <4>2. ASSUME NEW r \in Listed, RankIn(Listed, r) <= 0 PROVE FALSE
        <5>1. RankIn(Listed, r) \in 1 .. Cardinality(Listed)
          BY <1>0, RankBounds
        <5> QED BY <1>1, <4>2, <5>1
      <4> QED BY <1>0, <2>1, <4>1, <4>2 DEF Among
    <3> QED BY <1>0, <3>1, FS_EmptySet DEF ListingsInv, ListingsTypeOK
  <2>2. CASE walk.top # 0
    BY <1>0, <1>2, <2>2 DEF ListingsInv, WalkInv
  <2> QED BY <2>1, <2>2
<1>5. WalkInv'
  <2>1. unseen' \subseteq Listed'
    BY <1>0 DEF ListingsInv, WalkInv
  <2>2. Cardinality(Listed') <= walk'.total + grew'
    BY <1>0, <1>1, <1>2
  <2> QED BY <1>2, <1>4, <2>1, <2>2 DEF ListingsInv, WalkInv, WalkMissesFew
<1> QED BY <1>3, <1>5 DEF ListingsInv

(* The rows of the page leave the unseen, so that the rows before the end  *)
(* of the pages shown stay as few; and past the last page there are no     *)
(* more than entered since the count.                                      *)
LEMMA ShowWalks == ListingsInv /\ Show => ListingsInv'
<1> SUFFICES ASSUME ListingsInv, Show PROVE ListingsInv'
  OBVIOUS
<1> DEFINE t == walk.top * Size
           u == walk'.top * Size
<1>0. /\ Listed' = Listed /\ Listed \in SUBSET Rows /\ unseen \in SUBSET Listed
      /\ unseen' = unseen \ Window(walk.asked)
      /\ UNCHANGED <<listing, filter, table, left, grew>>
      /\ left \in Nat /\ grew \in Nat
  BY ListedAreRows, ListingConstants DEF Show, Listed, MatchesIn, ListingsInv, ListingsTypeOK, WalkInv
<1>1. /\ walk.asked \in Nat /\ walk.top \in Nat /\ walk.total \in Nat
      /\ walk.asked >= 1 /\ walk.asked <= walk.top + 1
      /\ Cardinality(Listed) <= walk.total + grew
      /\ Cardinality(Among(unseen, Listed, t)) <= left
  BY DEF Show, ListingsInv, ListingsTypeOK, WalkInv
<1>2. /\ walk'.pc = "shown" /\ walk'.page = walk.asked /\ walk'.total = walk.total
      /\ walk'.asked = walk.asked
      /\ walk'.top = IF walk.asked > walk.top THEN walk.asked ELSE walk.top
  BY DEF Show, ListingsInv, ListingsTypeOK
<1>3. ListingsTypeOK'
  <2>1. walk' \in [pc : {"idle", "asked", "counted", "shown"}, page : Nat, asked : Nat,
                   total : 0 .. MaxRow, top : Nat]
    BY DEF Show, ListingsInv, ListingsTypeOK
  <2> QED BY <1>0, <2>1 DEF ListingsInv, ListingsTypeOK, Filters
<1>4. t \in Nat /\ u \in Nat /\ walk'.top \in Nat /\ walk'.page \in Nat /\ walk'.page <= walk'.top
  BY <1>1, <1>2, ListingConstants
<1>5. Among(unseen', Listed, u) \in SUBSET Among(unseen, Listed, t)
  <2>1. CASE walk.asked <= walk.top
    <3>1. u = t
      BY <1>1, <1>2, <2>1
    <3> QED BY <1>0, <3>1 DEF Among
  <2>2. CASE walk.asked = walk.top + 1
    <3>1. walk'.top = walk.asked /\ walk.asked - 1 = walk.top
      BY <1>1, <1>2, <2>2
    <3>2. Window(walk.asked) = {r \in Listed : t < Rank(r) /\ Rank(r) <= u}
      BY <3>1 DEF Window
    <3> SUFFICES ASSUME NEW r \in Among(unseen', Listed, u) PROVE r \in Among(unseen, Listed, t)
      OBVIOUS
    <3>3. r \in unseen /\ r \in Listed /\ RankIn(Listed, r) <= u /\ r \notin Window(walk.asked)
      BY <1>0 DEF Among
    <3>4. Rank(r) = RankIn(Listed, r)
      BY DEF Rank, RankIn
    <3>5. RankIn(Listed, r) \in Nat
      BY <1>0, <3>3, RankIsNat
    <3>6. RankIn(Listed, r) <= t
      BY <1>4, <3>2, <3>3, <3>4, <3>5
    <3> QED BY <3>3, <3>6 DEF Among
  <2> QED BY <1>1, <2>1, <2>2
<1>6. Cardinality(Among(unseen', Listed, u)) <= left
  <2>1. Among(unseen, Listed, t) \in SUBSET Rows /\ Among(unseen', Listed, u) \in SUBSET Rows
    BY <1>0 DEF Among
  <2>2. /\ IsFiniteSet(Among(unseen, Listed, t))
        /\ Cardinality(Among(unseen, Listed, t)) \in Nat
        /\ Cardinality(Among(unseen', Listed, u)) \in Nat
    BY <2>1, RowsAreFew
  <2>3. Cardinality(Among(unseen', Listed, u)) <= Cardinality(Among(unseen, Listed, t))
    BY <1>5, <2>2, FS_Subset
  <2> QED BY <1>0, <1>1, <2>2, <2>3
<1>7. WalkMissesFew'
  <2> SUFFICES ASSUME LastPage' PROVE Cardinality(unseen') <= left + grew
    BY <1>0 DEF WalkMissesFew
  <2> DEFINE A == Among(unseen', Listed, u)
             B == {r \in Listed : RankIn(Listed, r) > u}
  <2>1. walk.total <= u
    <3>1. walk'.page * Size >= walk.total
      BY <1>2 DEF LastPage
    <3>2. walk'.page * Size <= u
      BY <1>4, ListingConstants
    <3>3. walk'.page * Size \in Nat
      BY <1>4, ListingConstants
    <3> QED BY <1>1, <1>4, <3>1, <3>2, <3>3
  <2>2. Cardinality(B) <= grew
    <3>1. Cardinality(Listed) \in Nat
      BY <1>0, CountIsNat
    <3>2. Cardinality(Listed) <= u + grew
      BY <1>0, <1>1, <1>4, <2>1, <3>1
    <3> HIDE DEF u
    <3> QED BY <1>0, <1>4, <3>2, FewAfter
  <2>3. unseen' \in SUBSET (A \cup B)
    <3> SUFFICES ASSUME NEW r \in unseen' PROVE r \in A \/ r \in B
      OBVIOUS
    <3>1. r \in Listed
      BY <1>0
    <3>2. RankIn(Listed, r) \in Nat
      BY <1>0, <3>1, RankIsNat
    <3> QED BY <1>4, <3>1, <3>2 DEF Among
  <2>4. A \in SUBSET Rows /\ B \in SUBSET Rows
    BY <1>0 DEF Among
  <2> HIDE DEF A, B
  <2>5. IsFiniteSet(A) /\ IsFiniteSet(B) /\ Cardinality(A) \in Nat /\ Cardinality(B) \in Nat
    BY <2>4, RowsAreFew
  <2>6. /\ IsFiniteSet(A \cup B)
        /\ Cardinality(A \cup B) = Cardinality(A) + Cardinality(B) - Cardinality(A \cap B)
    BY <2>5, FS_Union
  <2>7. Cardinality(A \cap B) \in Nat /\ Cardinality(A \cup B) \in Nat
    <3>1. A \cap B \in SUBSET Rows /\ A \cup B \in SUBSET Rows
      BY <2>4
    <3> QED BY <3>1, CountIsNat
  <2>8. Cardinality(unseen') <= Cardinality(A \cup B) /\ Cardinality(unseen') \in Nat
    BY <2>3, <2>6, FS_Subset, FS_CardinalityType
  <2>9. Cardinality(A) <= left
    BY <1>6 DEF A
  <2> QED BY <1>0, <2>2, <2>5, <2>6, <2>7, <2>8, <2>9
<1>8. WalkInv'
  <2>1. unseen' \subseteq Listed'
    BY <1>0
  <2>2. walk'.asked <= walk'.top + 1
    BY <1>1, <1>2
  <2> QED BY <1>0, <1>2, <1>4, <1>6, <1>7, <2>1, <2>2 DEF WalkInv
<1> QED BY <1>3, <1>8 DEF ListingsInv

LEMMA ListingsStutter == ListingsInv /\ UNCHANGED listingVars => ListingsInv'
<1> SUFFICES ASSUME ListingsInv, UNCHANGED listingVars PROVE ListingsInv'
  OBVIOUS
<1>1. Listed' = Listed
  BY DEF listingVars, Listed, MatchesIn
<1> QED BY <1>1 DEF listingVars, ListingsInv, ListingsTypeOK, WalkInv, WalkMissesFew,
                    LastPage, Filters, Among

LEMMA ListingsStep == ListingsInv /\ ListingsNext => ListingsInv'
BY CommitWalks, TurnWalks, CountWalks, ShowWalks DEF ListingsNext

-----------------------------------------------------------------------------
(* One reader at a time. *)

JobTable == \A r \in Rows : table[r] \in JobStatuses \cup {"absent"}

ReaderInv ==
    /\ board.pc = "closed" => board = Closed
    /\ page.pc # "closed" => board = Closed
    /\ board.pc # "closed" \/ page.pc # "closed" =>
          walk = IdleWalk /\ unseen = {} /\ left = 0 /\ grew = 0 /\ JobTable
    /\ page.pc = "polling" => page.of \in Rows /\ table[page.of] # "absent"

PageTypeOK ==
    page \in [pc : {"closed", "ready", "polling", "stopped", "broken"},
              of : 0 .. MaxRow, shows : {"nothing"} \cup JobStatuses]

Present == {r \in Rows : table[r] # "absent"}

(* What was read of a period is no more than there is now.                 *)
FiguresOf(b) ==
    /\ board.at[b].jobs <= Cardinality(CreatedSince(b))
    /\ board.at[b].cost <= Cardinality(CreatedSince(b) \cap costed)
    /\ board.at[b].came <= Cardinality(Present)
    /\ board.at[b].ok <= board.at[b].jobs + board.at[b].came

NoMore(b, c) ==
    board.at[b].jobs <= board.at[c].jobs /\ board.at[b].cost <= board.at[c].cost

(* The periods whose totals have been read nest, and between the queries of *)
(* one period what was read of it and what came since are all there is.    *)
FiguresInv ==
    /\ \A b \in Buckets : FiguresOf(b)
    /\ board.pc = "rate" =>
          Cardinality(CreatedSince(board.bucket)) <=
             board.at[board.bucket].jobs + board.at[board.bucket].came
    /\ \/ board.pc = "shown"
       \/ board.pc = "rate" /\ board.bucket # "today"
       \/ board.pc = "totals" /\ board.bucket = "last_30d"
       => NoMore("today", "last_7d")
    /\ board.pc = "shown" \/ (board.pc = "rate" /\ board.bucket = "last_30d")
       => NoMore("last_7d", "last_30d")

QueriesInv == ListingsInv /\ BoardTypeOK /\ PageTypeOK /\ ReaderInv /\ FiguresInv

LEMMA ClosedIsABoard ==
    /\ NoFigures \in [jobs : 0 .. MaxRow, cost : 0 .. MaxRow, ok : 0 .. MaxRow, came : 0 .. MaxRow]
    /\ Closed \in [pc : {"closed", "totals", "rate", "shown"}, bucket : Buckets,
                   at : [Buckets -> [jobs : 0 .. MaxRow, cost : 0 .. MaxRow,
                                     ok : 0 .. MaxRow, came : 0 .. MaxRow]]]
<1>1. 0 \in 0 .. MaxRow
  BY ListingConstants
<1>2. NoFigures \in [jobs : 0 .. MaxRow, cost : 0 .. MaxRow, ok : 0 .. MaxRow, came : 0 .. MaxRow]
  BY <1>1 DEF NoFigures
<1> QED BY <1>2 DEF Closed, Buckets

LEMMA Counts ==
    /\ \A b \in Buckets : /\ CreatedSince(b) \in SUBSET Rows
                         /\ Cardinality(CreatedSince(b)) \in 0 .. MaxRow
                         /\ Cardinality(CreatedSince(b) \cap costed) \in 0 .. MaxRow
    /\ Present \in SUBSET Rows /\ Cardinality(Present) \in 0 .. MaxRow
<1>1. Present \in SUBSET Rows /\ \A b \in Buckets : CreatedSince(b) \in SUBSET Rows
  BY DEF Present, CreatedSince
<1>2. \A S \in SUBSET Rows : Cardinality(S) \in 0 .. MaxRow
  BY RowsAreFew
<1>3. \A b \in Buckets : CreatedSince(b) \cap costed \in SUBSET Rows
  BY <1>1
<1> HIDE DEF Present, CreatedSince
<1> QED BY <1>1, <1>2, <1>3

LEMMA SubsetCounts ==
    ASSUME NEW T \in SUBSET Rows, NEW S \in SUBSET T
    PROVE  Cardinality(S) <= Cardinality(T)
<1>1. IsFiniteSet(T)
  BY RowsAreFew
<1> QED BY <1>1, FS_Subset

(* A figureless board has nothing to answer for. *)
LEMMA NoFiguresRight ==
    ASSUME \A b \in Buckets : board.at[b] = NoFigures,
           board.pc = "closed" \/ (board.pc = "totals" /\ board.bucket = "today")
    PROVE  FiguresInv
<1>1. ASSUME NEW b \in Buckets PROVE FiguresOf(b)
  <2>1. /\ board.at[b].jobs = 0 /\ board.at[b].cost = 0
        /\ board.at[b].came = 0 /\ board.at[b].ok = 0
    BY DEF NoFigures
  <2>2. /\ Cardinality(CreatedSince(b)) >= 0 /\ Cardinality(Present) >= 0
        /\ Cardinality(CreatedSince(b) \cap costed) >= 0
    BY Counts, ListingConstants
  <2> QED BY <2>1, <2>2 DEF FiguresOf
<1> QED BY <1>1 DEF FiguresInv

LEMMA QueriesInvInit == QueriesInit => QueriesInv
<1> SUFFICES ASSUME QueriesInit PROVE QueriesInv
  OBVIOUS
<1>1. ListingsInv
  BY ListingsInvInit DEF QueriesInit
<1>2. BoardTypeOK
  BY ClosedIsABoard DEF QueriesInit, BoardInit, BoardTypeOK
<1>3. PageTypeOK
  BY ListingConstants DEF QueriesInit, PageTypeOK, NoPage
<1>4. ReaderInv
  BY DEF QueriesInit, ListingsInit, BoardInit, ReaderInv, JobTable, NoPage, Closed
<1>5. FiguresInv
  <2>1. /\ \A b \in Buckets : board.at[b] = NoFigures
        /\ board.pc \in {"closed", "totals"} /\ board.bucket = "today"
    BY DEF QueriesInit, BoardInit, Closed
  <2> QED BY <2>1, NoFiguresRight
<1> QED BY <1>1, <1>2, <1>3, <1>4, <1>5 DEF QueriesInv

-----------------------------------------------------------------------------
(* The jobs go on under a dashboard or a detail page. *)

LEMMA JobsGrow ==
    ASSUME ListingsTypeOK, JobTable, Lifecycle!Next
    PROVE  /\ JobTable' /\ table' \in [Rows -> {"absent", "deleted", "written"} \cup JobStatuses \cup UserStatuses]
           /\ \A r \in Rows : table[r] # "absent" => table'[r] # "absent"
           /\ \E r \in Rows : \A s \in Rows \ {r} : table'[s] = table[s]
<1>1. ASSUME NEW r \in Rows, NEW to \in JobStatuses, table' = [table EXCEPT ![r] = to]
      PROVE  /\ JobTable' /\ table' \in [Rows -> {"absent", "deleted", "written"} \cup JobStatuses \cup UserStatuses]
             /\ \A q \in Rows : table[q] # "absent" => table'[q] # "absent"
             /\ \A s \in Rows \ {r} : table'[s] = table[s]
  BY <1>1 DEF ListingsTypeOK, JobTable, JobStatuses
<1> QED
  BY <1>1 DEF Lifecycle!Next, Lifecycle!Submit, Lifecycle!Start, Lifecycle!Finish,
        Lifecycle!Reopen, Lifecycle!Overrule, Lifecycle!Become, JobStatuses

LEMMA NobodyWalks ==
    ASSUME ListingsTypeOK', walk' = IdleWalk, unseen' = {}, left' = 0, grew' = 0
    PROVE  ListingsInv'
<1>1. Cardinality(Among(unseen', Listed', walk'.top * Size)) = 0 /\ Cardinality({}) = 0
  BY NoneMissed
<1>2. WalkInv'
  BY <1>1 DEF WalkInv, WalkMissesFew, IdleWalk
<1> QED BY <1>2 DEF ListingsInv

(* A new job is counted, once, whatever its period. *)
LEMMA JobKeepsBoard ==
    ASSUME QueriesInv, JobTable, JobStep
    PROVE  BoardTypeOK' /\ FiguresInv' /\ board'.pc = board.pc /\ (board.pc = "closed" => board' = board)
<1> DEFINE new == \E r \in Rows : table[r] = "absent" /\ table'[r] # "absent"
<1>bucket. PICK b \in Buckets : b = board.bucket
  BY DEF QueriesInv, BoardTypeOK
<1>0. /\ ListingsTypeOK /\ BoardTypeOK
      /\ \A c \in Buckets : board.at[c] \in [jobs : 0 .. MaxRow, cost : 0 .. MaxRow,
                                            ok : 0 .. MaxRow, came : 0 .. MaxRow]
      /\ \A c \in Buckets : FiguresOf(c)
  BY DEF QueriesInv, ListingsInv, BoardTypeOK, FiguresInv
<1>1. /\ JobTable' /\ \A r \in Rows : table[r] # "absent" => table'[r] # "absent"
      /\ \E r \in Rows : \A s \in Rows \ {r} : table'[s] = table[s]
  BY <1>0, JobsGrow DEF JobStep
<1>2. Present \subseteq Present' /\ Present' \in SUBSET Rows /\ \A c \in Buckets : CreatedSince(c) \subseteq CreatedSince(c)'
  BY <1>1 DEF Present, CreatedSince
<1>3. costed \subseteq costed' /\ costed' \subseteq Rows
  BY <1>0 DEF JobStep, BoardTypeOK
<1>4. \A c \in Buckets : /\ CreatedSince(c)' \in SUBSET Rows
                        /\ Cardinality(CreatedSince(c)) <= Cardinality(CreatedSince(c)')
                        /\ Cardinality(CreatedSince(c) \cap costed) <= Cardinality(CreatedSince(c)' \cap costed')
  <2> TAKE c \in Buckets
  <2>1. CreatedSince(c)' \in SUBSET Rows /\ CreatedSince(c)' \cap costed' \in SUBSET Rows
    BY DEF CreatedSince
  <2>2. /\ CreatedSince(c) \in SUBSET CreatedSince(c)'
        /\ CreatedSince(c) \cap costed \in SUBSET (CreatedSince(c)' \cap costed')
    BY <1>2, <1>3
  <2> HIDE DEF CreatedSince
  <2> QED BY <2>1, <2>2, SubsetCounts
<1>5. Cardinality(Present) <= Cardinality(Present') /\ Cardinality(Present) \in Nat /\ Cardinality(Present') \in 0 .. MaxRow
  <2>1. Present \in SUBSET Present' /\ Present \in SUBSET Rows
    BY <1>2
  <2> QED BY <1>2, <2>1, SubsetCounts, RowsAreFew, CountIsNat
(* Where one is new, all counts rise by one at most. *)
<1>6. new => /\ Cardinality(Present') = Cardinality(Present) + 1
             /\ \A c \in Buckets : Cardinality(CreatedSince(c)') <= Cardinality(CreatedSince(c)) + 1
  <2> SUFFICES ASSUME NEW x \in Rows, table[x] = "absent", table'[x] # "absent"
               PROVE  /\ Cardinality(Present') = Cardinality(Present) + 1
                      /\ \A c \in Buckets : Cardinality(CreatedSince(c)') <= Cardinality(CreatedSince(c)) + 1
    OBVIOUS
  <2>1. \A s \in Rows \ {x} : table'[s] = table[s]
    BY <1>1
  <2>2. Present' = Present \cup {x} /\ x \notin Present
    BY <2>1 DEF Present
  <2>3. IsFiniteSet(Present)
    BY RowsAreFew DEF Present
  <2>4. Cardinality(Present') = Cardinality(Present) + 1
    BY <2>2, <2>3, FS_AddElement
  <2>5. ASSUME NEW c \in Buckets PROVE Cardinality(CreatedSince(c)') <= Cardinality(CreatedSince(c)) + 1
    <3>1. CreatedSince(c)' \in SUBSET (CreatedSince(c) \cup {x}) /\ CreatedSince(c) \in SUBSET Rows
      BY <2>1 DEF CreatedSince
    <3>2. CreatedSince(c) \cup {x} \in SUBSET Rows /\ CreatedSince(c)' \in SUBSET Rows
      BY <3>1
    <3> HIDE DEF CreatedSince
    <3>3. IsFiniteSet(CreatedSince(c)) /\ Cardinality(CreatedSince(c)) \in Nat /\ Cardinality(CreatedSince(c)') \in Nat
      BY <3>1, <3>2, RowsAreFew
    <3>4. Cardinality(CreatedSince(c) \cup {x}) <= Cardinality(CreatedSince(c)) + 1
      <4> DEFINE S == CreatedSince(c)
      <4>1. Cardinality(S \cup {x}) = IF x \in S THEN Cardinality(S) ELSE Cardinality(S) + 1
        BY <3>3, FS_AddElement
      <4> QED BY <3>3, <4>1
    <3>5. Cardinality(CreatedSince(c)') <= Cardinality(CreatedSince(c) \cup {x}) /\ Cardinality(CreatedSince(c) \cup {x}) \in Nat
      BY <3>1, <3>2, SubsetCounts, CountIsNat
    <3> QED BY <3>3, <3>4, <3>5
  <2> QED BY <2>4, <2>5
<1>7. ~ new => \A c \in Buckets : CreatedSince(c)' = CreatedSince(c)
  BY <1>1 DEF CreatedSince
<1>kept. ASSUME NEW c \in Buckets,
             board'.at[c].jobs = board.at[c].jobs, board'.at[c].cost = board.at[c].cost,
             board'.at[c].ok = board.at[c].ok,
             \/ board'.at[c].came = board.at[c].came
             \/ board'.at[c].came = board.at[c].came + 1 /\ Cardinality(Present') = Cardinality(Present) + 1
      PROVE  FiguresOf(c)'
  <2>1. FiguresOf(c) /\ board.at[c] \in [jobs : 0 .. MaxRow, cost : 0 .. MaxRow,
                                        ok : 0 .. MaxRow, came : 0 .. MaxRow]
    BY <1>0
  <2>2. /\ board.at[c].jobs \in Int /\ board.at[c].cost \in Int
        /\ board.at[c].ok \in Int /\ board.at[c].came \in Int
    BY <2>1, ListingConstants
  <2>3. /\ Cardinality(CreatedSince(c)) \in Nat /\ Cardinality(CreatedSince(c)') \in Nat
        /\ Cardinality(CreatedSince(c) \cap costed) \in Nat
        /\ Cardinality(CreatedSince(c)' \cap costed') \in Nat
    <3>1. /\ CreatedSince(c) \in SUBSET Rows /\ CreatedSince(c)' \in SUBSET Rows
          /\ CreatedSince(c) \cap costed \in SUBSET Rows /\ CreatedSince(c)' \cap costed' \in SUBSET Rows
      BY DEF CreatedSince
    <3> QED BY <3>1, CountIsNat
  <2>4. /\ Cardinality(CreatedSince(c)) <= Cardinality(CreatedSince(c)')
        /\ Cardinality(CreatedSince(c) \cap costed) <= Cardinality(CreatedSince(c)' \cap costed')
    BY <1>4
  <2>5. board.at[c].jobs <= Cardinality(CreatedSince(c)) /\ board.at[c].cost <= Cardinality(CreatedSince(c) \cap costed)
    BY <2>1 DEF FiguresOf
  <2>6. board'.at[c].jobs <= Cardinality(CreatedSince(c)')
    BY <1>kept, <2>2, <2>3, <2>4, <2>5
  <2>7. board'.at[c].cost <= Cardinality(CreatedSince(c)' \cap costed')
    BY <1>kept, <2>2, <2>3, <2>4, <2>5
  <2>8. board'.at[c].came <= Cardinality(Present')
    BY <1>kept, <1>5, <2>1, <2>2 DEF FiguresOf
  <2>9. board'.at[c].ok <= board'.at[c].jobs + board'.at[c].came
    BY <1>kept, <2>1, <2>2 DEF FiguresOf
  <2> QED BY <2>6, <2>7, <2>8, <2>9 DEF FiguresOf
<1> DEFINE Figures == [jobs : 0 .. MaxRow, cost : 0 .. MaxRow, ok : 0 .. MaxRow, came : 0 .. MaxRow]
           f == [board.at[b] EXCEPT !.came = @ + 1]
<1> HIDE DEF new
<1>8. board' = IF board.pc = "rate" /\ new THEN [board EXCEPT !.at[b] = f] ELSE board
  BY <1>bucket DEF JobStep, new
<1>9. CASE ~ (board.pc = "rate" /\ new)
  <2>1. board' = board
    BY <1>8, <1>9
  <2>2. BoardTypeOK'
    BY <1>0, <1>3, <2>1 DEF BoardTypeOK
  <2>3. ASSUME NEW c \in Buckets PROVE FiguresOf(c)'
    BY <1>kept, <2>1
  <2>4. board'.pc = "rate" => Cardinality(CreatedSince(b)') <= board'.at[b].jobs + board'.at[b].came
    BY <1>bucket, <1>7, <1>9, <1>0, <2>1 DEF QueriesInv, FiguresInv
  <2>5. FiguresInv'
    BY <1>bucket, <2>1, <2>3, <2>4 DEF FiguresInv, NoMore, QueriesInv
  <2> QED BY <2>1, <2>2, <2>5
<1>10. CASE board.pc = "rate" /\ new
  <2>1. board' = [board EXCEPT !.at[b] = f]
    BY <1>8, <1>10
  <2>2. board.at[b] \in Figures /\ FiguresOf(b)
    BY <1>0
  <2>3. /\ f.jobs = board.at[b].jobs /\ f.cost = board.at[b].cost
        /\ f.ok = board.at[b].ok /\ f.came = board.at[b].came + 1
    BY <2>2
  <2>4. f \in Figures
    <3>1. board.at[b].came + 1 \in 0 .. MaxRow
      BY <1>5, <1>6, <1>10, <2>2, ListingConstants DEF FiguresOf
    <3> QED BY <2>2, <3>1
  <2> HIDE DEF f
  <2>5. /\ board'.pc = board.pc /\ board'.bucket = b
        /\ board'.at[b] = f /\ \A c \in Buckets \ {b} : board'.at[c] = board.at[c]
    BY <1>0, <1>bucket, <2>1 DEF BoardTypeOK
  <2>6. BoardTypeOK'
    BY <1>0, <1>3, <2>1, <2>4 DEF BoardTypeOK
  <2>7. ASSUME NEW c \in Buckets PROVE FiguresOf(c)'
    <3>1. CASE c = b
      BY <1>6, <1>10, <1>kept, <2>3, <2>5, <3>1
    <3>2. CASE c # b
      BY <1>kept, <2>5, <3>2
    <3> QED BY <3>1, <3>2
  <2>8. Cardinality(CreatedSince(b)') <= board'.at[b].jobs + board'.at[b].came
    <3>1. Cardinality(CreatedSince(b)) <= board.at[b].jobs + board.at[b].came
      BY <1>bucket, <1>10 DEF QueriesInv, FiguresInv
    <3>2. Cardinality(CreatedSince(b)') <= Cardinality(CreatedSince(b)) + 1
      BY <1>0, <1>6, <1>10
    <3>3. Cardinality(CreatedSince(b)) \in Nat /\ Cardinality(CreatedSince(b)') \in Nat
      <4>1. CreatedSince(b) \in SUBSET Rows /\ CreatedSince(b)' \in SUBSET Rows
        BY DEF CreatedSince
      <4> QED BY <4>1, CountIsNat
    <3> QED BY <2>2, <2>3, <2>5, <3>1, <3>2, <3>3
  <2>9. \A c \in Buckets : board'.at[c].jobs = board.at[c].jobs /\ board'.at[c].cost = board.at[c].cost
    BY <2>3, <2>5
  <2>10. /\ NoMore("today", "last_7d") => NoMore("today", "last_7d")'
         /\ NoMore("last_7d", "last_30d") => NoMore("last_7d", "last_30d")'
    BY <2>9 DEF NoMore, Buckets
  <2>11. FiguresInv'
    BY <1>bucket, <2>5, <2>7, <2>8, <2>10 DEF FiguresInv, QueriesInv
  <2> QED BY <1>10, <2>5, <2>6, <2>11
<1> QED BY <1>9, <1>10

(* JobStep, under a dashboard or a detail page. *)
LEMMA JobStepKeeps ==
    ASSUME QueriesInv, JobStep, board.pc # "closed" \/ page.pc # "closed", page' = page
    PROVE  QueriesInv'
<1>1. /\ JobTable /\ walk = IdleWalk /\ unseen = {} /\ left = 0 /\ grew = 0
      /\ ListingsTypeOK
  BY DEF QueriesInv, ReaderInv, ListingsInv
<1>2. UNCHANGED <<listing, filter, walk, unseen, left, grew>>
  BY DEF JobStep
<1>3. /\ JobTable' /\ table' \in [Rows -> {"absent", "deleted", "written"} \cup JobStatuses \cup UserStatuses]
      /\ \A r \in Rows : table[r] # "absent" => table'[r] # "absent"
  BY <1>1, JobsGrow DEF JobStep
<1>4. ListingsTypeOK'
  BY <1>1, <1>2, <1>3 DEF ListingsTypeOK, Filters
<1>5. ListingsInv'
  BY <1>1, <1>2, <1>4, NobodyWalks
<1>6. BoardTypeOK' /\ FiguresInv' /\ board'.pc = board.pc /\ (board.pc = "closed" => board' = board)
  BY <1>1, JobKeepsBoard
<1>7. ReaderInv'
  <2>1. page.pc # "closed" => board' = Closed
    BY <1>6 DEF QueriesInv, ReaderInv, Closed
  <2> QED BY <1>1, <1>2, <1>3, <1>6, <2>1 DEF QueriesInv, ReaderInv
<1>8. PageTypeOK'
  BY DEF QueriesInv, PageTypeOK
<1> QED BY <1>5, <1>6, <1>7, <1>8 DEF QueriesInv

-----------------------------------------------------------------------------
(* The dashboard. *)

(* The tables and the other readers stand still. *)
LEMMA BoardAlone ==
    ASSUME QueriesInv, UNCHANGED <<listingVars, costed, page>>, BoardTypeOK', FiguresInv',
           board.pc # "closed", board'.pc # "closed"
    PROVE  QueriesInv'
<1>1. ListingsInv'
  BY ListingsStutter DEF QueriesInv
<1>2. PageTypeOK'
  BY DEF QueriesInv, PageTypeOK
<1>3. page.pc = "closed"
  BY DEF QueriesInv, ReaderInv, Closed
<1>4. ReaderInv'
  BY <1>3 DEF QueriesInv, ReaderInv, listingVars, JobTable
<1> QED BY <1>1, <1>2, <1>4 DEF QueriesInv

(* A longer period has the jobs of a shorter one. *)
LEMMA PeriodsGrow ==
    /\ CreatedSince("today") \subseteq CreatedSince("last_7d")
    /\ CreatedSince("last_7d") \subseteq CreatedSince("last_30d")
BY SinceOrdered DEF CreatedSince, Buckets, Rows

LEMMA PeriodCounts ==
    /\ Cardinality(CreatedSince("today")) <= Cardinality(CreatedSince("last_7d"))
    /\ Cardinality(CreatedSince("last_7d")) <= Cardinality(CreatedSince("last_30d"))
    /\ Cardinality(CreatedSince("today") \cap costed) <= Cardinality(CreatedSince("last_7d") \cap costed)
    /\ Cardinality(CreatedSince("last_7d") \cap costed) <= Cardinality(CreatedSince("last_30d") \cap costed)
<1>1. \A b \in Buckets : CreatedSince(b) \in SUBSET Rows /\ CreatedSince(b) \cap costed \in SUBSET Rows
  BY DEF CreatedSince
<1>2. /\ CreatedSince("today") \in SUBSET CreatedSince("last_7d")
      /\ CreatedSince("last_7d") \in SUBSET CreatedSince("last_30d")
      /\ CreatedSince("today") \cap costed \in SUBSET (CreatedSince("last_7d") \cap costed)
      /\ CreatedSince("last_7d") \cap costed \in SUBSET (CreatedSince("last_30d") \cap costed)
  BY PeriodsGrow
<1>3. {"today", "last_7d", "last_30d"} = Buckets
  BY DEF Buckets
<1> HIDE DEF CreatedSince
<1> QED BY <1>1, <1>2, <1>3, SubsetCounts

LEMMA TotalsKeeps ==
    ASSUME QueriesInv, Totals, page' = page
    PROVE  QueriesInv'
<1>bucket. PICK b \in Buckets : b = board.bucket
  BY DEF QueriesInv, BoardTypeOK
<1> DEFINE Figures == [jobs : 0 .. MaxRow, cost : 0 .. MaxRow, ok : 0 .. MaxRow, came : 0 .. MaxRow]
           f == [jobs |-> Cardinality(CreatedSince(b)), cost |-> Cardinality(CreatedSince(b) \cap costed),
                 ok |-> 0, came |-> 0]
<1>1. board.pc = "totals" /\ UNCHANGED <<listingVars, costed>>
  BY DEF Totals
<1>2. board' = [board EXCEPT !.pc = "rate", !.at[b] = f]
  BY <1>bucket DEF Totals
<1>3. /\ Cardinality(CreatedSince(b)) \in 0 .. MaxRow
      /\ Cardinality(CreatedSince(b) \cap costed) \in 0 .. MaxRow
      /\ Cardinality(Present) \in Nat
  BY Counts, ListingConstants
<1>4. f \in Figures /\ f.jobs = Cardinality(CreatedSince(b)) /\ f.came = 0 /\ f.ok = 0
      /\ f.cost = Cardinality(CreatedSince(b) \cap costed)
  BY <1>3, ListingConstants
<1> HIDE DEF f
<1>5. /\ board'.pc = "rate" /\ board'.bucket = b
      /\ board'.at[b] = f /\ \A c \in Buckets \ {b} : board'.at[c] = board.at[c]
  BY <1>bucket, <1>2 DEF QueriesInv, BoardTypeOK
<1>6. BoardTypeOK'
  BY <1>1, <1>2, <1>4 DEF QueriesInv, BoardTypeOK
<1>7. /\ Present' = Present /\ \A c \in Buckets : CreatedSince(c)' = CreatedSince(c)
      /\ costed' = costed
  BY <1>1 DEF listingVars, Present, CreatedSince
<1>8. ASSUME NEW c \in Buckets PROVE FiguresOf(c)'
  <2>1. CASE c = b
    <3>1. board'.at[c] = f
      BY <1>5, <2>1
    <3>2. /\ board'.at[c].jobs <= Cardinality(CreatedSince(c)')
          /\ board'.at[c].cost <= Cardinality(CreatedSince(c)' \cap costed')
      <4>1. /\ CreatedSince(c)' = CreatedSince(b)
            /\ CreatedSince(c)' \cap costed' = CreatedSince(b) \cap costed
        BY <1>7, <2>1
      <4> HIDE DEF CreatedSince
      <4> QED BY <1>3, <1>4, <3>1, <4>1, ListingConstants
    <3>3. board'.at[c].came <= Cardinality(Present')
      BY <1>3, <1>4, <1>7, <3>1
    <3>4. board'.at[c].ok <= board'.at[c].jobs + board'.at[c].came
      BY <1>3, <1>4, <3>1, ListingConstants
    <3> QED BY <3>2, <3>3, <3>4 DEF FiguresOf
  <2>2. CASE c # b
    BY <1>5, <1>7, <2>2 DEF FiguresOf, QueriesInv, FiguresInv
  <2> QED BY <2>1, <2>2
<1>9. Cardinality(CreatedSince(b)') <= board'.at[b].jobs + board'.at[b].came
  BY <1>3, <1>4, <1>5, <1>7, ListingConstants
<1>10. /\ FiguresOf("today") /\ FiguresOf("last_7d")
       /\ board.at["today"] \in Figures /\ board.at["last_7d"] \in Figures
       /\ {"today", "last_7d", "last_30d"} = Buckets
  BY DEF QueriesInv, BoardTypeOK, FiguresInv, Buckets
<1>11. b # "today" => NoMore("today", "last_7d")'
  <2>1. CASE b = "last_7d"
    <3>1. board'.at["today"] = board.at["today"] /\ board'.at["last_7d"] = f
      BY <1>5, <1>10, <2>1
    <3>2. /\ board.at["today"].jobs \in Int /\ board.at["today"].cost \in Int
          /\ Cardinality(CreatedSince("today")) \in Int /\ Cardinality(CreatedSince("last_7d")) \in Int
          /\ Cardinality(CreatedSince("today") \cap costed) \in Int
          /\ Cardinality(CreatedSince("last_7d") \cap costed) \in Int
      BY <1>10, Counts, ListingConstants
    <3>3. board.at["today"].jobs <= f.jobs /\ board.at["today"].cost <= f.cost
      BY <1>4, <1>10, <2>1, <3>2, PeriodCounts DEF FiguresOf
    <3> QED BY <3>1, <3>3 DEF NoMore
  <2>2. CASE b = "last_30d"
    <3>1. NoMore("today", "last_7d")
      BY <1>bucket, <1>1, <2>2 DEF QueriesInv, FiguresInv
    <3>2. board'.at["today"] = board.at["today"] /\ board'.at["last_7d"] = board.at["last_7d"]
      BY <1>5, <1>10, <2>2
    <3> QED BY <3>1, <3>2 DEF NoMore
  <2> QED BY <1>10, <2>1, <2>2
<1>12. b = "last_30d" => NoMore("last_7d", "last_30d")'
  <2> SUFFICES ASSUME b = "last_30d" PROVE NoMore("last_7d", "last_30d")'
    OBVIOUS
  <2>1. board'.at["last_7d"] = board.at["last_7d"] /\ board'.at["last_30d"] = f
    BY <1>5, <1>10
  <2>2. /\ board.at["last_7d"].jobs \in Int /\ board.at["last_7d"].cost \in Int
        /\ Cardinality(CreatedSince("last_7d")) \in Int /\ Cardinality(CreatedSince("last_30d")) \in Int
        /\ Cardinality(CreatedSince("last_7d") \cap costed) \in Int
        /\ Cardinality(CreatedSince("last_30d") \cap costed) \in Int
    BY <1>10, Counts, ListingConstants
  <2>3. board.at["last_7d"].jobs <= f.jobs /\ board.at["last_7d"].cost <= f.cost
    BY <1>4, <1>10, <2>2, PeriodCounts DEF FiguresOf
  <2> QED BY <2>1, <2>3 DEF NoMore
<1>13. FiguresInv'
  BY <1>5, <1>8, <1>9, <1>11, <1>12 DEF FiguresInv
<1> QED BY <1>1, <1>5, <1>6, <1>13, BoardAlone

LEMMA RateKeeps ==
    ASSUME QueriesInv, Rate, page' = page
    PROVE  QueriesInv'
<1>bucket. PICK b \in Buckets : b = board.bucket
  BY DEF QueriesInv, BoardTypeOK
<1> DEFINE Figures == [jobs : 0 .. MaxRow, cost : 0 .. MaxRow, ok : 0 .. MaxRow, came : 0 .. MaxRow]
           f == [board.at[b] EXCEPT !.ok = Cardinality(Succeeded(b))]
           next == NextBucket(b)
           pc == IF next = "today" THEN "shown" ELSE "totals"
<1>1. board.pc = "rate" /\ UNCHANGED <<listingVars, costed>>
  BY DEF Rate
<1>2. board' = [board EXCEPT !.pc = pc, !.bucket = next, !.at[b] = f]
  BY <1>bucket DEF Rate
<1>3. /\ board.at[b] \in Figures /\ FiguresOf(b)
      /\ Cardinality(CreatedSince(b)) <= board.at[b].jobs + board.at[b].came
  BY <1>bucket, <1>1 DEF QueriesInv, BoardTypeOK, FiguresInv
<1>4. Cardinality(Succeeded(b)) \in 0 .. MaxRow /\ Cardinality(Succeeded(b)) <= Cardinality(CreatedSince(b))
  <2>1. Succeeded(b) \in SUBSET CreatedSince(b) /\ CreatedSince(b) \in SUBSET Rows /\ Succeeded(b) \in SUBSET Rows
    BY DEF Succeeded, CreatedSince
  <2> QED BY <2>1, SubsetCounts, RowsAreFew
<1>5. /\ f \in Figures /\ f.jobs = board.at[b].jobs /\ f.cost = board.at[b].cost
      /\ f.came = board.at[b].came /\ f.ok = Cardinality(Succeeded(b))
  BY <1>3, <1>4
<1> HIDE DEF f
<1>6. next \in Buckets /\ (next = "last_7d" <=> b = "today") /\ (next = "last_30d" <=> b = "last_7d")
      /\ (next = "today" <=> b = "last_30d")
  BY DEF NextBucket, Buckets
<1> HIDE DEF next
<1>7. /\ board'.pc = pc /\ board'.bucket = next
      /\ board'.at[b] = f /\ \A c \in Buckets \ {b} : board'.at[c] = board.at[c]
  BY <1>2 DEF QueriesInv, BoardTypeOK
<1>8. BoardTypeOK'
  <2>1. board'.at \in [Buckets -> Figures]
    BY <1>2, <1>5 DEF QueriesInv, BoardTypeOK
  <2> QED BY <1>1, <1>2, <1>6, <2>1 DEF QueriesInv, BoardTypeOK
<1>9. /\ Present' = Present /\ \A c \in Buckets : CreatedSince(c)' = CreatedSince(c)
      /\ costed' = costed
  BY <1>1 DEF listingVars, Present, CreatedSince
<1>10. ASSUME NEW c \in Buckets PROVE FiguresOf(c)'
  <2>1. CASE c = b
    <3>1. f.ok <= f.jobs + f.came
      <4>1. Cardinality(CreatedSince(b)) \in Nat
        <5>1. CreatedSince(b) \in SUBSET Rows
          BY DEF CreatedSince
        <5> QED BY <5>1, CountIsNat
      <4>2. board.at[b].jobs \in Nat /\ board.at[b].came \in Nat /\ Cardinality(Succeeded(b)) \in Nat
        BY <1>3, <1>4, ListingConstants
      <4> QED BY <1>3, <1>4, <1>5, <4>1, <4>2
    <3> QED BY <1>3, <1>5, <1>7, <1>9, <2>1, <3>1 DEF FiguresOf
  <2>2. CASE c # b
    BY <1>7, <1>9, <2>2 DEF FiguresOf, QueriesInv, FiguresInv
  <2> QED BY <2>1, <2>2
<1>11. \A c \in Buckets : board'.at[c].jobs = board.at[c].jobs /\ board'.at[c].cost = board.at[c].cost
  BY <1>5, <1>7
<1>12. /\ NoMore("today", "last_7d") => NoMore("today", "last_7d")'
       /\ NoMore("last_7d", "last_30d") => NoMore("last_7d", "last_30d")'
  BY <1>11 DEF NoMore, Buckets
<1>13. FiguresInv'
  BY <1>bucket, <1>1, <1>6, <1>7, <1>10, <1>12 DEF FiguresInv, QueriesInv, Buckets
<1> QED BY <1>1, <1>7, <1>8, <1>13, BoardAlone

LEMMA RefreshKeeps ==
    ASSUME QueriesInv, Refresh, page' = page
    PROVE  QueriesInv'
<1>1. /\ board.pc = "shown" /\ UNCHANGED <<listingVars, costed>>
      /\ board' = [Closed EXCEPT !.pc = "totals"]
  BY DEF Refresh
<1>2. /\ board'.pc = "totals" /\ board'.bucket = "today" /\ \A b \in Buckets : board'.at[b] = NoFigures
  BY <1>1 DEF Closed
<1>3. BoardTypeOK'
  BY <1>1, ClosedIsABoard DEF QueriesInv, BoardTypeOK
<1>4. FiguresInv'
  <2>1. /\ Present' = Present /\ costed' = costed
        /\ \A b \in Buckets : CreatedSince(b)' = CreatedSince(b)
    BY <1>1 DEF listingVars, Present, CreatedSince
  <2>2. ASSUME NEW b \in Buckets PROVE FiguresOf(b)'
    <3>1. /\ board'.at[b].jobs = 0 /\ board'.at[b].cost = 0
          /\ board'.at[b].came = 0 /\ board'.at[b].ok = 0
      BY <1>2 DEF NoFigures
    <3>2. /\ Cardinality(CreatedSince(b)') >= 0 /\ Cardinality(Present') >= 0
          /\ Cardinality(CreatedSince(b)' \cap costed') >= 0
      BY <2>1, Counts, ListingConstants
    <3> QED BY <3>1, <3>2 DEF FiguresOf
  <2> QED BY <1>2, <2>2 DEF FiguresInv
<1> QED BY <1>1, <1>2, <1>3, <1>4, BoardAlone

LEMMA BoardKeeps == QueriesInv /\ BoardNext /\ UNCHANGED page => QueriesInv'
BY JobStepKeeps, TotalsKeeps, RateKeeps, RefreshKeeps DEF BoardNext

-----------------------------------------------------------------------------
(* The detail page, and the listings. *)

(* The tables and the other readers stand still under a detail page. *)
LEMMA BoardUnchanged ==
    ASSUME FiguresInv, BoardTypeOK, UNCHANGED <<table, costed, board>>
    PROVE  FiguresInv' /\ BoardTypeOK'
<1>1. /\ Present' = Present
      /\ \A b \in Buckets : CreatedSince(b)' = CreatedSince(b)
  BY DEF Present, CreatedSince
<1>2. \A b \in Buckets : FiguresOf(b)'
  BY <1>1 DEF FiguresInv, FiguresOf
<1>3. board.bucket \in Buckets
  BY DEF BoardTypeOK
<1>4. board'.pc = "rate" =>
        Cardinality(CreatedSince(board.bucket)') <=
           board'.at[board'.bucket].jobs + board'.at[board'.bucket].came
  BY <1>1, <1>3 DEF FiguresInv
<1>5. FiguresInv'
  BY <1>2, <1>4 DEF FiguresInv, NoMore, CreatedSince
<1> QED BY <1>5 DEF BoardTypeOK

LEMMA PageAlone ==
    ASSUME QueriesInv, UNCHANGED <<listingVars, boardVars>>, PageTypeOK',
           page.pc # "closed", page'.pc # "closed",
           page'.pc = "polling" => page'.of \in Rows /\ table[page'.of] # "absent"
    PROVE  QueriesInv'
<1>1. ListingsInv'
  BY ListingsStutter DEF QueriesInv
<1>2. BoardTypeOK' /\ FiguresInv'
  BY BoardUnchanged DEF QueriesInv, listingVars, boardVars
<1>3. ReaderInv'
  BY DEF QueriesInv, ReaderInv, listingVars, boardVars, JobTable, Closed
<1> QED BY <1>1, <1>2, <1>3 DEF QueriesInv

LEMMA PageKeeps == QueriesInv /\ PageNext => QueriesInv'
<1> SUFFICES ASSUME QueriesInv, PageNext PROVE QueriesInv'
  OBVIOUS
<1>0. page.pc # "closed"
  BY DEF PageNext
<1>1. CASE JobStep /\ UNCHANGED page
  BY <1>0, <1>1, JobStepKeeps
<1>2. CASE OpenPage
  <2>1. PICK r \in Rows : table[r] # "absent" /\ page' = [pc |-> "polling", of |-> r, shows |-> "nothing"]
    BY <1>2 DEF OpenPage
  <2>2. PageTypeOK'
    BY <2>1, ListingConstants DEF PageTypeOK, Rows
  <2> QED BY <1>0, <1>2, <2>1, <2>2, PageAlone DEF OpenPage
<1>3. CASE Tick
  <2>1. page.pc = "polling" /\ page.of \in Rows /\ table[page.of] # "absent"
        /\ table[page.of] \in JobStatuses
    BY <1>3 DEF Tick, QueriesInv, ReaderInv, JobTable
  <2>2. page' = [page EXCEPT !.shows = table[page.of],
                             !.pc = IF table[page.of] \in Unfinished THEN @ ELSE "stopped"]
    BY <1>3 DEF Tick
  <2>3. PageTypeOK' /\ page'.of = page.of /\ page'.pc \in {"polling", "stopped"}
    BY <2>1, <2>2 DEF QueriesInv, PageTypeOK
  <2> QED BY <1>0, <1>3, <2>1, <2>3, PageAlone DEF Tick
<1>4. CASE TickFails
  <2>1. PageTypeOK' /\ page'.pc = "broken"
    BY <1>4 DEF TickFails, QueriesInv, PageTypeOK
  <2> QED BY <1>0, <1>4, <2>1, PageAlone DEF TickFails
<1> QED BY <1>1, <1>2, <1>3, <1>4 DEF PageNext

(* A listing alone: there is no dashboard to answer for. *)
LEMMA ListingKeeps ==
    ASSUME QueriesInv, page.pc = "closed", board.pc = "closed",
           ListingsNext, UNCHANGED <<boardVars, page>>
    PROVE  QueriesInv'
<1>1. ListingsInv'
  BY ListingsStep DEF QueriesInv
<1>2. board' = Closed /\ board'.pc = "closed" /\ page'.pc = "closed"
  BY DEF QueriesInv, ReaderInv, boardVars
<1>3. BoardTypeOK' /\ PageTypeOK'
  BY DEF QueriesInv, BoardTypeOK, PageTypeOK, boardVars
<1>4. ReaderInv'
  BY <1>2 DEF ReaderInv
<1>5. ASSUME NEW b \in Buckets PROVE FiguresOf(b)'
  <2>1. /\ board'.at[b].jobs = 0 /\ board'.at[b].cost = 0
        /\ board'.at[b].came = 0 /\ board'.at[b].ok = 0
    BY <1>2 DEF Closed, NoFigures
  <2>2. /\ CreatedSince(b)' \in SUBSET Rows /\ Present' \in SUBSET Rows
        /\ CreatedSince(b)' \cap costed' \in SUBSET Rows
    BY DEF CreatedSince, Present
  <2>3. /\ Cardinality(CreatedSince(b)') \in Nat /\ Cardinality(Present') \in Nat
        /\ Cardinality(CreatedSince(b)' \cap costed') \in Nat
    BY <2>2, CountIsNat
  <2> QED BY <2>1, <2>3 DEF FiguresOf
<1>6. FiguresInv'
  BY <1>2, <1>5 DEF FiguresInv
<1> QED BY <1>1, <1>3, <1>4, <1>6 DEF QueriesInv

LEMMA QueriesStutter == QueriesInv /\ UNCHANGED queryVars => QueriesInv'
<1> SUFFICES ASSUME QueriesInv, UNCHANGED queryVars PROVE QueriesInv'
  OBVIOUS
<1>1. ListingsInv'
  BY ListingsStutter DEF QueriesInv, queryVars
<1>2. BoardTypeOK' /\ FiguresInv'
  BY BoardUnchanged DEF QueriesInv, queryVars, listingVars, boardVars
<1>3. PageTypeOK' /\ ReaderInv'
  BY DEF QueriesInv, PageTypeOK, ReaderInv, queryVars, listingVars, boardVars, JobTable, Closed
<1> QED BY <1>1, <1>2, <1>3 DEF QueriesInv

LEMMA QueriesStep == QueriesInv /\ [QueriesNext]_queryVars => QueriesInv'
BY ListingKeeps, BoardKeeps, PageKeeps, QueriesStutter DEF QueriesNext

-----------------------------------------------------------------------------
(* What list_paged, _bucket and get_job keep between them, whichever of     *)
(* the three reads the tables while upload_jobs and the worker commit.      *)
THEOREM QueriesInvariant == QueriesSpec => []QueriesInv
<1>1. QueriesInit => QueriesInv
  BY QueriesInvInit
<1> QED BY <1>1, QueriesStep, PTL DEF QueriesSpec

(* The totals, offsets and figures that list_paged, _bucket and get_job     *)
(* return stay in range, for any table.                                     *)
THEOREM QueriesTypeCorrect == QueriesSpec => []QueriesTypeOK
<1>1. QueriesInv => QueriesTypeOK
  BY DEF QueriesInv, ListingsInv, PageTypeOK, QueriesTypeOK
<1> QED BY <1>1, QueriesInvariant, PTL

(* list_paged counts and reads by offset while rows are committed: a walk   *)
(* from page 1 to the last misses at most as many of the rows it should     *)
(* have shown as have left the listing or come between a count and its page *)
(* meanwhile; with neither it misses none.                                  *)
THEOREM WalksMissFew == QueriesSpec => []WalkMissesFew
<1>1. QueriesInv => WalkMissesFew
  BY DEF QueriesInv, ListingsInv, WalkInv
<1> QED BY <1>1, QueriesInvariant, PTL

(* admin_dashboard reads its three periods one after the other, the         *)
(* shortest first, so a longer one never shows fewer jobs or a smaller cost *)
(* than a shorter one.                                                      *)
THEOREM PeriodsNest == QueriesSpec => []BucketsNest
<1>1. QueriesInv => BucketsNest
  BY DEF QueriesInv, FiguresInv, NoMore, BucketsNest
<1> QED BY <1>1, QueriesInvariant, PTL

(* _bucket counts all jobs of a period and then those that succeeded: a     *)
(* rate passes 100 % by the jobs committed between the two at most.         *)
THEOREM RatesAreRates == QueriesSpec => []RateIsARate
<1>1. QueriesInv => RateIsARate
  BY DEF QueriesInv, FiguresInv, FiguresOf, RateIsARate
<1> QED BY <1>1, QueriesInvariant, PTL
=============================================================================
