--------------------------- MODULE BdaClientProofs ---------------------------
(***************************************************************************)
(* The client of the extraction service, for any length of a document, of  *)
(* its outputs and of the lists that name them, and for any deadline and   *)
(* any duration of a status call: what is read and charged, and when the   *)
(* end of an invocation is noticed.  And the parsing of a result, for any  *)
(* number of fields, columns and rows: what becomes of its confidences.    *)
(*                                                                         *)
(* Induction over data goes through sets in place of predicates: a set of  *)
(* numbers has a least one and a family of finite sets a smallest, hence   *)
(* UpTo, OverSubsets and FoldIsUnique, by which the recursive functions of *)
(* BdaParse and the folds it uses are what they are said to be.            *)
(***************************************************************************)
EXTENDS BdaParse, BdaOutput, BdaPolling, FiniteSetTheorems, WellFoundedInduction, TLAPS

(* What polling keeps to: how far the clock has run past the end of the    *)
(* invocation and past the deadline, at each place of the loop.            *)
Ahead(p, past, beyond) == p.now <= p.ends + past /\ p.now <= Deadline(p) + beyond

PollingInv ==
    /\ poll \in [pc : {"check", "sleep", "answered", "raised", "timeout", "cancelled"},
                 now : Nat, begun : Nat, ends : Nat, limited : BOOLEAN, idx : Nat]
    /\ poll.pc = "check" => Ahead(poll, LongestBackoff + MaxCheck, LongestBackoff + MaxCheck)
    /\ poll.pc = "sleep" => Ahead(poll, MaxCheck, MaxCheck)
    /\ EndNoticed

LEMMA BackoffBounded ==
    ASSUME NEW idx \in Nat
    PROVE  Backoff(idx) \in 0 .. LongestBackoff
BY DEF Backoff, LongestBackoff

LEMMA PollingBegins == PollingInit => PollingInv
<1> SUFFICES ASSUME NEW begun \in 0 .. MaxCheck, NEW ends \in 0 .. MaxSeconds + 2 * LongestBackoff,
                    NEW limited \in BOOLEAN, begun <= ends,
                    poll = [pc |-> "check", now |-> begun, begun |-> begun, ends |-> ends,
                            limited |-> limited, idx |-> 0]
             PROVE  PollingInv
  BY DEF PollingInit
<1>1. MaxCheck \in Nat /\ MaxSeconds \in Nat
  BY PollingConstants
<1> QED BY <1>1 DEF PollingInv, Ahead, EndNoticed, Deadline, Notice, LongestBackoff

(* Time goes on by so much from here. *)
LEMMA UntilSteps ==
    ASSUME PollingInv, NEW time \in Nat, NEW label, NEW idx,
           Until(poll.now + time, [poll EXCEPT !.pc = label, !.idx = idx])
    PROVE  \/ poll' = [poll EXCEPT !.pc = label, !.idx = idx, !.now = poll.now + time]
           \/ /\ poll' = [poll EXCEPT !.pc = "cancelled", !.idx = idx, !.now = MaxSeconds]
              /\ poll.now + time >= MaxSeconds
BY DEF Until, SoftLimitDue, PollingInv

(* What is to be shown of a step: how far the clock may have run where it  *)
(* leads to.                                                               *)
LEMMA ClockInBounds ==
    ASSUME PollingInv, NEW now \in Nat, NEW idx \in Nat,
           NEW label \in {"check", "sleep", "answered", "raised", "timeout", "cancelled"},
           poll' = [poll EXCEPT !.pc = label, !.idx = idx, !.now = now],
           now <= poll.begun + MaxSeconds + MaxCheck + 21,
           label = "answered" => now <= poll.ends + 21 + 2 * MaxCheck,
           label = "check" => now <= poll.ends + 21 + MaxCheck,
           label = "sleep" => now <= poll.ends + MaxCheck /\ now <= poll.begun + MaxSeconds + MaxCheck,
           label = "cancelled" => poll.ends + 21 + 2 * MaxCheck >= MaxSeconds,
           label = "timeout" => poll.ends + 21 + MaxCheck >= poll.begun + MaxSeconds
    PROVE  PollingInv'
<1>0. /\ MaxCheck \in Nat /\ MaxSeconds \in Nat
      /\ poll.begun \in Nat /\ poll.ends \in Nat /\ poll.limited \in BOOLEAN
  BY PollingConstants DEF PollingInv
<1>1. /\ poll'.pc = label /\ poll'.now = now /\ poll'.begun = poll.begun
      /\ poll'.ends = poll.ends /\ poll'.limited = poll.limited /\ poll'.idx = idx
      /\ poll' \in [pc : {"check", "sleep", "answered", "raised", "timeout", "cancelled"},
                    now : Nat, begun : Nat, ends : Nat, limited : BOOLEAN, idx : Nat]
  BY DEF PollingInv
<1>2. Deadline(poll)' = poll.begun + MaxSeconds
  BY <1>1 DEF Deadline
<1>3. poll'.pc = "check" => Ahead(poll, LongestBackoff + MaxCheck, LongestBackoff + MaxCheck)'
  BY <1>0, <1>1, <1>2 DEF Ahead, LongestBackoff
<1>4. poll'.pc = "sleep" => Ahead(poll, MaxCheck, MaxCheck)'
  BY <1>0, <1>1, <1>2 DEF Ahead
<1>5. EndNoticed'
  BY <1>0, <1>1, <1>2 DEF EndNoticed, Notice, LongestBackoff
<1> QED BY <1>1, <1>3, <1>4, <1>5 DEF PollingInv

LEMMA PollingStep == PollingInv /\ [PollingNext]_poll => PollingInv'
<1> SUFFICES ASSUME PollingInv, [PollingNext]_poll PROVE PollingInv'
  OBVIOUS
<1>0. /\ MaxCheck \in Nat /\ MaxSeconds \in Nat /\ Deadline(poll) = poll.begun + MaxSeconds
      /\ poll.now \in Nat /\ poll.begun \in Nat /\ poll.ends \in Nat /\ poll.idx \in Nat
  BY PollingConstants DEF PollingInv, Deadline
<1>1. /\ poll.pc = "check" => poll.now <= poll.ends + 21 + MaxCheck
      /\ poll.pc = "sleep" => /\ poll.now <= poll.ends + MaxCheck
                              /\ poll.now <= poll.begun + MaxSeconds + MaxCheck
      /\ poll.now <= poll.begun + MaxSeconds + MaxCheck + 21
  BY <1>0 DEF PollingInv, Ahead, EndNoticed, LongestBackoff
<1>2. ASSUME NEW time \in 0 .. MaxCheck, NEW label \in {"answered", "raised", "sleep"},
             label = "sleep" => poll.ends > poll.now,
             poll.pc = "check", ~ PastDeadline,
             Until(poll.now + time, [poll EXCEPT !.pc = label])
      PROVE  PollingInv'
  <2>1. poll.now <= poll.begun + MaxSeconds
    BY <1>0, <1>2 DEF PastDeadline
  <2>2. time \in Nat /\ time <= MaxCheck /\ poll.now + time \in Nat
    BY <1>0, <1>2
  <2>3. [poll EXCEPT !.pc = label] = [poll EXCEPT !.pc = label, !.idx = poll.idx]
    BY DEF PollingInv
  <2>4. CASE poll' = [poll EXCEPT !.pc = label, !.idx = poll.idx, !.now = poll.now + time]
    <3>1. /\ poll.now + time <= poll.begun + MaxSeconds + MaxCheck
          /\ poll.now + time <= poll.ends + 21 + 2 * MaxCheck
          /\ label = "sleep" => poll.now + time <= poll.ends + MaxCheck
      BY <1>0, <1>1, <1>2, <2>1, <2>2
    <3>2. poll.now + time <= poll.begun + MaxSeconds + MaxCheck + 21
      BY <1>0, <2>2, <3>1
    <3> QED BY <1>0, <1>2, <2>2, <2>4, <3>1, <3>2, ClockInBounds
  <2>5. CASE /\ poll' = [poll EXCEPT !.pc = "cancelled", !.idx = poll.idx, !.now = MaxSeconds]
             /\ poll.now + time >= MaxSeconds
    <3>1. poll.ends + 21 + 2 * MaxCheck >= MaxSeconds
      BY <1>0, <1>1, <1>2, <2>2, <2>5
    <3>2. MaxSeconds <= poll.begun + MaxSeconds + MaxCheck + 21
      BY <1>0
    <3> QED BY <1>0, <2>5, <3>1, <3>2, ClockInBounds
  <2>6. Until(poll.now + time, [poll EXCEPT !.pc = label, !.idx = poll.idx])
    BY <1>2, <2>3
  <2> QED BY <2>2, <2>4, <2>5, <2>6, UntilSteps
<1>3. CASE Check
  <2>1. PICK time \in 0 .. MaxCheck :
           Until(poll.now + time,
                 [poll EXCEPT !.pc = IF poll.ends <= poll.now THEN "answered" ELSE "sleep"])
    BY <1>3 DEF Check
  <2> DEFINE label == IF poll.ends <= poll.now THEN "answered" ELSE "sleep"
  <2>2. label \in {"answered", "sleep"} /\ (label = "sleep" => poll.ends > poll.now)
    BY <1>0
  <2>3. poll.pc = "check" /\ ~ PastDeadline
    BY <1>3 DEF Check
  <2>4. Until(poll.now + time, [poll EXCEPT !.pc = label])
    BY <2>1
  <2> HIDE DEF label
  <2> QED BY <1>2, <2>2, <2>3, <2>4
<1>4. CASE CheckRaises
  <2>1. PICK time \in 0 .. MaxCheck : Until(poll.now + time, [poll EXCEPT !.pc = "raised"])
    BY <1>4 DEF CheckRaises
  <2>2. poll.pc = "check" /\ ~ PastDeadline
    BY <1>4 DEF CheckRaises
  <2> QED BY <1>2, <2>1, <2>2
<1>5. CASE GiveUpPolling
  <2>1. poll.pc = "check" /\ poll.now > poll.begun + MaxSeconds
    BY <1>0, <1>5 DEF GiveUpPolling, PastDeadline
  <2>2. poll' = [poll EXCEPT !.pc = "timeout", !.idx = poll.idx, !.now = poll.now]
    BY <1>5 DEF GiveUpPolling, PollingInv
  <2>3. poll.ends + 21 + MaxCheck >= poll.begun + MaxSeconds
    BY <1>0, <1>1, <2>1
  <2> QED BY <1>0, <1>1, <2>2, <2>3, ClockInBounds
<1>6. CASE Sleep
  <2> DEFINE time == Backoff(poll.idx)
  <2>1. time \in Nat /\ time <= 21
    BY <1>0, BackoffBounded DEF LongestBackoff
  <2>2. poll.pc = "sleep" /\ Until(poll.now + time, [poll EXCEPT !.pc = "check", !.idx = poll.idx + 1])
    <3>1. [poll EXCEPT !.idx = @ + 1, !.pc = "check"] = [poll EXCEPT !.pc = "check", !.idx = poll.idx + 1]
      BY DEF PollingInv
    <3> QED BY <1>6, <3>1 DEF Sleep
  <2> HIDE DEF time
  <2>3. poll.now + time \in Nat /\ poll.idx + 1 \in Nat
    BY <1>0, <2>1
  <2>4. CASE poll' = [poll EXCEPT !.pc = "check", !.idx = poll.idx + 1, !.now = poll.now + time]
    <3>1. /\ poll.now + time <= poll.ends + 21 + MaxCheck
          /\ poll.now + time <= poll.begun + MaxSeconds + MaxCheck + 21
      BY <1>0, <1>1, <2>1, <2>2
    <3> QED BY <2>3, <2>4, <3>1, ClockInBounds
  <2>5. CASE /\ poll' = [poll EXCEPT !.pc = "cancelled", !.idx = poll.idx + 1, !.now = MaxSeconds]
             /\ poll.now + time >= MaxSeconds
    <3>1. poll.ends + 21 + 2 * MaxCheck >= MaxSeconds
      BY <1>0, <1>1, <2>1, <2>2, <2>5
    <3>2. MaxSeconds <= poll.begun + MaxSeconds + MaxCheck + 21
      BY <1>0
    <3> QED BY <1>0, <2>3, <2>5, <3>1, <3>2, ClockInBounds
  <2> QED BY <2>1, <2>2, <2>4, <2>5, UntilSteps
<1>7. CASE UNCHANGED poll
  BY <1>7 DEF PollingInv, Ahead, EndNoticed, Deadline
<1> QED BY <1>3, <1>4, <1>5, <1>6, <1>7 DEF PollingNext

(* Whatever the deadline and however long a status call takes: the end of  *)
(* an invocation is noticed within the longest wait and two calls, none    *)
(* that ends early enough for that is given up, and the loop of            *)
(* wait_for_completion outlasts its deadline by a wait and a call at most. *)
THEOREM EndIsNoticed == PollingSpec => []EndNoticed
<1>1. PollingInv => EndNoticed
  BY DEF PollingInv
<1> QED BY <1>1, PollingBegins, PollingStep, PTL DEF PollingSpec

-----------------------------------------------------------------------------
(* What is read of an output. *)

LEMMA LeastIsThere ==
    ASSUME NEW S \in SUBSET Nat, S # {}
    PROVE  Min(S) \in S /\ \A n \in S : Min(S) <= n
<1> DEFINE Less == OpToRel(<, Nat)
<1>1. \A y, x \in Nat : y < x => <<y, x>> \in Less
  BY DEF OpToRel
<1>2. IsWellFoundedOn(Less, Nat)
  BY NatLessThanWellFounded
<1> HIDE DEF Less
<1>3. PICK x \in S : \A y \in S : ~ (<<y, x>> \in Less)
  BY <1>2, WFMin
<1>4. ASSUME NEW y \in S PROVE x <= y
  <2>1. x \in Nat /\ y \in Nat
    OBVIOUS
  <2>2. ~ (y < x)
    BY <1>1, <1>3, <2>1
  <2> QED BY <2>1, <2>2
<1> QED BY <1>4 DEF Min

(* An output as the client may meet one: lists of any length. *)
Readable(o) ==
    /\ DOMAIN o.keys \subseteq Nat
    /\ DOMAIN o.assets \subseteq Nat
    /\ \A a \in DOMAIN o.assets :
          IF DOMAIN o.assets[a] = {} THEN o.assets[a] = <<>>
          ELSE /\ 1 \in DOMAIN o.assets[a] /\ o.assets[a] # <<>>
               /\ \A i \in DOMAIN o.assets[a] : o.assets[a][i] \in Segments
    /\ o.pages \in Nat \ {0} /\ o.fields \in Nat
    /\ o.standard \in {"list", "count", "none"}

(* A path that was written is found, where it is the only one. *)
LEMMA PathsFound ==
    ASSUME NEW o, Readable(o), Unsplit(o), Wrote(o, "custom")
    PROVE  /\ Resolve(o).custom = "custom"
           /\ Wrote(o, "standard") => Resolve(o).standard = "standard"
<1>1. CASE o.uri = "meta" \/ "meta" \in Range(o.keys)
  <2> DEFINE assets == o.assets
             split == {a \in DOMAIN assets : assets[a] # <<>>}
  <2>1. PICK a \in DOMAIN assets : \E i \in DOMAIN assets[a] :
           "custom" \in {assets[a][i].custom, assets[a][i].standard}
    BY <1>1 DEF Wrote
  <2>2. PICK i \in DOMAIN assets[a] : "custom" \in {assets[a][i].custom, assets[a][i].standard}
    BY <2>1
  <2>3. \A b \in DOMAIN assets : \A k \in DOMAIN assets[b] : b = a /\ k = i
    <3> TAKE b \in DOMAIN assets
    <3> TAKE k \in DOMAIN assets[b]
    <3>1. <<a, i>> \in SegmentsOf(o) /\ <<b, k>> \in SegmentsOf(o)
      BY <2>2 DEF SegmentsOf
    <3>2. <<b, k>> = <<a, i>>
      BY <3>1 DEF Unsplit
    <3> QED BY <3>2
  <2>4. /\ 1 \in DOMAIN assets[a] /\ assets[a] # <<>>
        /\ assets[a][i] \in Segments
    BY <2>2 DEF Readable
  <2>5. i = 1
    BY <2>3, <2>4
  <2>6. \A b \in DOMAIN assets : assets[b] # <<>> => b = a
    BY <2>3 DEF Readable
  <2>7. split = {a}
    BY <2>4, <2>6
  <2>8. Min(split) = a
    BY <2>7, LeastIsThere DEF Readable
  <2>9. Resolve(o) = assets[a][1]
    BY <1>1, <2>7, <2>8 DEF Resolve, FromMetadata
  <2>10. assets[a][1].custom = "custom"
    BY <2>2, <2>4, <2>5 DEF Segments, Missing
  <2>11. ASSUME Wrote(o, "standard") PROVE assets[a][1].standard = "standard"
    <3>1. PICK b \in DOMAIN assets : \E k \in DOMAIN assets[b] :
             "standard" \in {assets[b][k].custom, assets[b][k].standard}
      BY <1>1, <2>11 DEF Wrote
    <3>2. "standard" \in {assets[a][1].custom, assets[a][1].standard}
      BY <2>3, <2>5, <3>1
    <3> QED BY <2>10, <3>2
  <2> QED BY <2>9, <2>10, <2>11
<1>2. CASE ~ (o.uri = "meta" \/ "meta" \in Range(o.keys))
  <2>1. Resolve(o).custom = "custom"
    <3>1. "custom" \in Range(o.keys)
      BY <1>2 DEF Wrote
    <3>2. PickCustom(o.keys) = "custom"
      BY <3>1 DEF PickCustom
    <3> QED BY <1>2, <3>2 DEF Resolve
  <2>2. ASSUME Wrote(o, "standard") PROVE Resolve(o).standard = "standard"
    <3> DEFINE found == {i \in DOMAIN o.keys : o.keys[i] \in {"standard"}}
    <3>1. "standard" \in Range(o.keys)
      BY <1>2, <2>2 DEF Wrote
    <3>2. found # {} /\ found \in SUBSET Nat
      BY <3>1 DEF Range, Readable
    <3>3. Min(found) \in found
      BY <3>2, LeastIsThere
    <3>4. FirstOf(o.keys, {"standard"}) = o.keys[Min(found)]
      BY <3>2 DEF FirstOf
    <3>5. PickStandard(o.keys) = "standard"
      BY <3>3, <3>4 DEF PickStandard
    <3> QED BY <1>2, <3>5 DEF Resolve
  <2> QED BY <2>1, <2>2
<1> QED BY <1>1, <1>2

(* compute_cost charges a page as documented, whatever its fields. *)
LEMMA CostAsDocumented ==
    ASSUME NEW pages \in Nat, NEW fields \in Nat
    PROVE  Cost(pages, fields) = pages * (400 + 5 * Cardinality(31 .. fields))
<1> DEFINE extras == IF fields > FieldThreshold THEN fields - FieldThreshold ELSE 0
<1>1. Cardinality(31 .. fields) = IF 31 > fields THEN 0 ELSE fields - 31 + 1
  BY FS_Interval
<1>2. extras = Cardinality(31 .. fields) /\ extras \in Nat
  BY <1>1 DEF FieldThreshold
<1>3. BasePerPage + extras * PerExtraField = 400 + 5 * extras
  <2> HIDE DEF extras
  <2> QED BY <1>2 DEF BasePerPage, PerExtraField
<1>4. Cost(pages, fields) = pages * (BasePerPage + extras * PerExtraField)
  BY DEF Cost
<1> QED BY <1>2, <1>3, <1>4

LEMMA PricedRight ==
    ASSUME NEW o, Readable(o), Unsplit(o), Wrote(o, "custom")
    PROVE  LET result == FetchAndParse(o) IN
           /\ result.of = "custom"
           /\ o.custom = "list" \/ (Wrote(o, "standard") /\ o.standard # "none")
                 => Cost(result.pages, result.fields) =
                       o.pages * (400 + 5 * Cardinality(31 .. o.fields))
<1> DEFINE paths == Resolve(o)
           parsed == Payload(o, "custom")
           result == FetchAndParse(o)
<1>1. paths.custom = "custom" /\ (Wrote(o, "standard") => paths.standard = "standard")
  BY PathsFound
<1>2. /\ parsed.of = "custom" /\ parsed.fields = o.fields
      /\ parsed.pages = IF o.custom = "list" THEN o.pages ELSE 0
  BY DEF Payload
<1>3. result = IF parsed.pages = 0 /\ paths.standard # Missing
               THEN [parsed EXCEPT !.pages = StandardPages(o)] ELSE parsed
  BY <1>1 DEF FetchAndParse, Missing
<1>4. result.of = "custom" /\ result.fields = o.fields
  BY <1>2, <1>3 DEF Payload
<1>5. ASSUME o.custom = "list" \/ (Wrote(o, "standard") /\ o.standard # "none")
      PROVE  result.pages = o.pages
  <2>1. CASE o.custom = "list"
    BY <1>2, <1>3, <2>1 DEF Readable
  <2>2. CASE o.custom # "list"
    <3>1. StandardPages(o) = o.pages /\ paths.standard # Missing
      BY <1>1, <1>5, <2>2 DEF StandardPages, Readable, Missing
    <3> QED BY <1>2, <1>3, <2>2, <3>1 DEF Payload
  <2> QED BY <2>1, <2>2
<1>6. Cost(o.pages, o.fields) = o.pages * (400 + 5 * Cardinality(31 .. o.fields))
  BY CostAsDocumented DEF Readable
<1> QED BY <1>4, <1>5, <1>6

(* The outputs of the model are among them. *)
LEMMA OutputsReadable ==
    ASSUME NEW o \in Outputs
    PROVE  Readable(o)
<1>1. PICK p \in Places, c \in Contents :
         o = [uri |-> p.uri, keys |-> p.keys, assets |-> p.assets,
              pages |-> c.pages, custom |-> c.custom, standard |-> c.standard, fields |-> c.fields]
  BY DEF Outputs
<1>2. c.pages \in Nat \ {0} /\ c.fields \in Nat /\ c.standard \in {"list", "count", "none"}
  <2>1. 1 \in Nat \ {0} /\ MaxPages \in Nat \ {0} /\ 1 .. MaxPages \subseteq Nat \ {0}
    BY OutputConstants
  <2>2. {30} \subseteq Nat /\ FieldCounts \subseteq Nat
    BY OutputConstants
  <2>3. CASE c \in [pages : {1, MaxPages}, custom : {"list", "none"},
                   standard : {"list", "count", "none"}, fields : {30}]
    BY <2>1, <2>2, <2>3
  <2>4. CASE c \in [pages : 1 .. MaxPages, custom : {"list"}, standard : {"none"},
                   fields : FieldCounts]
    BY <2>1, <2>2, <2>4
  <2> QED BY <2>3, <2>4 DEF Contents
<1>3. ASSUME NEW set, NEW n \in Nat, NEW seq \in SeqsUpTo(set, n)
      PROVE  /\ DOMAIN seq \subseteq Nat /\ \A i \in DOMAIN seq : seq[i] \in set
             /\ IF DOMAIN seq = {} THEN seq = <<>> ELSE 1 \in DOMAIN seq /\ seq # <<>>
  <2>1. PICK k \in 0 .. n : seq \in [1 .. k -> set]
    BY <1>3 DEF SeqsUpTo
  <2>2. DOMAIN seq = 1 .. k /\ k \in Nat
    BY <2>1
  <2>3. CASE k = 0
    BY <2>1, <2>2, <2>3
  <2>4. CASE k # 0
    BY <2>1, <2>2, <2>4
  <2> QED BY <2>1, <2>2, <2>3, <2>4
<1>4. p.keys \in SeqsUpTo(Kinds, 3)
  <2>1. \/ p.keys = <<"meta">> \/ p.keys = <<"meta", "custom">> \/ p.keys = <<"standard", "meta">>
        \/ p.keys \in KeyLists
    BY DEF Places
  <2>2. /\ <<"meta">> \in [1 .. 1 -> Kinds] /\ <<"meta", "custom">> \in [1 .. 2 -> Kinds]
        /\ <<"standard", "meta">> \in [1 .. 2 -> Kinds]
    BY DEF Kinds
  <2>3. 1 \in 0 .. 3 /\ 2 \in 0 .. 3
    OBVIOUS
  <2> QED BY <2>1, <2>2, <2>3 DEF KeyLists, SeqsUpTo
<1>5. p.assets \in Assets
  <2>1. p.assets \in Assets \/ p.assets = <<>>
    BY DEF Places
  <2>2. <<>> \in [1 .. 0 -> SeqsUpTo(Segments, 1)] /\ 0 \in 0 .. 2
    OBVIOUS
  <2> QED BY <2>1, <2>2 DEF Assets, SeqsUpTo
<1>6. \A a \in DOMAIN p.assets : p.assets[a] \in SeqsUpTo(Segments, 1)
  BY <1>3, <1>5 DEF Assets
<1>7. DOMAIN p.keys \subseteq Nat /\ DOMAIN p.assets \subseteq Nat
  BY <1>3, <1>4, <1>5 DEF Assets
<1>8. \A a \in DOMAIN p.assets :
         IF DOMAIN p.assets[a] = {} THEN p.assets[a] = <<>>
         ELSE /\ 1 \in DOMAIN p.assets[a] /\ p.assets[a] # <<>>
              /\ \A i \in DOMAIN p.assets[a] : p.assets[a][i] \in Segments
  BY <1>3, <1>6
<1> QED BY <1>1, <1>2, <1>7, <1>8 DEF Readable

(* Whatever the length of the document and the number of its fields: where *)
(* the service wrote a custom output for an unsplit document, that is what *)
(* fetch_and_parse reads, it finds the pages, and compute_cost charges     *)
(* them as documented.                                                     *)
THEOREM ResultIsPriced == OutputSpec => []ResultPriced
<1>1. OutputInit => output \in Outputs
  BY DEF OutputInit
<1>2. output \in Outputs /\ [UNCHANGED output]_output => (output \in Outputs)'
  OBVIOUS
<1>3. output \in Outputs => ResultPriced
  BY OutputsReadable, PricedRight DEF ResultPriced
<1> QED BY <1>1, <1>2, <1>3, PTL DEF OutputSpec

-----------------------------------------------------------------------------
(* The largest of some numbers, by the same for their distances from n.    *)
LEMMA GreatestIsThere ==
    ASSUME NEW n \in Nat, NEW T \in SUBSET (1 .. n), T # {}
    PROVE  Max(T) \in T
<1> DEFINE S == {n - x : x \in T}
<1>1. S \in SUBSET Nat /\ S # {}
  <2>1. ASSUME NEW x \in T PROVE n - x \in Nat
    <3>1. x \in 1 .. n
      OBVIOUS
    <3> QED BY <3>1
  <2> QED BY <2>1
<1>2. PICK x \in T : n - x = Min(S)
  <2> HIDE DEF S
  <2>1. Min(S) \in S
    BY <1>1, LeastIsThere
  <2> QED BY <2>1 DEF S
<1>3. ASSUME NEW y \in T PROVE x >= y
  <2>1. n - y \in S
    OBVIOUS
  <2> HIDE DEF S
  <2>2. Min(S) <= n - y
    BY <1>1, <2>1, LeastIsThere
  <2> QED BY <1>2, <2>2
<1> QED BY <1>3 DEF Max

(* Induction up to n: a set with 0 and with the successors of its members. *)
LEMMA UpTo ==
    ASSUME NEW n \in Nat, NEW Good, 0 \in Good,
           \A i \in 0 .. n : i + 1 <= n /\ i \in Good => i + 1 \in Good
    PROVE  0 .. n \subseteq Good
<1> SUFFICES ASSUME (0 .. n) \ Good # {} PROVE FALSE
  OBVIOUS
<1> DEFINE Bad == (0 .. n) \ Good
<1>1. Bad \in SUBSET Nat /\ Bad # {}
  OBVIOUS
<1>2. Min(Bad) \in Bad /\ \A i \in Bad : Min(Bad) <= i
  <2> HIDE DEF Bad
  <2> QED BY <1>1, LeastIsThere
<1>3. Min(Bad) \in 0 .. n /\ Min(Bad) \notin Good
  BY <1>2
<1>4. Min(Bad) # 0
  BY <1>3
<1> DEFINE i == Min(Bad) - 1
<1>5. i \in 0 .. n /\ i + 1 = Min(Bad) /\ i + 1 <= n
  BY <1>3, <1>4
<1>6. i \notin Bad
  <2>1. ~ (Min(Bad) <= i)
    BY <1>3
  <2> HIDE DEF Bad, i
  <2> QED BY <1>2, <2>1
<1>7. i \in Good
  BY <1>5, <1>6
<1> HIDE DEF Bad, i
<1> QED BY <1>3, <1>5, <1>7

(* Induction over the subsets of a finite set. *)
LEMMA OverSubsets ==
    ASSUME NEW S, IsFiniteSet(S), NEW Good,
           \A T \in SUBSET S : (\A U \in SUBSET T : U # T => U \in Good) => T \in Good
    PROVE  SUBSET S \subseteq Good
<1> SUFFICES ASSUME (SUBSET S) \ Good # {} PROVE FALSE
  OBVIOUS
<1> DEFINE Less == StrictSubsetOrdering(S)
           Bad == (SUBSET S) \ Good
<1>1. IsWellFoundedOn(Less, SUBSET S)
  <2>1. FiniteSubsetsOf(S) = SUBSET S
    BY FS_FiniteSubsetsOfFinite
  <2>2. IsWellFoundedOn(Less, FiniteSubsetsOf(S))
    BY FS_StrictSubsetOrderingWellFounded
  <2> HIDE DEF Less
  <2> QED BY <2>1, <2>2
<1>2. PICK T \in Bad : \A U \in Bad : ~ (<<U, T>> \in Less)
  <2>1. Bad \subseteq SUBSET S /\ Bad # {}
    OBVIOUS
  <2> HIDE DEF Less, Bad
  <2> QED BY <1>1, <2>1, WFMin
<1>3. ASSUME NEW U \in SUBSET T, U # T PROVE U \in Good
  BY <1>2, <1>3 DEF StrictSubsetOrdering
<1> QED BY <1>2, <1>3

(* A fold over a finite set is what agrees with it step by step. *)
SameSteps(S, pick, fold, form) ==
    /\ IsFiniteSet(S)
    /\ fold[{}] = form[{}]
    /\ \A T \in SUBSET S : T # {} => pick[T] \in T
    /\ \A T \in SUBSET S :
          T # {} /\ fold[T \ {pick[T]}] = form[T \ {pick[T]}] => fold[T] = form[T]

LEMMA FoldIsUnique ==
    ASSUME NEW S, NEW pick, NEW fold, NEW form, SameSteps(S, pick, fold, form)
    PROVE  fold[S] = form[S]
<1>0. /\ IsFiniteSet(S) /\ fold[{}] = form[{}]
      /\ \A T \in SUBSET S : T # {} => pick[T] \in T
      /\ \A T \in SUBSET S :
            T # {} /\ fold[T \ {pick[T]}] = form[T \ {pick[T]}] => fold[T] = form[T]
  BY DEF SameSteps
<1> DEFINE Good == {T \in SUBSET S : fold[T] = form[T]}
<1>1. ASSUME NEW T \in SUBSET S, \A U \in SUBSET T : U # T => U \in Good
      PROVE  T \in Good
  <2>1. CASE T = {}
    BY <1>0, <2>1
  <2>2. CASE T # {}
    <3>1. pick[T] \in T
      BY <1>0, <2>2
    <3>2. T \ {pick[T]} \in Good
      BY <1>1, <3>1
    <3> QED BY <1>0, <2>2, <3>2
  <2> QED BY <2>1, <2>2
<1> HIDE DEF Good
<1>2. SUBSET S \subseteq Good
  BY <1>0, <1>1, OverSubsets
<1> QED BY <1>2 DEF Good

-----------------------------------------------------------------------------
(* The field count.  Labels are the headings of some of the fields. *)

Labels(d, T) ==
    {<<f>> : f \in T} \cup {<<f, c>> : f \in {g \in T : d.shapes[g].kind = "table"}, c \in Columns}

LEMMA DocumentType ==
    ASSUME NEW d \in Documents
    PROVE  /\ d.shapes \in [Fields -> Shapes]
           /\ Valued(d) \subseteq Leaves(d.shapes)
           /\ d.as \in {"dict", "list", "entries"}
<1>1. PICK shapes \in [Fields -> Shapes] :
         d \in [shapes : {shapes}, form : [Leaves(shapes) -> LeafForms], as : {"dict", "list", "entries"}]
  BY DEF Documents
<1>2. d.shapes = shapes /\ DOMAIN d.form = Leaves(shapes) /\ d.as \in {"dict", "list", "entries"}
  BY <1>1
<1>3. Valued(d) \subseteq DOMAIN d.form
  BY DEF Valued
<1> QED BY <1>1, <1>2, <1>3

LEMMA DocumentStays == ParseSpec => [](doc \in Documents)
<1>1. ParseInit => doc \in Documents
  BY DEF ParseInit
<1>2. doc \in Documents /\ [UNCHANGED doc]_doc => (doc \in Documents)'
  OBVIOUS
<1> QED BY <1>1, <1>2, PTL DEF ParseSpec

LEMMA LabelsOfOne ==
    ASSUME NEW d, NEW x \in Fields
    PROVE  /\ IsFiniteSet(Labels(d, {x}))
           /\ Cardinality(Labels(d, {x})) =
                 1 + (IF d.shapes[x].kind = "table" THEN Cardinality(Columns) ELSE 0)
<1>1. IsFiniteSet({<<x>>}) /\ Cardinality({<<x>>}) = 1
  BY FS_Singleton
<1>2. CASE d.shapes[x].kind # "table"
  <2>1. Labels(d, {x}) = {<<x>>}
    BY <1>2 DEF Labels
  <2> QED BY <1>1, <1>2, <2>1
<1>3. CASE d.shapes[x].kind = "table"
  <2> DEFINE cells == {<<x, c>> : c \in Columns}
             cell == [c \in Columns |-> <<x, c>>]
  <2>1. cell \in Bijection(Columns, cells)
    BY DEF Bijection, Injection, Surjection, IsInjective
  <2>2. IsFiniteSet(cells) /\ Cardinality(cells) = Cardinality(Columns)
    <3>1. ExistsBijection(Columns, cells)
      BY <2>1 DEF ExistsBijection
    <3> HIDE DEF cells, cell
    <3> QED BY <3>1, FS_Bijection, ParseConstants
  <2>3. Labels(d, {x}) = cells \cup {<<x>>}
    BY <1>3 DEF Labels
  <2>4. <<x>> \notin cells
    OBVIOUS
  <2> HIDE DEF cells
  <2>5. Cardinality(Columns) \in Nat
    BY FS_CardinalityType, ParseConstants
  <2>6. /\ IsFiniteSet(cells \cup {<<x>>})
        /\ Cardinality(cells \cup {<<x>>}) = Cardinality(cells) + 1
    BY <2>2, <2>4, FS_AddElement
  <2>7. /\ IsFiniteSet(Labels(d, {x}))
        /\ Cardinality(Labels(d, {x})) = 1 + Cardinality(Columns)
    <3>1. Cardinality(Labels(d, {x})) = Cardinality(cells \cup {<<x>>})
      BY <2>3
    <3>2. IsFiniteSet(Labels(d, {x}))
      BY <2>3, <2>6
    <3> QED BY <2>2, <2>5, <2>6, <3>1, <3>2
  <2> QED BY <1>3, <2>7
<1> QED BY <1>2, <1>3

LEMMA LabelsAdd ==
    ASSUME NEW d, NEW T \in SUBSET Fields, NEW x \in T
    PROVE  Cardinality(Labels(d, T)) =
              1 + (IF d.shapes[x].kind = "table" THEN Cardinality(Columns) ELSE 0)
                + Cardinality(Labels(d, T \ {x}))
<1>0. \A U \in SUBSET Fields : IsFiniteSet(Labels(d, U))
  <2> DEFINE Good == {U \in SUBSET Fields : IsFiniteSet(Labels(d, U))}
  <2>1. ASSUME NEW U \in SUBSET Fields, \A V \in SUBSET U : V # U => V \in Good
        PROVE  U \in Good
    <3>1. CASE U = {}
      <4>1. Labels(d, U) = {}
        BY <3>1 DEF Labels
      <4> QED BY <4>1, FS_EmptySet
    <3>2. CASE U # {}
      <4>1. PICK y \in U : TRUE
        BY <3>2
      <4>2. IsFiniteSet(Labels(d, U \ {y}))
        BY <2>1, <4>1
      <4>3. IsFiniteSet(Labels(d, {y}))
        BY <4>1, LabelsOfOne
      <4>4. Labels(d, U) = Labels(d, U \ {y}) \cup Labels(d, {y})
        BY <4>1 DEF Labels
      <4> QED BY <4>2, <4>3, <4>4, FS_Union
    <3> QED BY <3>1, <3>2
  <2> HIDE DEF Good
  <2>2. SUBSET Fields \subseteq Good
    BY <2>1, OverSubsets, ParseConstants
  <2> QED BY <2>2 DEF Good
<1>1. Labels(d, T) = Labels(d, {x}) \cup Labels(d, T \ {x})
  BY DEF Labels
<1>2. Labels(d, {x}) \cap Labels(d, T \ {x}) = {}
  BY DEF Labels
<1>3. IsFiniteSet(Labels(d, {x})) /\ IsFiniteSet(Labels(d, T \ {x}))
  BY <1>0
<1>4. Cardinality(Labels(d, T)) = Cardinality(Labels(d, {x})) + Cardinality(Labels(d, T \ {x}))
  <2> DEFINE A == Labels(d, {x})
             B == Labels(d, T \ {x})
  <2>1. Cardinality({}) = 0
    BY FS_EmptySet
  <2>2. Cardinality(Labels(d, {x})) \in Nat /\ Cardinality(Labels(d, T \ {x})) \in Nat
    BY <1>3, FS_CardinalityType
  <2>3. Cardinality(A \cup B) = Cardinality(A) + Cardinality(B) - Cardinality(A \cap B)
    <3>1. IsFiniteSet(A) /\ IsFiniteSet(B)
      BY <1>3
    <3> HIDE DEF A, B
    <3> QED BY <3>1, FS_Union
  <2>4. Labels(d, T) = A \cup B /\ A \cap B = {}
    BY <1>1, <1>2
  <2>5. Cardinality(A) \in Nat /\ Cardinality(B) \in Nat
    BY <2>2
  <2> HIDE DEF A, B
  <2>6. Cardinality(Labels(d, T)) = Cardinality(A) + Cardinality(B)
    BY <2>1, <2>3, <2>4, <2>5
  <2> QED BY <2>6 DEF A, B
<1> QED BY <1>4, LabelsOfOne

(* What a field adds to the count. *)
LEMMA FieldAdds ==
    ASSUME NEW d \in Documents, NEW f \in Fields
    PROVE  LET n == Inference(d)[f] IN
           (IF n.t = "list" /\ n.at # <<>> /\ n.at[1].t = "dict"
            THEN Cardinality(DOMAIN n.at[1].at) ELSE 0)
           = (IF d.shapes[f].kind = "table" THEN Cardinality(Columns) ELSE 0)
<1> DEFINE n == Inference(d)[f]
           row == Dict([c \in Columns |-> Value])
<1>1. d.shapes[f] \in Shapes
  BY DocumentType
<1>2. n = InferField(d, f)
  BY DEF Inference
<1>3. CASE d.shapes[f].kind = "scalar"
  <2>1. n.t # "list"
    BY <1>2, <1>3 DEF InferField, Value, Number
  <2> QED BY <1>3, <2>1
<1>4. CASE d.shapes[f].kind = "object"
  <2>1. n.t # "list"
    BY <1>2, <1>4 DEF InferField, Dict
  <2> QED BY <1>4, <2>1
<1>5. CASE d.shapes[f].kind = "table"
  <2>1. d.shapes[f].rows \in 1 .. MaxRows
    BY <1>1, <1>5 DEF Shapes
  <2>2. n = List([i \in 1 .. d.shapes[f].rows |-> row])
    BY <1>2, <1>5 DEF InferField
  <2>3. n.t = "list" /\ n.at = [i \in 1 .. d.shapes[f].rows |-> row]
    BY <2>2 DEF List
  <2>4. 1 \in 1 .. d.shapes[f].rows
    BY <2>1, ParseConstants
  <2>5. n.at # <<>> /\ n.at[1] = row
    BY <2>3, <2>4
  <2>6. row.t = "dict" /\ DOMAIN row.at = Columns
    BY DEF Dict
  <2> HIDE DEF row
  <2> QED BY <1>5, <2>3, <2>5, <2>6
<1> QED BY <1>1, <1>3, <1>4, <1>5 DEF Shapes

(* The sum that _count_fields makes is the number of the headings. *)
LEMMA CountIs ==
    ASSUME NEW d \in Documents
    PROVE  CountFields(Inference(d)) = Cardinality(Labels(d, Fields))
<1> DEFINE Extra(f) == IF d.shapes[f].kind = "table" THEN Cardinality(Columns) ELSE 0
           ColumnsOf(n) == IF n.t = "list" /\ n.at # <<>> /\ n.at[1].t = "dict"
                           THEN Cardinality(DOMAIN n.at[1].at) ELSE 0
           weight == [f \in Fields |-> 1 + ColumnsOf(Inference(d)[f])]
           pick == [T \in SUBSET Fields |-> CHOOSE x \in T : TRUE]
           form == [T \in SUBSET Fields |-> Cardinality(Labels(d, T))]
           Folds(g) == g = [T \in SUBSET Fields |->
                              IF T = {} THEN 0
                              ELSE weight[CHOOSE x \in T : TRUE] + g[T \ {CHOOSE x \in T : TRUE}]]
           fold == CHOOSE g : Folds(g)
<1>1. DOMAIN Inference(d) = Fields
  BY DEF Inference
<1>2. CountFields(Inference(d)) = FoldFunctionOnSet(+, 0, weight, Fields)
  BY <1>1 DEF CountFields
<1>3. FoldFunctionOnSet(+, 0, weight, Fields) = fold[Fields]
  <2> HIDE DEF weight
  <2> QED BY DEF FoldFunctionOnSet, MapThenFoldSet
<1>4. \A f \in Fields : weight[f] = 1 + Extra(f)
  BY FieldAdds
<1>5. \A T \in SUBSET Fields : T # {} => pick[T] \in T
  OBVIOUS
<1>6. \A T \in SUBSET Fields : T # {} =>
         form[T] = weight[pick[T]] + form[T \ {pick[T]}]
  <2> SUFFICES ASSUME NEW T \in SUBSET Fields, T # {}
               PROVE  form[T] = weight[pick[T]] + form[T \ {pick[T]}]
    OBVIOUS
  <2>1. pick[T] \in T
    BY <1>5
  <2>2. form[T] = Cardinality(Labels(d, T)) /\ form[T \ {pick[T]}] = Cardinality(Labels(d, T \ {pick[T]}))
    OBVIOUS
  <2> HIDE DEF form, pick, weight
  <2> QED BY <1>4, <2>1, <2>2, LabelsAdd
<1>7. form[{}] = 0
  <2>1. Labels(d, {}) = {}
    BY DEF Labels
  <2> QED BY <2>1, FS_EmptySet
<1>8. Folds(form)
  <2> HIDE DEF weight
  <2> QED BY <1>6, <1>7
<1>9. Folds(fold)
  <2> HIDE DEF Folds, form
  <2> QED BY <1>8
<1>10. /\ fold[{}] = 0
       /\ \A T \in SUBSET Fields : T # {} => fold[T] = weight[pick[T]] + fold[T \ {pick[T]}]
  <2> HIDE DEF weight, fold
  <2> QED BY <1>9
<1> HIDE DEF fold, form, pick, weight
<1>11. SameSteps(Fields, pick, fold, form)
  <2>1. fold[{}] = form[{}]
    BY <1>7, <1>10
  <2>2. \A T \in SUBSET Fields :
           T # {} /\ fold[T \ {pick[T]}] = form[T \ {pick[T]}] => fold[T] = form[T]
    BY <1>6, <1>10
  <2> QED BY <1>5, <2>1, <2>2, ParseConstants DEF SameSteps
<1>12. fold[Fields] = form[Fields]
  BY <1>11, FoldIsUnique
<1> QED BY <1>2, <1>3, <1>12 DEF form

(* Whatever the number of fields, columns and rows, the field count that   *)
(* compute_cost is given is the number of fields and of column headings:   *)
(* a longer table costs nothing more.                                      *)
THEOREM TablesAreByColumn == ParseSpec => []TablesPricedByColumn
<1>1. doc \in Documents => TablesPricedByColumn
  <2> SUFFICES ASSUME doc \in Documents PROVE TablesPricedByColumn
    OBVIOUS
  <2>1. Headings = Labels(doc, Fields)
    BY DEF Headings, Labels
  <2> QED BY <2>1, CountIs DEF TablesPricedByColumn
<1> QED BY <1>1, DocumentStays, PTL

-----------------------------------------------------------------------------
(* What the walk makes of a field. *)

(* The list that Kept builds, loop by loop. *)
KeptLoop(s, n, u) ==
    u = [i \in 0 .. n |-> IF i = 0 THEN <<>>
                          ELSE IF Present(s[i]) THEN Append(u[i - 1], s[i]) ELSE u[i - 1]]

LEMMA KeptLoopEnds ==
    ASSUME NEW n \in Nat, NEW s
    PROVE  \E u : KeptLoop(s, n, u)
<1> DEFINE Good == {m \in 0 .. n : \E u : KeptLoop(s, m, u)}
<1>1. 0 \in Good
  <2> DEFINE u == [i \in 0 .. 0 |-> <<>>]
  <2>1. KeptLoop(s, 0, u)
    BY DEF KeptLoop
  <2> QED BY <2>1
<1>2. ASSUME NEW m \in 0 .. n, m + 1 <= n, m \in Good PROVE m + 1 \in Good
  <2>1. PICK u : KeptLoop(s, m, u)
    BY <1>2
  <2> DEFINE last == IF Present(s[m + 1]) THEN Append(u[m], s[m + 1]) ELSE u[m]
             more == [i \in 0 .. m + 1 |-> IF i = m + 1 THEN last ELSE u[i]]
  <2>2. \A i \in 0 .. m : u[i] = IF i = 0 THEN <<>>
                                 ELSE IF Present(s[i]) THEN Append(u[i - 1], s[i]) ELSE u[i - 1]
    BY <2>1 DEF KeptLoop
  <2>3. \A i \in 0 .. m + 1 :
           more[i] = IF i = 0 THEN <<>>
                     ELSE IF Present(s[i]) THEN Append(more[i - 1], s[i]) ELSE more[i - 1]
    <3> SUFFICES ASSUME NEW i \in 0 .. m + 1
                 PROVE  more[i] = IF i = 0 THEN <<>>
                           ELSE IF Present(s[i]) THEN Append(more[i - 1], s[i]) ELSE more[i - 1]
      OBVIOUS
    <3>1. CASE i = 0
      BY <2>2, <3>1
    <3>2. CASE i \in 1 .. m
      <4>1. more[i] = u[i] /\ more[i - 1] = u[i - 1]
        BY <3>2
      <4> HIDE DEF more
      <4> QED BY <2>2, <3>2, <4>1
    <3>3. CASE i = m + 1
      <4>1. more[i] = last /\ more[i - 1] = u[m]
        BY <3>3
      <4> HIDE DEF more
      <4> QED BY <3>3, <4>1
    <3> QED BY <3>1, <3>2, <3>3
  <2>4. KeptLoop(s, m + 1, more)
    <3>1. more = [i \in 0 .. m + 1 |-> more[i]]
      OBVIOUS
    <3> HIDE DEF more
    <3> QED BY <2>3, <3>1 DEF KeptLoop
  <2> HIDE DEF more
  <2> QED BY <1>2, <2>4
<1> HIDE DEF Good
<1>3. 0 .. n \subseteq Good
  BY <1>1, <1>2, UpTo
<1> QED BY <1>3 DEF Good

(* What becomes of a sequence when one element is appended to it.          *)
ValuesOf(b) == {b[k] : k \in 1 .. Len(b)}

LEMMA AppendedValues ==
    ASSUME NEW V, NEW b \in Seq(V), NEW x \in V
    PROVE  /\ Append(b, x) \in Seq(V)
           /\ ValuesOf(Append(b, x)) = ValuesOf(b) \cup {x}
<1> DEFINE a == Append(b, x)
<1>1. /\ a \in Seq(V) /\ Len(b) \in Nat /\ Len(a) = Len(b) + 1 /\ a[Len(b) + 1] = x
      /\ \A k \in 1 .. Len(b) : a[k] = b[k]
  OBVIOUS
<1> HIDE DEF a
<1>2. ASSUME NEW k \in 1 .. Len(a) PROVE a[k] \in ValuesOf(b) \cup {x}
  <2>1. k \in 1 .. Len(b) \/ k = Len(b) + 1
    BY <1>1
  <2> QED BY <1>1, <2>1 DEF ValuesOf
<1>3. ASSUME NEW k \in 1 .. Len(b) PROVE b[k] \in ValuesOf(a)
  <2>1. k \in 1 .. Len(a) /\ a[k] = b[k]
    BY <1>1
  <2> QED BY <2>1 DEF ValuesOf
<1>4. x \in ValuesOf(a)
  <2>1. Len(b) + 1 \in 1 .. Len(a)
    BY <1>1
  <2> QED BY <1>1, <2>1 DEF ValuesOf
<1>5. ValuesOf(a) = ValuesOf(b) \cup {x}
  <2>1. ValuesOf(a) \subseteq ValuesOf(b) \cup {x}
    BY <1>2 DEF ValuesOf
  <2>2. ValuesOf(b) \subseteq ValuesOf(a)
    BY <1>3 DEF ValuesOf
  <2> QED BY <1>4, <2>1, <2>2
<1> QED BY <1>1, <1>5 DEF a

LEMMA AppendedPrefix ==
    ASSUME NEW m \in Nat, NEW V, NEW s \in [1 .. m + 1 -> V]
    PROVE  Append([k \in 1 .. m |-> s[k]], s[m + 1]) = [k \in 1 .. m + 1 |-> s[k]]
<1> DEFINE b == [k \in 1 .. m |-> s[k]]
           a == Append(b, s[m + 1])
<1>1. b \in Seq(V) /\ Len(b) = m /\ s[m + 1] \in V
  OBVIOUS
<1>2. \A k \in 1 .. m : b[k] = s[k]
  OBVIOUS
<1> HIDE DEF b
<1>3. DOMAIN a = 1 .. m + 1 /\ a = [k \in 1 .. m + 1 |-> a[k]]
  BY <1>1
<1>3a. \A k \in 1 .. Len(b) : a[k] = b[k]
  <2> DEFINE x == s[m + 1]
  <2> HIDE DEF x
  <2>1. \A k \in 1 .. Len(b) : Append(b, x)[k] = b[k]
    <3>1. x \in V
      BY <1>1 DEF x
    <3> QED BY <1>1, <3>1
  <2> QED BY <2>1 DEF x
<1>4. \A k \in 1 .. m + 1 : a[k] = s[k]
  <2> SUFFICES ASSUME NEW k \in 1 .. m + 1 PROVE a[k] = s[k]
    OBVIOUS
  <2>1. CASE k = m + 1
    BY <1>1, <2>1
  <2>2. CASE k \in 1 .. m
    <3>1. a[k] = b[k]
      <4> HIDE DEF a
      <4> QED BY <1>1, <1>3a, <2>2
    <3> HIDE DEF a
    <3> QED BY <1>2, <2>2, <3>1
  <2> HIDE DEF a
  <2> QED BY <2>1, <2>2
<1> HIDE DEF a
<1>5. a = [k \in 1 .. m + 1 |-> s[k]]
  BY <1>3, <1>4
<1> QED BY <1>5 DEF a, b

(* What is kept of a list is what is there of it, and all of it where      *)
(* nothing is missing.                                                     *)
There(s, i) == {s[k] : k \in {j \in 1 .. i : Present(s[j])}}

KeptSoFar(s, n, i, b) ==
    /\ b \in Seq({s[k] : k \in 1 .. n})
    /\ ValuesOf(b) = There(s, i)
    /\ (\A j \in 1 .. i : Present(s[j])) => b = [k \in 1 .. i |-> s[k]]

IsList(s, n) == s = [i \in 1 .. n |-> s[i]]

LEMMA KeptIs ==
    ASSUME NEW n \in Nat, NEW s, IsList(s, n)
    PROVE  /\ DOMAIN Kept(s) = 1 .. Len(Kept(s))
           /\ ValuesOf(Kept(s)) = There(s, n)
           /\ (\A i \in 1 .. n : Present(s[i])) => Kept(s) = s
<1> DEFINE u == CHOOSE f : KeptLoop(s, n, f)
           V == {s[k] : k \in 1 .. n}
           Good == {i \in 0 .. n : KeptSoFar(s, n, i, u[i])}
<1>1. s \in Seq(V) /\ Len(s) = n
  BY DEF IsList
<1>2. Kept(s) = u[n]
  BY <1>1 DEF Kept, KeptLoop
<1>3. KeptLoop(s, n, u)
  BY KeptLoopEnds
<1>4. \A i \in 0 .. n : u[i] = IF i = 0 THEN <<>>
                               ELSE IF Present(s[i]) THEN Append(u[i - 1], s[i]) ELSE u[i - 1]
  <2> HIDE DEF u
  <2> QED BY <1>3 DEF KeptLoop
<1> HIDE DEF u
<1>4a. \A i \in 1 .. n : u[i] = IF Present(s[i]) THEN Append(u[i - 1], s[i]) ELSE u[i - 1]
  BY <1>4
<1>5. 0 \in Good
  <2>1. u[0] = <<>>
    BY <1>4
  <2>2. There(s, 0) = {} /\ ValuesOf(<<>>) = {}
    BY DEF There, ValuesOf
  <2>3. <<>> \in Seq(V) /\ <<>> = [k \in 1 .. 0 |-> s[k]]
    OBVIOUS
  <2>4. KeptSoFar(s, n, 0, u[0])
    BY <2>1, <2>2, <2>3 DEF KeptSoFar
  <2> QED BY <2>4
<1>6. ASSUME NEW i \in 0 .. n, i + 1 <= n, i \in Good PROVE i + 1 \in Good
  <2>0. i + 1 \in 1 .. n /\ i + 1 \in 0 .. n /\ (i + 1) - 1 = i /\ s[i + 1] \in V
    BY <1>6
  <2>1. KeptSoFar(s, n, i, u[i])
    BY <1>6
  <2>2. CASE ~ Present(s[i + 1])
    <3>1. u[i + 1] = u[i]
      BY <1>4, <2>0, <2>2
    <3>2. There(s, i + 1) = There(s, i)
      BY <2>2 DEF There
    <3>3. ~ (\A j \in 1 .. i + 1 : Present(s[j]))
      BY <2>0, <2>2
    <3>4. KeptSoFar(s, n, i + 1, u[i + 1])
      BY <2>1, <3>1, <3>2, <3>3 DEF KeptSoFar
    <3> QED BY <2>0, <3>4
  <2>3. CASE Present(s[i + 1])
    <3>1. u[i + 1] = Append(u[i], s[i + 1])
      <4>1. u[i + 1] = IF Present(s[i + 1]) THEN Append(u[(i + 1) - 1], s[i + 1]) ELSE u[(i + 1) - 1]
        BY <1>4a, <2>0, Zenon
      <4> QED BY <2>0, <2>3, <4>1, Zenon
    <3>2. There(s, i + 1) = There(s, i) \cup {s[i + 1]}
      BY <2>0, <2>3 DEF There
    <3>3. u[i] \in Seq(V)
      BY <2>1 DEF KeptSoFar
    <3>4. u[i + 1] \in Seq(V) /\ ValuesOf(u[i + 1]) = ValuesOf(u[i]) \cup {s[i + 1]}
      <4> HIDE DEF V
      <4> QED BY <2>0, <3>1, <3>3, AppendedValues
    <3>5. ASSUME \A j \in 1 .. i + 1 : Present(s[j])
          PROVE  u[i + 1] = [k \in 1 .. i + 1 |-> s[k]]
      <4>1. \A j \in 1 .. i : Present(s[j])
        BY <3>5
      <4>2. u[i] = [k \in 1 .. i |-> s[k]]
        BY <2>1, <4>1 DEF KeptSoFar
      <4> DEFINE w == [k \in 1 .. i + 1 |-> s[k]]
      <4>3. w \in [1 .. i + 1 -> V]
        BY <2>0
      <4>4. u[i] = [k \in 1 .. i |-> w[k]] /\ s[i + 1] = w[i + 1] /\ w = [k \in 1 .. i + 1 |-> w[k]]
        BY <4>2
      <4> HIDE DEF V, w
      <4>5. Append([k \in 1 .. i |-> w[k]], w[i + 1]) = [k \in 1 .. i + 1 |-> w[k]]
        BY <4>3, AppendedPrefix
      <4>6. u[i + 1] = w
        BY <3>1, <4>4, <4>5
      <4> QED BY <4>6 DEF w
    <3>6. KeptSoFar(s, n, i + 1, u[i + 1])
      BY <2>1, <3>2, <3>4, <3>5 DEF KeptSoFar
    <3> QED BY <2>0, <3>6
  <2> QED BY <2>2, <2>3
<1>7. KeptSoFar(s, n, n, u[n])
  <2>1. 0 .. n \subseteq Good
    <3> HIDE DEF Good
    <3> QED BY <1>5, <1>6, UpTo
  <2> QED BY <2>1
<1>8. DOMAIN u[n] = 1 .. Len(u[n])
  BY <1>7 DEF KeptSoFar
<1>9. (\A i \in 1 .. n : Present(s[i])) => u[n] = s
  BY <1>7 DEF KeptSoFar, IsList
<1>10. ValuesOf(u[n]) = There(s, n)
  BY <1>7 DEF KeptSoFar
<1> QED BY <1>2, <1>8, <1>9, <1>10

Score(d, p) == IF p \in Valued(d) THEN Number(p) ELSE Nothing

LEMMA OfANumber ==
    ASSUME NEW v
    PROVE  /\ ~ Present(WalkLeaf(Number(v)))
           /\ ~ Present(WalkRow(Number(v)))
           /\ ~ Present(WalkField(Number(v)))
BY DEF WalkLeaf, WalkRow, WalkField, WalkNode, Scored, Present, Number, Nothing

(* A leaf without a value is no score to the walk, nor is one without a    *)
(* confidence: both hold nothing but a number.                             *)
LEMMA LeafForm ==
    ASSUME NEW d, NEW p
    PROVE  /\ Leaf(d, p).t = "dict"
           /\ p \in Valued(d) => Scored(Leaf(d, p)) /\ Leaf(d, p).at["confidence"] = Number(p)
           /\ p \notin Valued(d) => /\ ~ Scored(Leaf(d, p))
                                    /\ \A k \in DOMAIN Leaf(d, p).at :
                                          \E v \in {p, 0} : Leaf(d, p).at[k] = Number(v)
<1>1. CASE p \in Valued(d)
  BY <1>1 DEF Leaf, Dict, Scored, Number
<1>2. CASE p \notin Valued(d) /\ p \in Bare(d)
  <2>1. Leaf(d, p) = Dict([confidence |-> Number(p)])
    BY <1>2 DEF Leaf
  <2> QED BY <1>2, <2>1 DEF Dict, Scored
<1>3. CASE p \notin Valued(d) /\ p \notin Bare(d)
  <2>1. Leaf(d, p) = Dict([value |-> Number(0)])
    BY <1>3 DEF Leaf
  <2> QED BY <1>3, <2>1 DEF Dict, Scored
<1> QED BY <1>1, <1>2, <1>3

LEMMA LeafWalk ==
    ASSUME NEW d, NEW p
    PROVE  /\ WalkLeaf(Leaf(d, p)) = Score(d, p)
           /\ WalkRow(Leaf(d, p)) = Score(d, p)
           /\ WalkField(Leaf(d, p)) = Score(d, p)
           /\ Walk(Leaf(d, p)) = Score(d, p)
<1> DEFINE n == Leaf(d, p)
<1>1. CASE p \in Valued(d)
  <2>1. Scored(n) /\ n.at["confidence"] = Number(p)
    BY <1>1, LeafForm
  <2> HIDE DEF n
  <2>2. /\ WalkLeaf(n) = Number(p) /\ WalkRow(n) = Number(p)
        /\ WalkField(n) = Number(p) /\ Walk(n) = Number(p)
    BY <2>1 DEF WalkLeaf, WalkRow, WalkField, Walk, WalkNode
  <2> QED BY <1>1, <2>2 DEF Score, n
<1>2. CASE p \notin Valued(d)
  <2>1. /\ n.t = "dict" /\ ~ Scored(n)
        /\ \A k \in DOMAIN n.at : \E v \in {p, 0} : n.at[k] = Number(v)
    BY <1>2, LeafForm
  <2> HIDE DEF n
  <2>2. \A k \in DOMAIN n.at : /\ ~ Present(WalkLeaf(n.at[k]))
                             /\ ~ Present(WalkRow(n.at[k]))
                             /\ ~ Present(WalkField(n.at[k]))
    BY <2>1, OfANumber
  <2>3. WalkLeaf(n) = Nothing
    BY <2>1 DEF WalkLeaf, WalkNode, Present
  <2>4. WalkRow(n) = Nothing
    BY <2>1, <2>2 DEF WalkRow, WalkNode
  <2>5. WalkField(n) = Nothing
    BY <2>1, <2>2 DEF WalkField, WalkNode
  <2>6. Walk(n) = Nothing
    BY <2>1, <2>2 DEF Walk, WalkNode
  <2> QED BY <1>2, <2>3, <2>4, <2>5, <2>6 DEF Score, n
<1> QED BY <1>1, <1>2

(* An object, or a row of a table, whose leaves have the paths q. *)
Row(d, q) == Dict([c \in Columns |-> Leaf(d, q[c])])

ScoredOf(d, q) == {c \in Columns : q[c] \in Valued(d)}

RowScores(d, q) ==
    IF ScoredOf(d, q) = {} THEN Nothing
    ELSE Dict([c \in ScoredOf(d, q) |-> Number(q[c])])

LEMMA NumberIsThere == \A v : Present(Number(v))
BY DEF Present, Number, Nothing

LEMMA DictIsThere == \A v : Present(Dict(v)) /\ Dict(v).t = "dict" /\ Dict(v).at = v
BY DEF Present, Dict, Nothing

LEMMA ListIsThere == \A v : Present(List(v)) /\ List(v).t = "list" /\ List(v).at = v
BY DEF Present, List, Nothing

LEMMA NothingIsNot == ~ Present(Nothing)
BY DEF Present

LEMMA NotAScore ==
    ASSUME NEW at, DOMAIN at \subseteq Fields \cup Columns
    PROVE  ~ Scored(Dict(at))
BY ParseConstants, DictIsThere DEF Scored

LEMMA RowWalk ==
    ASSUME NEW d, NEW q
    PROVE  /\ WalkRow(Row(d, q)) = RowScores(d, q)
           /\ WalkField(Row(d, q)) = RowScores(d, q)
           /\ Walk(Row(d, q)) = RowScores(d, q)
<1> DEFINE at == [c \in Columns |-> Leaf(d, q[c])]
           n == Row(d, q)
<1>1. n.t = "dict" /\ n.at = at /\ ~ Scored(n)
  <2>1. DOMAIN at \subseteq Fields \cup Columns
    OBVIOUS
  <2> HIDE DEF at
  <2> QED BY <2>1, NotAScore, DictIsThere DEF Row, at
<1>2. /\ \A c \in Columns : WalkLeaf(n.at[c]) = Score(d, q[c])
      /\ \A c \in Columns : WalkRow(n.at[c]) = Score(d, q[c])
      /\ \A c \in Columns : WalkField(n.at[c]) = Score(d, q[c])
      /\ DOMAIN n.at = Columns
  BY <1>1, LeafWalk
<1> HIDE DEF n, at
<1>3. \A c \in Columns : Present(Score(d, q[c])) <=> c \in ScoredOf(d, q)
  BY NumberIsThere, NothingIsNot DEF Score, ScoredOf
<1>4. {c \in DOMAIN n.at : Present(WalkLeaf(n.at[c]))} = ScoredOf(d, q)
  BY <1>2, <1>3 DEF ScoredOf
<1>5. /\ {c \in DOMAIN n.at : Present(WalkRow(n.at[c]))} = ScoredOf(d, q)
      /\ {c \in DOMAIN n.at : Present(WalkField(n.at[c]))} = ScoredOf(d, q)
  BY <1>2, <1>3 DEF ScoredOf
<1>6. /\ [c \in ScoredOf(d, q) |-> WalkLeaf(n.at[c])] = [c \in ScoredOf(d, q) |-> Number(q[c])]
      /\ [c \in ScoredOf(d, q) |-> WalkRow(n.at[c])] = [c \in ScoredOf(d, q) |-> Number(q[c])]
      /\ [c \in ScoredOf(d, q) |-> WalkField(n.at[c])] = [c \in ScoredOf(d, q) |-> Number(q[c])]
  BY <1>2 DEF Score, ScoredOf
<1>7. WalkRow(n) = RowScores(d, q)
  BY <1>1, <1>4, <1>6 DEF WalkRow, WalkNode, RowScores
<1>8. WalkField(n) = RowScores(d, q)
  BY <1>1, <1>5, <1>6 DEF WalkField, WalkNode, RowScores
<1>9. Walk(n) = RowScores(d, q)
  BY <1>1, <1>5, <1>6 DEF Walk, WalkNode, RowScores
<1> QED BY <1>7, <1>8, <1>9 DEF n

(* A table whose row i has the leaves of the paths q[i]. *)
Table(d, q) == List([i \in DOMAIN q |-> Row(d, q[i])])

TableScores(d, q) ==
    LET kept == Kept([i \in DOMAIN q |-> RowScores(d, q[i])])
    IN  IF kept = <<>> THEN Nothing ELSE List(kept)

LEMMA TableWalk ==
    ASSUME NEW d, NEW q
    PROVE  /\ WalkField(Table(d, q)) = TableScores(d, q)
           /\ Walk(Table(d, q)) = TableScores(d, q)
<1> DEFINE n == Table(d, q)
<1>1. n.t = "list" /\ n.at = [i \in DOMAIN q |-> Row(d, q[i])] /\ ~ Scored(n)
  BY ListIsThere DEF Table, Scored
<1>2. /\ DOMAIN n.at = DOMAIN q
      /\ \A i \in DOMAIN q : WalkRow(n.at[i]) = RowScores(d, q[i])
      /\ \A i \in DOMAIN q : WalkField(n.at[i]) = RowScores(d, q[i])
  BY <1>1, RowWalk
<1> HIDE DEF n
<1>3. /\ [i \in DOMAIN n.at |-> WalkRow(n.at[i])] = [i \in DOMAIN q |-> RowScores(d, q[i])]
      /\ [i \in DOMAIN n.at |-> WalkField(n.at[i])] = [i \in DOMAIN q |-> RowScores(d, q[i])]
  BY <1>2
<1>4. WalkField(n) = TableScores(d, q)
  BY <1>1, <1>3 DEF WalkField, WalkNode, TableScores
<1>5. Walk(n) = TableScores(d, q)
  BY <1>1, <1>3 DEF Walk, WalkNode, TableScores
<1> QED BY <1>4, <1>5 DEF n

(* The paths below a field, and what is stored of its scores. *)
Cells(f) == [c \in Columns |-> <<f, c>>]

CellsOfRow(f, i) == [c \in Columns |-> <<f, i, c>>]

CellsOfTable(f, rows) == [i \in 1 .. rows |-> CellsOfRow(f, i)]

Conf(d, f) ==
    CASE d.shapes[f].kind = "scalar" -> Score(d, <<f>>)
      [] d.shapes[f].kind = "object" -> RowScores(d, Cells(f))
      [] d.shapes[f].kind = "table"  -> TableScores(d, CellsOfTable(f, d.shapes[f].rows))

LEMMA ShapeIs ==
    ASSUME NEW d \in Documents, NEW f \in Fields
    PROVE  \/ d.shapes[f].kind = "scalar" /\ d.shapes[f].rows = 0
           \/ d.shapes[f].kind = "object" /\ d.shapes[f].rows = 0
           \/ d.shapes[f].kind = "table" /\ d.shapes[f].rows \in 1 .. MaxRows
BY DocumentType DEF Shapes

LEMMA FieldWalk ==
    ASSUME NEW d \in Documents, NEW f \in Fields
    PROVE  /\ WalkField(ExplainField(d, f)) = Conf(d, f)
           /\ Walk(ExplainField(d, f)) = Conf(d, f)
<1>1. CASE d.shapes[f].kind = "scalar"
  <2>1. ExplainField(d, f) = Leaf(d, <<f>>)
    BY <1>1 DEF ExplainField
  <2> QED BY <1>1, <2>1, LeafWalk DEF Conf
<1>2. CASE d.shapes[f].kind = "object"
  <2>1. ExplainField(d, f) = Row(d, Cells(f))
    BY <1>2 DEF ExplainField, Row, Cells
  <2> QED BY <1>2, <2>1, RowWalk DEF Conf
<1>3. CASE d.shapes[f].kind = "table"
  <2> DEFINE rows == d.shapes[f].rows
  <2>1. ExplainField(d, f) = List([i \in 1 .. rows |-> Dict([c \in Columns |-> Leaf(d, <<f, i, c>>)])])
    BY <1>3 DEF ExplainField
  <2>2. \A i \in 1 .. rows :
           Row(d, CellsOfTable(f, rows)[i]) = Dict([c \in Columns |-> Leaf(d, <<f, i, c>>)])
    BY DEF Row, CellsOfTable, CellsOfRow
  <2>3. ExplainField(d, f) = Table(d, CellsOfTable(f, rows))
    BY <2>1, <2>2 DEF Table, CellsOfTable
  <2> QED BY <1>3, <2>3, TableWalk DEF Conf
<1> QED BY <1>1, <1>2, <1>3, ShapeIs

Confs(d, F) == [f \in {g \in F : Present(Conf(d, g))} |-> Conf(d, f)]

LEMMA EntryWalk ==
    ASSUME NEW d \in Documents, NEW F \in SUBSET Fields
    PROVE  EntriesOf(Walk(ExplainOf(d, F))) = Confs(d, F)
<1> DEFINE at == [f \in F |-> ExplainField(d, f)]
           n == ExplainOf(d, F)
           kept == {f \in F : Present(Conf(d, f))}
<1>1. n.t = "dict" /\ n.at = at /\ ~ Scored(n)
  <2>1. DOMAIN at \subseteq Fields \cup Columns
    OBVIOUS
  <2> HIDE DEF at
  <2> QED BY <2>1, NotAScore, DictIsThere DEF ExplainOf, at
<1>2. DOMAIN n.at = F /\ \A f \in F : WalkField(n.at[f]) = Conf(d, f)
  BY <1>1, FieldWalk
<1> HIDE DEF n, at
<1>3. {f \in DOMAIN n.at : Present(WalkField(n.at[f]))} = kept
  BY <1>2
<1>4. [f \in kept |-> WalkField(n.at[f])] = Confs(d, F)
  BY <1>2 DEF Confs
<1>5. Walk(n) = IF kept = {} THEN Nothing ELSE Dict(Confs(d, F))
  <2> HIDE DEF kept
  <2> QED BY <1>1, <1>3, <1>4 DEF Walk, WalkNode
<1>6. EntriesOf(Walk(n)) = Confs(d, F)
  <2>1. CASE kept = {}
    <3>1. Walk(n) = Nothing
      BY <1>5, <2>1
    <3>2. Confs(d, F) = NoEntries
      BY <2>1 DEF Confs, NoEntries
    <3> QED BY <3>1, <3>2 DEF EntriesOf, Nothing
  <2>2. CASE kept # {}
    BY <1>5, <2>2, DictIsThere DEF EntriesOf
  <2> QED BY <2>1, <2>2
<1> QED BY <1>6 DEF n

(* The code's recursion knows no depth, and needs none: on any entry of    *)
(* explainability_info, one more level of _walk_confidences finds nothing  *)
(* more, so that Walk is what the recursion of the code comes to.          *)
THEOREM WalkIsDeepEnough ==
    ASSUME NEW d \in Documents, NEW F \in SUBSET Fields
    PROVE  LET n == ExplainOf(d, F)
           IN  Walk(n) = WalkNode(n, [f \in DOMAIN n.at |-> Walk(n.at[f])])
<1> DEFINE n == ExplainOf(d, F)
<1>1. n.t = "dict" /\ n.at = [f \in F |-> ExplainField(d, f)]
  BY DictIsThere DEF ExplainOf
<1>2. /\ DOMAIN n.at = F
      /\ \A f \in F : Walk(n.at[f]) = Conf(d, f) /\ WalkField(n.at[f]) = Conf(d, f)
  BY <1>1, FieldWalk
<1> HIDE DEF n
<1>3. [f \in DOMAIN n.at |-> Walk(n.at[f])] = [f \in DOMAIN n.at |-> WalkField(n.at[f])]
  BY <1>2
<1>4. Walk(n) = WalkNode(n, [f \in DOMAIN n.at |-> Walk(n.at[f])])
  BY <1>3 DEF Walk
<1> QED BY <1>4 DEF n

(* Entries merged one after another. *)
LEMMA Merging ==
    ASSUME NEW d, NEW F, NEW G
    PROVE  Update(Confs(d, F), Confs(d, G)) = Confs(d, F \cup G)
BY DEF Update, Confs

MergeAll(seq) == FoldLeft(Update, NoEntries, seq)

EntriesAre(seq, d, n, F) == seq = [i \in 1 .. n |-> Confs(d, F[i])]

LEMMA Merged ==
    ASSUME NEW d, NEW n \in Nat, NEW F, NEW seq, EntriesAre(seq, d, n, F)
    PROVE  MergeAll(seq) = Confs(d, UNION {F[i] : i \in 1 .. n})
<1> DEFINE pick == [T \in SUBSET (1 .. n) |-> Max(T)]
           form == [T \in SUBSET (1 .. n) |-> Confs(d, UNION {F[i] : i \in T})]
           Folds(g) == g = [T \in SUBSET (1 .. n) |->
                              IF T = {} THEN NoEntries
                              ELSE Update(g[T \ {Max(T)}], seq[Max(T)])]
           fold == CHOOSE g : Folds(g)
<1>1. MergeAll(seq) = fold[1 .. n]
  <2>1. DOMAIN seq = 1 .. n
    BY DEF EntriesAre
  <2> QED BY <2>1 DEF MergeAll, FoldLeft, MapThenFoldSet
<1>2. \A T \in SUBSET (1 .. n) : T # {} => Max(T) \in T
  BY GreatestIsThere
<1>3. \A T \in SUBSET (1 .. n) : T # {} =>
         form[T] = Update(form[T \ {Max(T)}], seq[Max(T)])
  <2> SUFFICES ASSUME NEW T \in SUBSET (1 .. n), T # {}
               PROVE  form[T] = Update(form[T \ {Max(T)}], seq[Max(T)])
    OBVIOUS
  <2> DEFINE m == Max(T)
  <2>1. m \in T
    BY <1>2
  <2>2. /\ form[T] = Confs(d, UNION {F[i] : i \in T})
        /\ form[T \ {m}] = Confs(d, UNION {F[i] : i \in T \ {m}})
    OBVIOUS
  <2>3. seq[m] = Confs(d, F[m])
    BY <2>1 DEF EntriesAre
  <2> HIDE DEF m, form
  <2>4. UNION {F[i] : i \in T} = (UNION {F[i] : i \in T \ {m}}) \cup F[m]
    BY <2>1
  <2> QED BY <2>2, <2>3, <2>4, Merging DEF m
<1>4. form[{}] = NoEntries
  BY DEF Confs, NoEntries
<1>5. Folds(form)
  BY <1>3, <1>4
<1>6. Folds(fold)
  <2> HIDE DEF Folds, form
  <2> QED BY <1>5
<1>7. /\ fold[{}] = NoEntries
      /\ \A T \in SUBSET (1 .. n) : T # {} => fold[T] = Update(fold[T \ {Max(T)}], seq[Max(T)])
  <2> HIDE DEF fold
  <2> QED BY <1>6
<1>8. \A T \in SUBSET (1 .. n) : pick[T] = Max(T)
  OBVIOUS
<1> HIDE DEF fold, form, pick
<1>9. SameSteps(1 .. n, pick, fold, form)
  <2>1. IsFiniteSet(1 .. n)
    BY FS_Interval
  <2> QED BY <1>2, <1>3, <1>4, <1>7, <1>8, <2>1 DEF SameSteps
<1>10. fold[1 .. n] = form[1 .. n]
  BY <1>9, FoldIsUnique
<1> QED BY <1>1, <1>10 DEF form

(* SetToSeq lists every field: an injection of 1 .. n into n fields is     *)
(* onto them.                                                              *)
LEMMA AllInASeq ==
    LET one == SetToSeq(Fields) IN
    /\ DOMAIN one = 1 .. Cardinality(Fields) /\ Cardinality(Fields) \in Nat
    /\ \A i \in DOMAIN one : {one[i]} \in SUBSET Fields
    /\ UNION {{one[i]} : i \in DOMAIN one} = Fields
<1> DEFINE n == Cardinality(Fields)
           one == CHOOSE f \in [1 .. n -> Fields] : IsInjective(f)
<1>1. n \in Nat /\ ExistsBijection(1 .. n, Fields)
  BY FS_CardinalityType, ParseConstants
<1>2. \E f \in [1 .. n -> Fields] : IsInjective(f)
  <2>1. PICK f : f \in Bijection(1 .. n, Fields)
    BY <1>1 DEF ExistsBijection
  <2> HIDE DEF n
  <2> QED BY <2>1 DEF Bijection, Injection, Surjection, IsInjective
<1>3. one \in [1 .. n -> Fields] /\ IsInjective(one)
  <2> HIDE DEF n
  <2> QED BY <1>2
<1>4. SetToSeq(Fields) = one
  BY DEF SetToSeq
<1>5. IsFiniteSet(1 .. n) /\ Cardinality(1 .. n) = n
  <2> HIDE DEF n
  <2>1. IsFiniteSet(1 .. n) /\ Cardinality(1 .. n) = IF 1 > n THEN 0 ELSE n - 1 + 1
    BY <1>1, FS_Interval
  <2> QED BY <1>1, <2>1
<1> HIDE DEF one
<1>6. one \in Injection(1 .. n, Fields)
  <2> HIDE DEF n
  <2> QED BY <1>3 DEF Injection, IsInjective
<1>7. one \in Surjection(1 .. n, Fields)
  <2>1. Cardinality(1 .. n) = Cardinality(Fields)
    BY <1>5 DEF n
  <2> HIDE DEF n
  <2> QED BY <1>6, <2>1, FS_Injection, ParseConstants
<1>8. /\ DOMAIN one = 1 .. n /\ \A i \in 1 .. n : one[i] \in Fields
      /\ \A f \in Fields : \E i \in 1 .. n : one[i] = f
  <2> HIDE DEF n
  <2> QED BY <1>3, <1>7 DEF Surjection
<1>9. UNION {{one[i]} : i \in 1 .. n} = Fields
  <2> HIDE DEF n
  <2> QED BY <1>8
<1> QED BY <1>1, <1>4, <1>8, <1>9

(* What _flatten_confidences returns is the same for all three forms.      *)
LEMMA FlattenIs ==
    ASSUME NEW d \in Documents
    PROVE  Flatten(Explain(d)) = Confs(d, Fields)
<1> DEFINE one == SetToSeq(Fields)
           n == Cardinality(Fields)
<1>0. /\ DOMAIN one = 1 .. n /\ n \in Nat
      /\ \A i \in 1 .. n : {one[i]} \in SUBSET Fields
      /\ UNION {{one[i]} : i \in 1 .. n} = Fields
  BY AllInASeq
<1> HIDE DEF one, n
<1>1. CASE d.as = "dict"
  <2>1. Explain(d) = ExplainOf(d, Fields)
    BY <1>1 DEF Explain
  <2>2. Explain(d).t = "dict"
    BY <2>1 DEF ExplainOf, Dict
  <2> QED BY <2>1, <2>2, EntryWalk DEF Flatten
<1>2. CASE d.as = "list"
  <2> DEFINE F == [i \in 1 .. 1 |-> Fields]
             e == ExplainOf(d, Fields)
  <2>1. Explain(d) = List(<<e>>)
    BY <1>2 DEF Explain
  <2>2. Explain(d).t = "list" /\ Explain(d).at = <<e>>
    BY <2>1, ListIsThere
  <2>3. EntriesOf(Walk(e)) = Confs(d, Fields)
    BY EntryWalk
  <2> HIDE DEF e
  <2>4. [i \in DOMAIN <<e>> |-> EntriesOf(Walk(<<e>>[i]))] = [i \in 1 .. 1 |-> Confs(d, F[i])]
    BY <2>3
  <2>5. UNION {F[i] : i \in 1 .. 1} = Fields
    OBVIOUS
  <2> HIDE DEF F
  <2> DEFINE seq == [i \in 1 .. 1 |-> Confs(d, F[i])]
  <2>6. EntriesAre(seq, d, 1, F)
    BY DEF EntriesAre
  <2> HIDE DEF seq
  <2>7. MergeAll(seq) = Confs(d, Fields)
    BY <2>5, <2>6, Merged
  <2> QED BY <2>2, <2>4, <2>7 DEF Flatten, MergeAll, seq
<1>3. CASE d.as = "entries"
  <2> DEFINE F == [i \in 1 .. n |-> {one[i]}]
             entries == [i \in 1 .. n |-> ExplainOf(d, {one[i]})]
  <2>1. Explain(d) = List(entries)
    BY <1>0, <1>3 DEF Explain, one
  <2>2. Explain(d).t = "list" /\ Explain(d).at = entries
    BY <2>1, ListIsThere
  <2>3. \A i \in 1 .. n : EntriesOf(Walk(entries[i])) = Confs(d, F[i])
    BY <1>0, EntryWalk
  <2>4. [i \in DOMAIN entries |-> EntriesOf(Walk(entries[i]))] = [i \in 1 .. n |-> Confs(d, F[i])]
    <3>1. DOMAIN entries = 1 .. n
      OBVIOUS
    <3> HIDE DEF entries, F
    <3> QED BY <2>3, <3>1
  <2>5. UNION {F[i] : i \in 1 .. n} = Fields
    BY <1>0
  <2> HIDE DEF F, entries
  <2> DEFINE seq == [i \in 1 .. n |-> Confs(d, F[i])]
  <2>6. EntriesAre(seq, d, n, F)
    BY DEF EntriesAre
  <2> HIDE DEF seq
  <2>7. MergeAll(seq) = Confs(d, Fields)
    BY <1>0, <2>5, <2>6, Merged
  <2> QED BY <2>2, <2>4, <2>7 DEF Flatten, MergeAll, seq
<1> QED BY <1>1, <1>2, <1>3, DocumentType

(* The scores in what is stored of a field. *)
LEMMA NumbersOfNothing ==
    /\ NumbersOfLeaf(Nothing) = {} /\ NumbersOfRow(Nothing) = {} /\ NumbersOfField(Nothing) = {}
BY DEF NumbersOfLeaf, NumbersOfRow, NumbersOfField, NumbersIn, Nothing

LEMMA NumbersOfNumber ==
    ASSUME NEW p
    PROVE  /\ NumbersOfLeaf(Number(p)) = {p}
           /\ NumbersOfRow(Number(p)) = {p}
           /\ NumbersOfField(Number(p)) = {p}
BY DEF NumbersOfLeaf, NumbersOfRow, NumbersOfField, NumbersIn, Number

LEMMA NumbersOfRowScores ==
    ASSUME NEW d, NEW q
    PROVE  /\ NumbersOfRow(RowScores(d, q)) = Valued(d) \cap {q[c] : c \in Columns}
           /\ NumbersOfField(RowScores(d, q)) = Valued(d) \cap {q[c] : c \in Columns}
<1>1. Valued(d) \cap {q[c] : c \in Columns} = UNION {{q[c]} : c \in ScoredOf(d, q)}
  BY DEF ScoredOf
<1>2. CASE ScoredOf(d, q) = {}
  BY <1>1, <1>2, NumbersOfNothing DEF RowScores
<1>3. CASE ScoredOf(d, q) # {}
  <2> DEFINE n == RowScores(d, q)
  <2>1. n.t = "dict" /\ n.at = [c \in ScoredOf(d, q) |-> Number(q[c])]
    BY <1>3, DictIsThere DEF RowScores
  <2>2. /\ DOMAIN n.at = ScoredOf(d, q)
        /\ \A c \in ScoredOf(d, q) : NumbersOfLeaf(n.at[c]) = {q[c]}
        /\ \A c \in ScoredOf(d, q) : NumbersOfRow(n.at[c]) = {q[c]}
    BY <2>1, NumbersOfNumber
  <2> HIDE DEF n
  <2>3. NumbersOfRow(n) = UNION {{q[c]} : c \in ScoredOf(d, q)}
    BY <2>1, <2>2 DEF NumbersOfRow, NumbersIn
  <2>4. NumbersOfField(n) = UNION {{q[c]} : c \in ScoredOf(d, q)}
    BY <2>1, <2>2 DEF NumbersOfField, NumbersIn
  <2> QED BY <1>1, <2>3, <2>4 DEF n
<1> QED BY <1>2, <1>3

LEMMA NumbersOfTableScores ==
    ASSUME NEW d, NEW n \in Nat, NEW q, DOMAIN q = 1 .. n
    PROVE  NumbersOfField(TableScores(d, q))
              = UNION {Valued(d) \cap {q[i][c] : c \in Columns} : i \in 1 .. n}
<1> DEFINE s == [i \in 1 .. n |-> RowScores(d, q[i])]
           kept == Kept(s)
           all == UNION {Valued(d) \cap {q[i][c] : c \in Columns} : i \in 1 .. n}
<1>1. IsList(s, n)
  BY DEF IsList
<1>2. DOMAIN kept = 1 .. Len(kept) /\ ValuesOf(kept) = There(s, n)
  <2> HIDE DEF s
  <2> QED BY <1>1, KeptIs
<1>3. \A i \in 1 .. n : NumbersOfRow(s[i]) = Valued(d) \cap {q[i][c] : c \in Columns}
  BY NumbersOfRowScores
<1>4. TableScores(d, q) = IF kept = <<>> THEN Nothing ELSE List(kept)
  BY DEF TableScores
<1> HIDE DEF kept
<1>5. \A i \in 1 .. n : ~ Present(s[i]) => NumbersOfRow(s[i]) = {}
  BY NumbersOfNothing DEF Present
<1>6. UNION {NumbersOfRow(s[i]) : i \in 1 .. n} = all
  BY <1>3
<1> HIDE DEF s, all
<1>7. UNION {NumbersOfRow(kept[k]) : k \in DOMAIN kept} = all
  <2>1. UNION {NumbersOfRow(kept[k]) : k \in DOMAIN kept} = UNION {NumbersOfRow(v) : v \in ValuesOf(kept)}
    BY <1>2 DEF ValuesOf
  <2>2. UNION {NumbersOfRow(v) : v \in There(s, n)} = UNION {NumbersOfRow(s[i]) : i \in 1 .. n}
    BY <1>5 DEF There
  <2> QED BY <1>2, <1>6, <2>1, <2>2
<1>8. CASE kept = <<>>
  <2>1. all = {}
    BY <1>7, <1>8
  <2> QED BY <1>4, <1>8, <2>1, NumbersOfNothing DEF all
<1>9. CASE kept # <<>>
  <2>1. NumbersOfField(List(kept)) = UNION {NumbersOfRow(kept[k]) : k \in DOMAIN kept}
    BY ListIsThere DEF NumbersOfField, NumbersIn
  <2> QED BY <1>4, <1>7, <1>9, <2>1 DEF all
<1> QED BY <1>8, <1>9

LEMMA NumbersOfConf ==
    ASSUME NEW d \in Documents, NEW f \in Fields
    PROVE  NumbersOfField(Conf(d, f)) = Valued(d) \cap LeavesOf(f, d.shapes[f])
<1>1. CASE d.shapes[f].kind = "scalar"
  <2>1. LeavesOf(f, d.shapes[f]) = {<<f>>}
    BY <1>1 DEF LeavesOf
  <2>2. Conf(d, f) = Score(d, <<f>>)
    BY <1>1 DEF Conf
  <2> QED BY <2>1, <2>2, NumbersOfNumber, NumbersOfNothing DEF Score
<1>2. CASE d.shapes[f].kind = "object"
  <2>1. LeavesOf(f, d.shapes[f]) = {Cells(f)[c] : c \in Columns}
    BY <1>2 DEF LeavesOf, Cells
  <2>2. Conf(d, f) = RowScores(d, Cells(f))
    BY <1>2 DEF Conf
  <2> QED BY <2>1, <2>2, NumbersOfRowScores
<1>3. CASE d.shapes[f].kind = "table"
  <2> DEFINE n == d.shapes[f].rows
             q == CellsOfTable(f, n)
  <2>1. n \in Nat
    BY <1>3, ShapeIs, ParseConstants
  <2>2. LeavesOf(f, d.shapes[f]) = UNION {{q[i][c] : c \in Columns} : i \in 1 .. n}
    <3>1. LeavesOf(f, d.shapes[f]) = {<<f, i, c>> : i \in 1 .. n, c \in Columns}
      BY <1>3 DEF LeavesOf
    <3>2. \A i \in 1 .. n : \A c \in Columns : q[i][c] = <<f, i, c>>
      BY DEF CellsOfTable, CellsOfRow
    <3> HIDE DEF n, q
    <3>3. {<<f, i, c>> : i \in 1 .. n, c \in Columns} = UNION {{q[i][c] : c \in Columns} : i \in 1 .. n}
      BY <3>2
    <3> QED BY <3>1, <3>3
  <2>3. Conf(d, f) = TableScores(d, q)
    BY <1>3 DEF Conf
  <2>4. DOMAIN q = 1 .. n
    BY DEF CellsOfTable
  <2> HIDE DEF n, q
  <2>5. NumbersOfField(TableScores(d, q))
           = UNION {Valued(d) \cap {q[i][c] : c \in Columns} : i \in 1 .. n}
    BY <2>1, <2>4, NumbersOfTableScores
  <2> QED BY <2>2, <2>3, <2>5
<1> QED BY <1>1, <1>2, <1>3, ShapeIs

LEMMA NumbersOfConfs ==
    ASSUME NEW d \in Documents
    PROVE  Numbers(Dict(Confs(d, Fields))) = Valued(d)
<1> DEFINE n == Dict(Confs(d, Fields))
           there == {f \in Fields : Present(Conf(d, f))}
<1>1. n.t = "dict" /\ DOMAIN n.at = there /\ \A f \in there : n.at[f] = Conf(d, f)
  BY DictIsThere DEF Confs
<1> HIDE DEF n
<1>2. Numbers(n) = UNION {NumbersOfField(Conf(d, f)) : f \in there}
  BY <1>1 DEF Numbers, NumbersIn
<1>3. \A f \in Fields : ~ Present(Conf(d, f)) => NumbersOfField(Conf(d, f)) = {}
  BY NumbersOfNothing DEF Present
<1>4. Numbers(n) = UNION {NumbersOfField(Conf(d, f)) : f \in Fields}
  BY <1>2, <1>3
<1>5. UNION {NumbersOfField(Conf(d, f)) : f \in Fields} = Valued(d) \cap Leaves(d.shapes)
  BY NumbersOfConf DEF Leaves
<1> QED BY <1>4, <1>5, DocumentType DEF n

(* Of the scores the service gave, in dicts or lists and at any depth, the *)
(* ones that _flatten_confidences stores are those that came with a value, *)
(* all of them and no others, for any fields, columns and rows and         *)
(* whichever leaves have a score without a value or none.                  *)
THEOREM ValuedScoresStay == ParseSpec => []ValuedScoresKept
<1>1. doc \in Documents => ValuedScoresKept
  BY FlattenIs, NumbersOfConfs DEF ValuedScoresKept, StoredScores
<1> QED BY <1>1, DocumentStays, PTL

-----------------------------------------------------------------------------
(* The chips of the page. *)
ChipsOf(P) == {[at |-> path, shows |-> path] : path \in P}

LEMMA ChipOfScore ==
    ASSUME NEW d, NEW p
    PROVE  ChipAt(p, Score(d, p)) = ChipsOf(Valued(d) \cap {p})
BY DEF ChipAt, Score, ChipsOf, Number, Nothing

LEMMA EntryOfRow ==
    ASSUME NEW d, NEW q, NEW c \in Columns
    PROVE  /\ Entry(RowScores(d, q), c) = Score(d, q[c])
           /\ (IF RowScores(d, q).t = "dict" THEN Entry(RowScores(d, q), c) ELSE Nothing)
                 = Score(d, q[c])
<1>1. CASE ScoredOf(d, q) = {}
  <2>1. RowScores(d, q) = Nothing /\ q[c] \notin Valued(d)
    BY <1>1 DEF RowScores, ScoredOf
  <2>2. Nothing.t \notin {"dict", "list"}
    BY DEF Nothing
  <2> QED BY <2>1, <2>2 DEF Entry, Score
<1>2. CASE ScoredOf(d, q) # {}
  <2>1. RowScores(d, q) = Dict([k \in ScoredOf(d, q) |-> Number(q[k])])
    BY <1>2 DEF RowScores
  <2>2. /\ RowScores(d, q).t = "dict"
        /\ RowScores(d, q).at = [k \in ScoredOf(d, q) |-> Number(q[k])]
    BY <2>1, DictIsThere
  <2> QED BY <2>2 DEF Entry, Score, ScoredOf
<1> QED BY <1>1, <1>2

CellChip(d, f, i, c) == ChipAt(<<f, i, c>>, Score(d, <<f, i, c>>))

LEMMA ChipsOfTable ==
    ASSUME NEW d, NEW f, NEW n \in Nat \ {0},
           \A i \in 1 .. n : \E c \in Columns : <<f, i, c>> \in Valued(d)
    PROVE  \A x : x \in RenderListTable(f, n, TableScores(d, CellsOfTable(f, n)))
                    <=> \E i \in 1 .. n : \E c \in Columns : x \in CellChip(d, f, i, c)
<1> DEFINE q == CellsOfTable(f, n)
           s == [i \in 1 .. n |-> RowScores(d, q[i])]
<1>1. DOMAIN q = 1 .. n /\ \A i \in 1 .. n, c \in Columns : q[i][c] = <<f, i, c>>
  BY DEF CellsOfTable, CellsOfRow
<1>2. \A i \in 1 .. n : ScoredOf(d, q[i]) # {}
  <2> HIDE DEF q
  <2> QED BY <1>1 DEF ScoredOf
<1> HIDE DEF q
<1>3. \A i \in 1 .. n : Present(s[i])
  BY <1>2, DictIsThere DEF RowScores
<1>4. IsList(s, n)
  BY DEF IsList
<1>5. s # <<>>
  <2>1. 1 \in DOMAIN s
    OBVIOUS
  <2> HIDE DEF s
  <2> QED BY <2>1
<1>6. TableScores(d, q) = List(s)
  <2>1. [i \in DOMAIN q |-> RowScores(d, q[i])] = s
    BY <1>1
  <2> HIDE DEF s
  <2>2. Kept(s) = s
    BY <1>3, <1>4, KeptIs
  <2> QED BY <1>5, <2>1, <2>2 DEF TableScores
<1>7. \A i \in 1 .. n : Entry(List(s), i) = RowScores(d, q[i])
  <2>1. DOMAIN s = 1 .. n /\ \A i \in 1 .. n : s[i] = RowScores(d, q[i])
    OBVIOUS
  <2> HIDE DEF s
  <2> QED BY <2>1, ListIsThere DEF Entry
<1>8. List(s).t = "list"
  BY ListIsThere
<1> HIDE DEF s
<1>9. \A i \in 1 .. n, c \in Columns :
         (IF List(s).t = "list" THEN Entry(Entry(List(s), i), c) ELSE Nothing) = Score(d, <<f, i, c>>)
  BY <1>1, <1>7, <1>8, EntryOfRow
<1> DEFINE Shown(i, c) ==
             ChipAt(<<f, i, c>>, IF List(s).t = "list" THEN Entry(Entry(List(s), i), c) ELSE Nothing)
<1>10. \A i \in 1 .. n : \A c \in Columns : Shown(i, c) = CellChip(d, f, i, c)
  <2> TAKE i \in 1 .. n
  <2> TAKE c \in Columns
  <2>1. (IF List(s).t = "list" THEN Entry(Entry(List(s), i), c) ELSE Nothing) = Score(d, <<f, i, c>>)
    BY <1>9
  <2> QED BY <2>1, Zenon DEF CellChip
<1>11. RenderListTable(f, n, List(s)) = UNION {Shown(i, c) : i \in 1 .. n, c \in Columns}
  BY SMT DEF RenderListTable
<1> HIDE DEF Shown
<1>12. \A x : x \in UNION {Shown(i, c) : i \in 1 .. n, c \in Columns}
                 <=> \E i \in 1 .. n : \E c \in Columns : x \in Shown(i, c)
  OBVIOUS
<1>13. \A x : x \in RenderListTable(f, n, List(s))
                 <=> \E i \in 1 .. n : \E c \in Columns : x \in CellChip(d, f, i, c)
  BY <1>10, <1>11, <1>12
<1> QED BY <1>6, <1>13 DEF q

(* The chips of one field. *)
ChipsOfField(d, f) ==
    LET conf == Entry(Dict(Confs(d, Fields)), f) IN
    CASE d.shapes[f].kind = "scalar" -> ChipAt(<<f>>, conf)
      [] d.shapes[f].kind = "object" -> RenderObject(f, conf)
      [] d.shapes[f].kind = "table"  -> RenderListTable(f, d.shapes[f].rows, conf)

LEMMA ChipsOfItsScores ==
    ASSUME NEW d \in Documents, NEW f \in Fields,
           \A i \in 1 .. d.shapes[f].rows : \E c \in Columns : <<f, i, c>> \in Valued(d)
    PROVE  ChipsOfField(d, f) = ChipsOf(Valued(d) \cap LeavesOf(f, d.shapes[f]))
<1>1. Entry(Dict(Confs(d, Fields)), f) = Conf(d, f)
  BY DictIsThere DEF Entry, Confs, Present
<1>2. CASE d.shapes[f].kind = "scalar"
  <2>1. LeavesOf(f, d.shapes[f]) = {<<f>>}
    BY <1>2 DEF LeavesOf
  <2>2. ChipsOfField(d, f) = ChipAt(<<f>>, Score(d, <<f>>))
    BY <1>1, <1>2 DEF ChipsOfField, Conf
  <2> QED BY <2>1, <2>2, ChipOfScore
<1>3. CASE d.shapes[f].kind = "object"
  <2>1. LeavesOf(f, d.shapes[f]) = {<<f, c>> : c \in Columns}
    BY <1>3 DEF LeavesOf
  <2>2. ChipsOfField(d, f) = RenderObject(f, RowScores(d, Cells(f)))
    BY <1>1, <1>3 DEF ChipsOfField, Conf
  <2>3. \A c \in Columns :
           (IF RowScores(d, Cells(f)).t = "dict" THEN Entry(RowScores(d, Cells(f)), c) ELSE Nothing)
              = Score(d, <<f, c>>)
    BY EntryOfRow DEF Cells
  <2>4. ChipsOfField(d, f) = UNION {ChipAt(<<f, c>>, Score(d, <<f, c>>)) : c \in Columns}
    BY <2>2, <2>3 DEF RenderObject
  <2>5. ChipsOfField(d, f) = UNION {ChipsOf(Valued(d) \cap {<<f, c>>}) : c \in Columns}
    BY <2>4, ChipOfScore
  <2> QED BY <2>1, <2>5 DEF ChipsOf
<1>4. CASE d.shapes[f].kind = "table"
  <2> DEFINE n == d.shapes[f].rows
  <2>1. \A p : p \in LeavesOf(f, d.shapes[f]) <=> \E i \in 1 .. n : \E c \in Columns : p = <<f, i, c>>
    BY <1>4 DEF LeavesOf
  <2>2. n \in Nat \ {0}
    BY <1>4, ShapeIs, ParseConstants
  <2>3. ChipsOfField(d, f) = RenderListTable(f, n, TableScores(d, CellsOfTable(f, n)))
    BY <1>1, <1>4 DEF ChipsOfField, Conf
  <2>4. \A i \in 1 .. n : \E c \in Columns : <<f, i, c>> \in Valued(d)
    BY DEF n
  <2> HIDE DEF n
  <2>5. \A x : x \in ChipsOfField(d, f)
                 <=> \E i \in 1 .. n : \E c \in Columns : x \in CellChip(d, f, i, c)
    <3>1. \A x : x \in RenderListTable(f, n, TableScores(d, CellsOfTable(f, n)))
                    <=> \E i \in 1 .. n : \E c \in Columns : x \in CellChip(d, f, i, c)
      BY <2>2, <2>4, ChipsOfTable
    <3> QED BY <2>3, <3>1
  <2>6. \A i, c, x : x \in CellChip(d, f, i, c)
                       <=> <<f, i, c>> \in Valued(d) /\ x = [at |-> <<f, i, c>>, shows |-> <<f, i, c>>]
    <3> TAKE i, c, x
    <3>1. CellChip(d, f, i, c) = ChipsOf(Valued(d) \cap {<<f, i, c>>})
      BY ChipOfScore, Zenon DEF CellChip
    <3> QED BY <3>1 DEF ChipsOf
  <2>7. \A x : x \in ChipsOfField(d, f)
                 <=> \E p \in Valued(d) \cap LeavesOf(f, d.shapes[f]) : x = [at |-> p, shows |-> p]
    <3> TAKE x
    <3>1. ASSUME x \in ChipsOfField(d, f)
          PROVE  \E p \in Valued(d) \cap LeavesOf(f, d.shapes[f]) : x = [at |-> p, shows |-> p]
      <4>1. PICK i \in 1 .. n : \E c \in Columns : x \in CellChip(d, f, i, c)
        BY <2>5, <3>1
      <4>2. PICK c \in Columns : x \in CellChip(d, f, i, c)
        BY <4>1
      <4>3. <<f, i, c>> \in LeavesOf(f, d.shapes[f])
        BY <2>1
      <4> QED BY <2>6, <4>2, <4>3
    <3>2. ASSUME NEW p \in Valued(d) \cap LeavesOf(f, d.shapes[f]), x = [at |-> p, shows |-> p]
          PROVE  x \in ChipsOfField(d, f)
      <4>1. PICK i \in 1 .. n : \E c \in Columns : p = <<f, i, c>>
        BY <2>1
      <4>2. PICK c \in Columns : p = <<f, i, c>>
        BY <4>1
      <4>3. x \in CellChip(d, f, i, c)
        BY <2>6, <3>2, <4>2
      <4> QED BY <2>5, <4>3
    <3> QED BY <3>1, <3>2
  <2> QED BY <2>7 DEF ChipsOf
<1> QED BY <1>2, <1>3, <1>4, ShapeIs

(* For any fields, columns and rows: where every row of every table has a  *)
(* score, no row is left out of the stored lists, and the detail page puts *)
(* a chip next to each leaf scored with a value, with its own score.       *)
THEOREM ChipsAreComplete == ParseSpec => []ChipsComplete
<1>1. doc \in Documents => ChipsComplete
  <2> SUFFICES ASSUME doc \in Documents, EveryRowScored
               PROVE  Chips(doc) = ChipsOf(Valued(doc))
    BY DEF ChipsComplete, ChipsOf
  <2>1. Chips(doc) = UNION {ChipsOfField(doc, f) : f \in Fields}
    BY FlattenIs DEF Chips, RenderFields, ChipsOfField
  <2>2. \A f \in Fields : \A i \in 1 .. doc.shapes[f].rows :
           \E c \in Columns : <<f, i, c>> \in Valued(doc)
    BY DEF EveryRowScored, RowScored
  <2>3. \A f \in Fields :
           ChipsOfField(doc, f) = ChipsOf(Valued(doc) \cap LeavesOf(f, doc.shapes[f]))
    BY <2>2, ChipsOfItsScores
  <2>4. Valued(doc) = Valued(doc) \cap UNION {LeavesOf(f, doc.shapes[f]) : f \in Fields}
    BY DocumentType DEF Leaves
  <2>5. UNION {ChipsOf(Valued(doc) \cap LeavesOf(f, doc.shapes[f])) : f \in Fields}
           = ChipsOf(Valued(doc) \cap UNION {LeavesOf(f, doc.shapes[f]) : f \in Fields})
    BY DEF ChipsOf
  <2> QED BY <2>1, <2>3, <2>4, <2>5
<1> QED BY <1>1, DocumentStays, PTL
=============================================================================
