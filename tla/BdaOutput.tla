----------------------------- MODULE BdaOutput -----------------------------
(***************************************************************************)
(* How the result of an invocation is found, read and priced.  The service *)
(* reports the URI of job_metadata.json or of a prefix; the custom output  *)
(* (the fields) and the standard output (the pages) are named by the       *)
(* metadata, or guessed from the keys under the prefix when there is none. *)
(* The price follows from the pages and the number of fields.              *)
(*                                                                         *)
(* A key is its kind: "custom" and "standard" for a result.json under      *)
(* custom_output/ or standard_output/, "loose" for one elsewhere, "meta"   *)
(* for job_metadata.json, "other".                                         *)
(***************************************************************************)
EXTENDS Integers, FiniteSetsExt

CONSTANTS
    MaxPages,    \* pages of a document
    FieldCounts  \* field counts to price, around FIELD_THRESHOLD

ASSUME OutputConstants == MaxPages \in Nat \ {0} /\ FieldCounts \subseteq Nat

VARIABLE output  \* what the service has written for an invocation

Kinds == {"custom", "standard", "loose", "meta", "other"}

Missing == "missing"                  \* Python None

Segments == [custom : {"custom", Missing}, standard : {"standard", Missing}]

SeqsUpTo(set, n) == UNION {[1 .. k -> set] : k \in 0 .. n}

(* What is listed under the prefix, and what the segments of the assets of *)
(* job_metadata.json name.                                                 *)
KeyLists == {keys \in SeqsUpTo(Kinds, 3) : IsInjective(keys)}

Assets == SeqsUpTo(SeqsUpTo(Segments, 1), 2)

Places ==
    [uri : {"meta"}, keys : {<<"meta">>}, assets : Assets] \cup
    [uri : {"prefix"}, keys : {<<"meta", "custom">>, <<"standard", "meta">>}, assets : Assets] \cup
    [uri : {"prefix"}, keys : {k \in KeyLists : "meta" \notin Range(k)}, assets : {<<>>}]

(* A document of so many pages, which the outputs may leave out: the custom *)
(* one lists its pages or does not, the standard one lists them or counts  *)
(* them in its metadata.                                                   *)
Contents ==
    [pages : {1, MaxPages}, custom : {"list", "none"}, standard : {"list", "count", "none"},
     fields : {30}] \cup
    [pages : 1 .. MaxPages, custom : {"list"}, standard : {"none"}, fields : FieldCounts]

Outputs ==
    {[uri |-> p.uri, keys |-> p.keys, assets |-> p.assets,
      pages |-> c.pages, custom |-> c.custom, standard |-> c.standard, fields |-> c.fields]
        : p \in Places, c \in Contents}

-----------------------------------------------------------------------------
(* Finding the two outputs. *)

FirstOf(keys, kinds) ==
    LET found == {i \in DOMAIN keys : keys[i] \in kinds} IN
    IF found = {} THEN Missing ELSE keys[Min(found)]

(* _pick_custom_output: the standard output is a result.json as well. *)
PickCustom(keys) ==
    IF "custom" \in Range(keys) THEN "custom"
    ELSE IF Range(keys) \cap {"standard", "loose"} # {} THEN FirstOf(keys, {"standard", "loose"})
    ELSE FirstOf(keys, Kinds)

PickStandard(keys) == FirstOf(keys, {"standard"})

(* The first segment of the first asset that has any.                      *)
FromMetadata(assets) ==
    LET split == {a \in DOMAIN assets : assets[a] # <<>>} IN
    IF split = {} THEN [custom |-> Missing, standard |-> Missing] ELSE assets[Min(split)][1]

(* _resolve_output_paths. *)
Resolve(o) ==
    IF o.uri = "meta" \/ "meta" \in Range(o.keys)
    THEN FromMetadata(o.assets)
    ELSE [custom |-> PickCustom(o.keys), standard |-> PickStandard(o.keys)]

-----------------------------------------------------------------------------
(* Reading them. *)

(* parse_payload of the document under a key: what is not the custom       *)
(* output has no fields.                                                   *)
Payload(o, key) ==
    [of     |-> key,
     pages  |-> IF (key = "custom" /\ o.custom = "list") \/ (key = "standard" /\ o.standard = "list")
                THEN o.pages ELSE 0,
     fields |-> IF key = "custom" THEN o.fields ELSE 0]

(* The page count of the standard output. *)
StandardPages(o) == IF o.standard \in {"list", "count"} THEN o.pages ELSE 0

NoResult == [of |-> Missing, pages |-> 0, fields |-> 0]

(* fetch_and_parse; NoResult when it raises. *)
FetchAndParse(o) ==
    LET paths == Resolve(o)
        parsed == Payload(o, paths.custom) IN
    IF paths.custom = Missing THEN NoResult
    ELSE IF parsed.pages = 0 /\ paths.standard # Missing
    THEN [parsed EXCEPT !.pages = StandardPages(o)]
    ELSE parsed

-----------------------------------------------------------------------------
(* billing.py, in units of 0.0001 dollars, to which the product of a whole *)
(* number of pages is exact.                                               *)
BasePerPage == 400

PerExtraField == 5

FieldThreshold == 30

(* CostFrom30 is not the code: the 30th field is charged for.              *)
CostFrom30(pages, fields) ==
    pages * (BasePerPage + (IF fields < FieldThreshold THEN 0 ELSE fields - FieldThreshold + 1) * PerExtraField)

Cost(pages, fields) ==
    LET extras == IF fields > FieldThreshold THEN fields - FieldThreshold ELSE 0 IN
    pages * (BasePerPage + extras * PerExtraField)

OutputInit == output \in Outputs

OutputSpec == OutputInit /\ [][UNCHANGED output]_output

-----------------------------------------------------------------------------
(* Properties. *)

Wrote(o, kind) ==
    IF o.uri = "meta" \/ "meta" \in Range(o.keys)
    THEN \E i \in DOMAIN o.assets : \E j \in DOMAIN o.assets[i] :
            kind \in {o.assets[i][j].custom, o.assets[i][j].standard}
    ELSE kind \in Range(o.keys)

(* A document that was not split in segments, or has no job metadata: if   *)
(* the service wrote a custom output, that is what is read, and the pages  *)
(* of the document are found wherever the outputs tell them, so that its   *)
(* price is "pages x (0.040 + max(0, fields - 30) x 0.0005)": a page costs *)
(* 4 cents, and each field from the 31st on adds a twentieth of a cent.    *)
SegmentsOf(o) == UNION {{<<a, i>> : i \in DOMAIN o.assets[a]} : a \in DOMAIN o.assets}

Unsplit(o) == \A one, other \in SegmentsOf(o) : one = other

ResultPriced ==
    Unsplit(output) /\ Wrote(output, "custom") =>
        LET result == FetchAndParse(output) IN
        /\ result.of = "custom"
        /\ output.custom = "list" \/ (Wrote(output, "standard") /\ output.standard # "none")
              => Cost(result.pages, result.fields) =
                    output.pages * (400 + 5 * Cardinality(31 .. output.fields))
=============================================================================
