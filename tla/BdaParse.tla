------------------------------ MODULE BdaParse ------------------------------
(***************************************************************************)
(* What becomes of the confidences in a result of the extraction service:  *)
(* bda/parse.py takes them out of explainability_info and stores them      *)
(* beside the extracted fields; the detail page puts each next to a field. *)
(*                                                                         *)
(* JSON is a tree of numbers, dicts and lists.  The confidence of a leaf   *)
(* is named by the path of the leaf, so that one shown at another place is *)
(* seen to be wrong.                                                       *)
(***************************************************************************)
EXTENDS Integers, SequencesExt

CONSTANTS
    Fields,      \* the fields of a document
    Columns,     \* the columns of its tables and nested objects
    MaxRows      \* rows a table may have

ASSUME ParseConstants ==
    /\ IsFiniteSet(Fields) /\ IsFiniteSet(Columns) /\ MaxRows \in Nat \ {0}
    /\ {"confidence", "value"} \cap (Fields \cup Columns) = {}

VARIABLE doc     \* the document being parsed and shown

Number(v) == [t |-> "number", v |-> v]
Dict(at)  == [t |-> "dict", at |-> at]
List(s)   == [t |-> "list", at |-> s]
Nothing   == [t |-> "none"]           \* Python None, JavaScript undefined

-----------------------------------------------------------------------------
(* Documents and their explainability_info. *)

(* A field is a scalar, an object, or a table of so many rows. *)
Shapes == [kind : {"scalar", "object"}, rows : {0}] \cup [kind : {"table"}, rows : 1 .. MaxRows]

LeavesOf(f, shape) ==
    CASE shape.kind = "scalar" -> {<<f>>}
      [] shape.kind = "object" -> {<<f, c>> : c \in Columns}
      [] shape.kind = "table"  -> {<<f, i, c>> : i \in 1 .. shape.rows, c \in Columns}

Leaves(shapes) == UNION {LeavesOf(f, shapes[f]) : f \in Fields}

(* The service scores some of the leaves, repeating the value with the     *)
(* score or not, and mirrors the document with what it says of each: in a  *)
(* dict, in a list of one dict, or in a list of dicts with one field each. *)
LeafForms == {"value", "score", "score and value"}

Documents ==
    UNION {[shapes : {shapes}, form : [Leaves(shapes) -> LeafForms], as : {"dict", "list", "entries"}]
              : shapes \in [Fields -> Shapes]}

Valued(d) == {path \in DOMAIN d.form : d.form[path] = "score and value"}

Bare(d) == {path \in DOMAIN d.form : d.form[path] = "score"}

Leaf(d, path) ==
    Dict(IF path \in Valued(d) THEN [confidence |-> Number(path), value |-> Number(0)]
         ELSE IF path \in Bare(d) THEN [confidence |-> Number(path)]
         ELSE [value |-> Number(0)])

ExplainField(d, f) ==
    LET shape == d.shapes[f] IN
    CASE shape.kind = "scalar" -> Leaf(d, <<f>>)
      [] shape.kind = "object" -> Dict([c \in Columns |-> Leaf(d, <<f, c>>)])
      [] shape.kind = "table"  ->
            List([i \in 1 .. shape.rows |-> Dict([c \in Columns |-> Leaf(d, <<f, i, c>>)])])

ExplainOf(d, fields) == Dict([f \in fields |-> ExplainField(d, f)])

Explain(d) ==
    LET one == SetToSeq(Fields) IN
    CASE d.as = "dict"    -> ExplainOf(d, Fields)
      [] d.as = "list"    -> List(<<ExplainOf(d, Fields)>>)
      [] d.as = "entries" -> List([i \in DOMAIN one |-> ExplainOf(d, {one[i]})])

(* inference_result: the values, in the same form. *)
Value == Number(0)

InferField(d, f) ==
    LET shape == d.shapes[f]
        row == Dict([c \in Columns |-> Value]) IN
    CASE shape.kind = "scalar" -> Value
      [] shape.kind = "object" -> row
      [] shape.kind = "table"  -> List([i \in 1 .. shape.rows |-> row])

Inference(d) == [f \in Fields |-> InferField(d, f)]

-----------------------------------------------------------------------------
(* parse.py. *)

(* CountRows is not the code: it counts the cells of every row.            *)
CountRows(inference) ==
    LET CellsOf(n) == IF n.t = "list" THEN Len(n.at) * Cardinality(DOMAIN n.at[1].at) ELSE 0
    IN  FoldFunctionOnSet(+, 0, [f \in DOMAIN inference |-> 1 + CellsOf(inference[f])],
                          DOMAIN inference)

(* _count_fields: a field counts once, and a table once more for each      *)
(* column of its first row.                                                *)
CountFields(inference) ==
    LET ColumnsOf(n) == IF n.t = "list" /\ n.at # <<>> /\ n.at[1].t = "dict"
                        THEN Cardinality(DOMAIN n.at[1].at) ELSE 0
    IN  FoldFunctionOnSet(+, 0, [f \in DOMAIN inference |-> 1 + ColumnsOf(inference[f])],
                          DOMAIN inference)

Scored(n) ==
    /\ n.t = "dict" /\ {"confidence", "value"} \subseteq DOMAIN n.at
    /\ n.at["value"].t \notin {"dict", "list"}

Present(n) == n # Nothing

(* Of a list, what is not None, in its order. *)
Kept(s) ==
    LET upTo[i \in 0 .. Len(s)] ==
          IF i = 0 THEN <<>>
          ELSE IF Present(s[i]) THEN Append(upTo[i - 1], s[i]) ELSE upTo[i - 1]
    IN  upTo[Len(s)]

(* _walk_confidences of a node, from what becomes of the nodes below it:   *)
(* what has no score below it is left out, in dicts and in lists alike.    *)
WalkNode(n, below) ==
    IF Scored(n) THEN n.at["confidence"]
    ELSE IF n.t = "dict" THEN
        LET kept == {k \in DOMAIN n.at : Present(below[k])} IN
        IF kept = {} THEN Nothing ELSE Dict([k \in kept |-> below[k]])
    ELSE IF n.t = "list" THEN
        LET kept == Kept(below) IN IF kept = <<>> THEN Nothing ELSE List(kept)
    ELSE Nothing

(* The recursion, as deep as explainability_info goes: an entry holds      *)
(* fields; a field is a leaf, an object of leaves or a table; a table is a *)
(* list of rows, and a row holds leaves.                                   *)
WalkLeaf(n) == WalkNode(n, [k \in DOMAIN n.at |-> Nothing])

WalkRow(n) == WalkNode(n, [k \in DOMAIN n.at |-> WalkLeaf(n.at[k])])

(* WalkFieldDictsOnly is not the code: it does not look into lists. *)
WalkFieldDictsOnly(n) ==
    IF n.t = "list" THEN Nothing ELSE WalkNode(n, [k \in DOMAIN n.at |-> WalkRow(n.at[k])])

WalkField(n) == WalkNode(n, [k \in DOMAIN n.at |-> WalkRow(n.at[k])])

Walk(n) == WalkNode(n, [k \in DOMAIN n.at |-> WalkField(n.at[k])])

(* dict.update: the later entry's keys win. *)
Update(old, new) ==
    [k \in DOMAIN old \cup DOMAIN new |-> IF k \in DOMAIN new THEN new[k] ELSE old[k]]

NoEntries == [k \in {} |-> Nothing]

EntriesOf(n) == IF n.t = "dict" THEN n.at ELSE NoEntries

(* _flatten_confidences. *)
Flatten(e) ==
    IF e.t = "list"
    THEN FoldLeft(Update, NoEntries, [i \in DOMAIN e.at |-> EntriesOf(Walk(e.at[i]))])
    ELSE EntriesOf(Walk(e))

-----------------------------------------------------------------------------
(* job-detail.js. *)

Entry(n, k) == IF n.t \in {"dict", "list"} /\ k \in DOMAIN n.at THEN n.at[k] ELSE Nothing

(* The chip next to the leaf, if there is one. *)
ChipAt(path, n) == IF n.t = "number" THEN {[at |-> path, shows |-> n.v]} ELSE {}

RenderObject(f, conf) ==
    UNION {ChipAt(<<f, c>>, IF conf.t = "dict" THEN Entry(conf, c) ELSE Nothing) : c \in Columns}

(* RenderShiftedTable is not the code: it counts the rows of conf from 0. *)
RenderShiftedTable(f, rows, conf) ==
    UNION {ChipAt(<<f, i, c>>, Entry(Entry(conf, i - 1), c)) : i \in 1 .. rows, c \in Columns}

(* Row i of the table takes its chips from entry i of the list. *)
RenderListTable(f, rows, conf) ==
    UNION {ChipAt(<<f, i, c>>, IF conf.t = "list" THEN Entry(Entry(conf, i), c) ELSE Nothing)
             : i \in 1 .. rows, c \in Columns}

RenderFields(d, confidences) ==
    UNION {LET conf == Entry(confidences, f) IN
           CASE d.shapes[f].kind = "scalar" -> ChipAt(<<f>>, conf)
             [] d.shapes[f].kind = "object" -> RenderObject(f, conf)
             [] d.shapes[f].kind = "table"  -> RenderListTable(f, d.shapes[f].rows, conf)
             : f \in Fields}

Chips(d) == RenderFields(d, Dict(Flatten(Explain(d))))

ParseInit == doc \in Documents

ParseSpec == ParseInit /\ [][UNCHANGED doc]_doc

-----------------------------------------------------------------------------
(* Properties. *)

NumbersIn(n, Below(_)) ==
    IF n.t = "number" THEN {n.v}
    ELSE IF n.t \in {"dict", "list"} THEN UNION {Below(n.at[k]) : k \in DOMAIN n.at}
    ELSE {}

NumbersOfLeaf(n) == NumbersIn(n, LAMBDA m : {})

NumbersOfRow(n) == NumbersIn(n, NumbersOfLeaf)

NumbersOfField(n) == NumbersIn(n, NumbersOfRow)

Numbers(n) == NumbersIn(n, NumbersOfField)

StoredScores == Numbers(Dict(Flatten(Explain(doc))))

(* "Confidence flatten walks explainability_info recursively": of the      *)
(* scores the service gave, at any depth and in any of its forms, none is  *)
(* lost on the way to the database, the ones without a value included, as  *)
(* test_parse_bill_of_lading has them.                                     *)
NoScoreLost == StoredScores = Valued(doc) \cup Bare(doc)

(* The scores that come with their value are stored, all of them and no    *)
(* others, through objects, tables, lists of entries and leaves without    *)
(* one, which may be all there is in a row or a table.                     *)
ValuedScoresKept == StoredScores = Valued(doc)

(* What a document costs does not depend on the length of its tables: the  *)
(* field count is the number of its fields and of its column headings.     *)
Headings ==
    {<<f>> : f \in Fields} \cup
    {<<f, c>> : f \in {g \in Fields : doc.shapes[g].kind = "table"}, c \in Columns}

TablesPricedByColumn == CountFields(Inference(doc)) = Cardinality(Headings)

(* Where every row of every table has a score with a value, the page shows *)
(* each such score, at its own leaf, and nothing at any other.             *)
RowScored(f, i) == \E c \in Columns : <<f, i, c>> \in Valued(doc)

EveryRowScored ==
    \A f \in Fields : \A i \in 1 .. doc.shapes[f].rows : RowScored(f, i)

ChipsComplete ==
    EveryRowScored => Chips(doc) = {[at |-> path, shows |-> path] : path \in Valued(doc)}

(* "Confidence chip rendered next to every leaf field, including ... array *)
(* line items": a chip shows the score of the leaf it is next to.          *)
ChipOfItsLeaf == \A chip \in Chips(doc) : chip.shows = chip.at
=============================================================================
