------------------------------- MODULE JinjaTool -------------------------------
(***************************************************************************)
(* The templating-jinja tool: its checks of the input, the loop of render  *)
(* over the tokens of a template, and expression_bound, which looks at an  *)
(* expression before MiniJinja evaluates it.  A text is its size in bytes. *)
(* MiniJinja (tokenizer, parser, evaluation) is external: what its         *)
(* operators and filters do to sizes is in Sizes.                          *)
(***************************************************************************)
EXTENDS Integers, Sequences, FiniteSetsExt

CONSTANTS
  Names,      \* variable names
  Expressions, \* what a template may have in its braces, with all its parts
  Templates,  \* sequences of segments
  ArgSizes,   \* sizes of values
  MAX_INPUT_BYTES, MAX_OUTPUT_BYTES, MAX_EXPRESSIONS, MAX_ARGS, MAX_DEPTH

VARIABLES
  stage,   \* of the call: "idle", "rendering" or "returned"
  input,   \* its template, args, name and value
  work,    \* of render: the arguments, the pieces so far and their size
  output

vars == <<stage, input, work, output>>

None == {}
Some(x) == {x}
Err == {-1}   \* no size is negative

-----------------------------------------------------------------------------
(* Expressions: [is : "var", id], [is : "str", size], [is : "int", n] (n   *)
(* of one digit), [is : "binop", op, left, right],                         *)
(* [is : "filter", name, expr, args] and [is : "other"] (an attribute, an  *)
(* index, a call, a test, a list ...).                                     *)

CaseFilters == {"upper", "lower", "capitalize", "title"}
LengthFilters == {"length", "count"}
EscapeFilters == {"escape", "e", "tojson"}
DefaultFilters == {"default", "d"}

\* The sizes that the value of an expression may have.  Changing the case of a
\* character takes at most thrice its bytes, escaping it six, tojson adds two
\* quotes; an empty text is replaced before and after every character.  What has
\* no bound is never evaluated, and is left out.
BinopSizes(e, l, r) ==
  CASE e.op \in {"~", "+"} -> {a + b : a \in l, b \in r}
    [] e.op = "*" /\ e.right.is = "int" -> {a * e.right.n : a \in l}
    [] e.op = "*" /\ e.right.is # "int" /\ e.left.is = "int" -> {b * e.left.n : b \in r}
    [] OTHER -> {}

FilterSizes(name, in, args) ==
  LET UpTo(S) == UNION {0 .. n : n \in S} IN
  CASE name \in CaseFilters   -> UpTo({3 * n : n \in in})
    [] name = "trim"          -> UpTo(in)
    [] name \in LengthFilters -> 1 .. 20
    [] name \in EscapeFilters -> UpTo({6 * n + 2 : n \in in})
    [] name \in DefaultFilters -> in \cup (IF args = <<>> THEN {0} ELSE args[1])
    [] name = "replace" /\ Len(args) > 1 ->
         UpTo({n + (n + 1) * r : n \in in, r \in args[2]})
    [] OTHER                  -> {}

\* The parts of an expression one level down.
Children(e) ==
  CASE e.is = "binop" -> {e.left, e.right}
    [] e.is = "filter" -> {e.expr} \cup {e.args[k] : k \in DOMAIN e.args}
    [] OTHER -> {}

\* The size of an expression by those of its children.
SizesOf(e, args, size) ==
  CASE e.is = "var" -> IF e.id \in DOMAIN args THEN {args[e.id]} ELSE {0}
    [] e.is = "str" -> {e.size}
    [] e.is = "int" -> {1}
    [] e.is = "binop" -> BinopSizes(e, size[e.left], size[e.right])
    [] e.is = "filter" ->
         FilterSizes(e.name, size[e.expr], [k \in DOMAIN e.args |-> size[e.args[k]]])
    [] OTHER -> {}

\* An expression of more levels than these is refused before it is evaluated.
Levels == 0 .. MAX_DEPTH + 1

SizesIn(args) ==
  LET sizes[n \in Levels] ==
        [e \in Expressions |-> IF n = 0 THEN {} ELSE SizesOf(e, args, sizes[n - 1])]
  IN sizes
Sizes(e, args) == SizesIn(args)[MAX_DEPTH + 1][e]

parts[n \in Levels] ==
  [e \in Expressions |->
     {e} \cup (IF n = 0 THEN {} ELSE UNION {parts[n - 1][x] : x \in Children(e)})]
Parts(e) == parts[MAX_DEPTH + 1][e]

-----------------------------------------------------------------------------
(* expression_bound: None when a variable is missing, Some(size), or Err.  *)

\* A size over the limit is an error at every level of an expression.
within_limit(size) == IF \E n \in size : n > MAX_OUTPUT_BYTES THEN Err ELSE size

\* Mutant of binop_bound: a side that is missing is taken for an empty text.
binop_bound_of_one(op, left, right, l, r) ==
  CASE op \in {"~", "+"} ->
         {a + b : a \in IF l = None THEN Some(0) ELSE l, b \in IF r = None THEN Some(0) ELSE r}
    [] op = "*" /\ right.is = "int" -> {a * right.n : a \in l}
    [] op = "*" /\ right.is # "int" /\ left.is = "int" -> {b * left.n : b \in r}
    [] OTHER -> Err

\* zip and map of two Options, here sets: Some only if both are.
binop_bound(op, left, right, l, r) ==
  CASE op \in {"~", "+"} -> {a + b : a \in l, b \in r}
    [] op = "*" /\ right.is = "int" -> {a * right.n : a \in l}
    [] op = "*" /\ right.is # "int" /\ left.is = "int" -> {b * left.n : b \in r}
    [] OTHER -> Err

\* Mutant of filter_bound: what replaces an empty text at the end is forgotten.
filter_bound_replace(name, in, args) ==
  CASE name \in CaseFilters /\ args = <<>> -> {n * 3 : n \in in}
    [] name = "trim" /\ Len(args) <= 1 -> in
    [] name \in LengthFilters /\ args = <<>> -> {20 : n \in in}
    [] name \in EscapeFilters /\ args = <<>> -> {n * 6 + 2 : n \in in}
    [] name \in DefaultFilters /\ Len(args) <= 2 ->
         LET other == IF args = <<>> \/ args[1] = None THEN Some(0) ELSE args[1]
         IN {IF a > b THEN a ELSE b : a \in in, b \in other}
    [] name = "replace" /\ Len(args) \in 2 .. 3 ->
         {n * (r + 1) : n \in in, r \in args[2]}
    [] OTHER -> Err

filter_bound(name, in, args) ==
  CASE name \in CaseFilters /\ args = <<>> -> {n * 3 : n \in in}
    [] name = "trim" /\ Len(args) <= 1 -> in
    [] name \in LengthFilters /\ args = <<>> -> {20 : n \in in}
    [] name \in EscapeFilters /\ args = <<>> -> {n * 6 + 2 : n \in in}
    [] name \in DefaultFilters /\ Len(args) <= 2 ->
         LET other == IF args = <<>> \/ args[1] = None THEN Some(0) ELSE args[1]
         IN {IF a > b THEN a ELSE b : a \in in, b \in other}
    [] name = "replace" /\ Len(args) \in 2 .. 3 ->
         {(n + 1) * (r + 1) : n \in in, r \in args[2]}
    [] OTHER -> Err

\* The bound of an expression by those of its children: an error of any is its own.
bound_of(e, args, bound) ==
  LET b == CASE e.is = "var" -> IF e.id \in DOMAIN args THEN Some(args[e.id]) ELSE None
             [] e.is = "str" -> Some(e.size)
             [] e.is = "int" -> Some(1)
             [] e.is = "binop" ->
                  binop_bound(e.op, e.left, e.right, bound[e.left], bound[e.right])
             [] e.is = "filter" ->
                  filter_bound(e.name, bound[e.expr], [k \in DOMAIN e.args |-> bound[e.args[k]]])
             [] OTHER -> Err
  IN IF b = Err \/ \E x \in Children(e) : bound[x] = Err THEN Err ELSE within_limit(b)

\* By the levels that are left: depth > MAX_DEPTH when there is none.
BoundsIn(args) ==
  LET bounds[n \in Levels] ==
        [e \in Expressions |-> IF n = 0 THEN Err ELSE bound_of(e, args, bounds[n - 1])]
  IN bounds
expression_bound(e, args) == BoundsIn(args)[MAX_DEPTH + 1][e]

-----------------------------------------------------------------------------
(* render, and the tool around it.                                         *)

\* size is that of the pieces together; count and evaluated are of expressions.
NoWork == [args |-> <<>>, pieces |-> <<>>, size |-> 0, count |-> 0, evaluated |-> {}]

Init ==
  /\ stage = "idle"
  /\ input = [template |-> <<>>]
  /\ work = NoWork
  /\ output = [is |-> "none"]

Returns(o) == stage' = "returned" /\ output' = o
Fails == Returns([is |-> "err"]) /\ UNCHANGED work

\* The single value goes over an argument of the same name.
merge(args, name, value) ==
  [x \in DOMAIN args \cup name |-> IF x \in name THEN CHOOSE v \in value : TRUE ELSE args[x]]

Total(f) == MapThenSumSet(LAMBDA x : f[x], DOMAIN f)

\* The size of a segment of the template, in the text it is written with.
SegmentSizes(t) == [k \in DOMAIN t |-> t[k].size]

\* render's first check: the template, the names (a byte each) and the values.
input_too_large(t, args) ==
  \/ Total(SegmentSizes(t)) + Cardinality(DOMAIN args) + Total(args) > MAX_INPUT_BYTES
  \/ Cardinality(DOMAIN args) > MAX_ARGS

Args == UNION {[X -> ArgSizes] : X \in SUBSET Names}

invoke ==
  /\ stage = "idle"
  /\ \E t \in Templates, args \in Args,
        name \in {None} \cup {Some(x) : x \in Names},
        value \in {None} \cup {Some(n) : n \in ArgSizes} :
       LET all == merge(args, name, value) IN
       /\ input' = [template |-> t, args |-> args, name |-> name, value |-> value]
       /\ IF (name = None) # (value = None) THEN Fails
          ELSE IF DOMAIN all = {} \/ input_too_large(t, all) THEN Fails
          ELSE /\ work' = [NoWork EXCEPT !.args = all]
               /\ stage' = "rendering"
               /\ UNCHANGED output

\* The segment that is next has a token of this kind.
Finds(kind) ==
  /\ stage = "rendering"
  /\ Len(work.pieces) < Len(input.template)
  /\ input.template[Len(work.pieces) + 1].is = kind

Segment == input.template[Len(work.pieces) + 1]

\* A piece goes to the output if there is room for it.
Push(kind, size, w) ==
  IF w.size + size > MAX_OUTPUT_BYTES
  THEN Returns([is |-> "err"]) /\ work' = w
  ELSE /\ work' = [w EXCEPT !.pieces = Append(@, kind), !.size = @ + size]
       /\ UNCHANGED <<stage, output>>

TemplateData ==
  /\ Finds("data")
  /\ Push("data", Segment.size, work)
  /\ UNCHANGED input

\* {{ e }}: counted, bounded, then kept as it is written or evaluated.
\* Evaluation may fail (an operand of the wrong type, an argument that is
\* missing, no fuel left).
Expression ==
  /\ Finds("expression")
  /\ LET e == Segment.expr
         bound == expression_bound(e, work.args)
         counted == [work EXCEPT !.count = @ + 1]
         evaluated == [counted EXCEPT !.evaluated = @ \cup {e}]
     IN IF counted.count > MAX_EXPRESSIONS \/ bound = Err THEN Fails
        ELSE IF bound = None THEN Push("kept", Segment.size, counted)
        ELSE \/ Returns([is |-> "err"]) /\ work' = evaluated
             \/ \E size \in Sizes(e, work.args) : Push("value", size, evaluated)
  /\ UNCHANGED input

\* A comment has no token that makes a piece.
Comment ==
  /\ Finds("comment")
  /\ work' = [work EXCEPT !.pieces = Append(@, "none")]
  /\ UNCHANGED <<stage, input, output>>

\* {% %}, an expression that is not closed, or text that is no template.
Unsupported == Finds("unsupported") /\ Fails /\ UNCHANGED input

Rendered ==
  /\ stage = "rendering"
  /\ Len(work.pieces) = Len(input.template)
  /\ Returns([is |-> "ok", size |-> work.size])
  /\ UNCHANGED <<input, work>>

Next == invoke \/ TemplateData \/ Expression \/ Comment \/ Unsupported \/ Rendered

-----------------------------------------------------------------------------

Missing(e) == {p \in Parts(e) : p.is = "var" /\ p.id \notin DOMAIN work.args}

\* A filter looks at its arguments although they may be without a bound: then the
\* argument is a variable that is missing and not an expression about one.
LooksAtNothingElse(e) ==
  \A p \in Parts(e) : p.is = "filter" =>
    \A k \in DOMAIN p.args : p.args[k].is = "var" \/ Missing(p.args[k]) = {}

\* No text that is made while an expression is evaluated, at whatever level of
\* it, is larger than the limit of the output: what the bounds let through does
\* fit in them, for every operator and filter.  (Of an argument that is an
\* expression about a missing variable there is no bound: MiniJinja fails on it,
\* unless it has a default for the variable.)
EveryTextIsBounded ==
  \A e \in work.evaluated : LooksAtNothingElse(e) =>
    \A p \in Parts(e) : \A n \in Sizes(p, work.args) : n <= MAX_OUTPUT_BYTES

\* What is returned is within the limit, with a piece for each segment.
OutputIsBounded ==
  output.is = "ok" =>
    /\ output.size <= MAX_OUTPUT_BYTES
    /\ Len(work.pieces) = Len(input.template)
    /\ \A k \in DOMAIN work.pieces :
         work.pieces[k] = "none" <=> input.template[k].is = "comment"

\* The variables that a value cannot be made without: those of both operands, of
\* what a filter is applied to, and of what a text is replaced by.  A default, the
\* characters to trim and the text to look for are not among them.
needed(e, about) ==
  CASE e.is = "var" -> {e.id}
    [] e.is = "binop" -> about[e.left] \cup about[e.right]
    [] e.is = "filter" /\ e.name = "replace" /\ Len(e.args) > 1 ->
         about[e.expr] \cup about[e.args[2]]
    [] e.is = "filter" /\ ~(e.name = "replace" /\ Len(e.args) > 1) -> about[e.expr]
    [] OTHER -> {}

needs[n \in Levels] ==
  [e \in Expressions |-> IF n = 0 THEN {} ELSE needed(e, needs[n - 1])]
Needs(e) == needs[MAX_DEPTH + 1][e]

\* An expression is evaluated when all the variables that it needs are arguments, at
\* whatever level of it they are, and stays as it is written when one is not: a
\* template rendered with some of its arguments can be rendered again with the others.
KeptWhenMissing ==
  \A k \in DOMAIN work.pieces :
    LET segment == input.template[k] IN
    /\ work.pieces[k] = "kept" =>
         segment.is = "expression" /\ ~(Needs(segment.expr) \subseteq DOMAIN work.args)
    /\ work.pieces[k] = "value" => Needs(segment.expr) \subseteq DOMAIN work.args

=============================================================================
