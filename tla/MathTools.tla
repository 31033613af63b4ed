------------------------------- MODULE MathTools -------------------------------
(***************************************************************************)
(* The math.i64 tools: add, mul, cmp and sum of two's complement numbers   *)
(* of WIDTH bits (64 in the program).  A call is computed at once, except  *)
(* sum, which folds its vector one number at a time and stops at the first *)
(* addition that overflows.                                                *)
(***************************************************************************)
EXTENDS Integers, Sequences

CONSTANTS
  WIDTH,   \* bits of a number
  MAX_LEN  \* bound: numbers in the vector of sum

VARIABLES
  stage,   \* of the call: "idle", "folding" or "returned"
  input,   \* its tool and its numbers
  work,    \* of sum: the accumulator, and the numbers not yet added
  output

vars == <<stage, input, work, output>>

i64 == -(2 ^ (WIDTH - 1)) .. 2 ^ (WIDTH - 1) - 1

\* Mutant of checked: the result wraps around.
checked_wraps(n) ==
  {CHOOSE m \in i64 : \E k \in -(2 ^ WIDTH) .. 2 ^ WIDTH : m = n + k * 2 ^ WIDTH}

\* Some(n) if n is a number of the type, else None.
checked(n) == i64 \cap {n}

checked_add(a, b) == checked(a + b)
checked_mul(a, b) == checked(a * b)

NoWork == [acc |-> 0, rest |-> <<>>]

Init ==
  /\ stage = "idle"
  /\ input = [tool |-> "none"]
  /\ work = NoWork
  /\ output = [is |-> "none"]

Returns(o) == stage' = "returned" /\ output' = o

\* Ok { result }, or Err for what overflows.
ReturnsChecked(result) ==
  \/ \E n \in result : Returns([is |-> "ok", result |-> n])
  \/ result = {} /\ Returns([is |-> "err"])

add ==
  /\ stage = "idle"
  /\ \E a, b \in i64 :
       /\ input' = [tool |-> "add", vec |-> <<a, b>>]
       /\ ReturnsChecked(checked_add(a, b))
  /\ UNCHANGED work

mul ==
  /\ stage = "idle"
  /\ \E a, b \in i64 :
       /\ input' = [tool |-> "mul", vec |-> <<a, b>>]
       /\ ReturnsChecked(checked_mul(a, b))
  /\ UNCHANGED work

\* Every pair of numbers has an answer, which carries them both.
cmp ==
  /\ stage = "idle"
  /\ \E a, b \in i64 :
       /\ input' = [tool |-> "cmp", vec |-> <<a, b>>]
       /\ \/ a > b /\ Returns([is |-> "gt", a |-> a, b |-> b])
          \/ a = b /\ Returns([is |-> "eq", a |-> a, b |-> b])
          \/ a < b /\ Returns([is |-> "lt", a |-> a, b |-> b])
  /\ UNCHANGED work

\* try_fold begins with zero.
sum ==
  /\ stage = "idle"
  /\ \E n \in 0 .. MAX_LEN : \E v \in [1 .. n -> i64] :
       /\ input' = [tool |-> "sum", vec |-> v]
       /\ work' = [acc |-> 0, rest |-> v]
  /\ stage' = "folding"
  /\ UNCHANGED output

try_fold ==
  /\ stage = "folding"
  /\ \/ /\ work.rest = <<>>
        /\ Returns([is |-> "ok", result |-> work.acc])
        /\ UNCHANGED work
     \/ /\ work.rest # <<>>
        /\ checked_add(work.acc, Head(work.rest)) = {}
        /\ Returns([is |-> "err"])
        /\ UNCHANGED work
     \/ /\ work.rest # <<>>
        /\ \E n \in checked_add(work.acc, Head(work.rest)) :
             work' = [acc |-> n, rest |-> Tail(work.rest)]
        /\ UNCHANGED <<stage, output>>
  /\ UNCHANGED input

Next == add \/ mul \/ cmp \/ sum \/ try_fold

-----------------------------------------------------------------------------

\* What the first n numbers of a vector add up to.
Total(v, n) ==
  LET total[k \in 0 .. n] == IF k = 0 THEN 0 ELSE total[k - 1] + v[k] IN total[n]
Exact ==
  IF input.tool = "mul" THEN input.vec[1] * input.vec[2] ELSE Total(input.vec, Len(input.vec))

\* An Ok is the exact result, without wrap-around, of all the numbers; what cmp
\* says of its two numbers is so.
OkIsExact ==
  /\ output.is = "ok" => output.result = Exact
  /\ output.is = "gt" => output.a > output.b
  /\ output.is = "lt" => output.a < output.b
  /\ output.is = "eq" => output.a = output.b

\* An Err is an overflow that did happen: of the result, or of the sum of the
\* first so many numbers.  (Whether a sum that fits as a whole is an Err thus
\* depends on the order of its numbers.)
ErrIsOverflow ==
  output.is = "err" =>
    \/ Exact \notin i64
    \/ /\ input.tool = "sum"
       /\ \E k \in 1 .. Len(input.vec) : Total(input.vec, k) \notin i64

=============================================================================
