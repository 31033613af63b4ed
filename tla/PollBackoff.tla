---------------------------- MODULE PollBackoff ----------------------------
(***************************************************************************)
(* The clock arithmetic of the two polling loops of memory-memwal          *)
(* (client.rs: poll_job and poll_bulk_jobs): exponential backoff with a    *)
(* cap, positive jitter, a wall-clock budget and the time limit of one     *)
(* HTTP request.  All durations are in one unit, which the constants fix.  *)
(***************************************************************************)
EXTENDS Integers

CONSTANTS
  POLL_INITIAL,  \* the first delay
  POLL_MAX,      \* the largest delay between two polls
  POLL_BUDGET,   \* how long a loop polls before it gives up
  HTTP_TIMEOUT   \* the longest one request lasts, connection and body included

ASSUME PollAssumption ==
  /\ POLL_INITIAL \in Nat \ {0}
  /\ POLL_MAX \in Nat
  /\ POLL_INITIAL <= POLL_MAX
  /\ POLL_BUDGET \in Nat \ {0}
  /\ HTTP_TIMEOUT \in Nat

AtMost(x, bound) == IF x < bound THEN x ELSE bound
AtLeast(x, bound) == IF x < bound THEN bound ELSE x

next_backoff(current) == AtMost(2 * current, POLL_MAX)

\* What sleep(jittered(delay)) takes: the clock's nanoseconds modulo a
\* quarter of the delay come on top of it.
jittered(delay) == delay .. delay + AtLeast(delay \div 4, 1) - 1

\* How long a request can take before its answer, or its failure, is known.
Latencies == 0 .. HTTP_TIMEOUT

LongestSleep == POLL_MAX + AtLeast(POLL_MAX \div 4, 1) - 1

\* A loop sees the clock below POLL_BUDGET before each further poll, so a poll
\* more (its sleep and its request) is all that can go beyond the budget.
LongestPoll == POLL_BUDGET - 1 + LongestSleep + HTTP_TIMEOUT

Delays == POLL_INITIAL .. POLL_MAX
============================================================================
