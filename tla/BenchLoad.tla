------------------------------- MODULE BenchLoad -------------------------------
(***************************************************************************)
(* The bench.load tool: one call that checks its input, sleeps, draws      *)
(* whether to fail, and answers with a padding of the size asked for.  The *)
(* toolkit, which drops a call that has taken timeout(), is external.      *)
(***************************************************************************)
EXTENDS Integers

CONSTANTS
  Sleeps, Payloads, Rates,  \* what callers send; a rate is in thousandths
  MAX_SLEEP_MS, MAX_PAYLOAD_BYTES,
  TIMEOUT_MS,               \* of the toolkit, which BenchLoad::timeout sets
  TICK_MS                   \* grain of the clock

VARIABLES
  stage,   \* of the call: "idle", "sleeping", "returned" or "dropped"
  input,   \* its sleep_ms, payload_bytes, error_rate
  work,    \* unused between the steps of a call
  output,
  clock    \* milliseconds since the call began

vars == <<stage, input, work, output, clock>>

NaN == -1
One == 1000

Init ==
  /\ stage = "idle"
  /\ input = [sleep_ms |-> 0]
  /\ work = {}
  /\ output = [is |-> "none"]
  /\ clock = 0

Returns(o) == stage' = "returned" /\ output' = o

\* The three checks of the input; NaN and the infinities are in no range.
refused(i) ==
  \/ i.error_rate \notin 0 .. One
  \/ i.sleep_ms > MAX_SLEEP_MS
  \/ i.payload_bytes > MAX_PAYLOAD_BYTES

invoke ==
  /\ stage = "idle"
  /\ \E i \in [sleep_ms : Sleeps, payload_bytes : Payloads, error_rate : Rates] :
       /\ input' = i
       /\ IF refused(i) THEN Returns([is |-> "err", why |-> "input"])
          ELSE stage' = "sleeping" /\ UNCHANGED output
  /\ UNCHANGED <<work, clock>>

\* Mutant of Draws: a rate of nothing may still fail.
Draws_inclusive(roll, rate) == roll <= rate

\* A number in [0, 1) below the rate is an error.
Draws(roll, rate) == rate > 0 /\ roll < rate

\* The answer as JSON: 52 bytes of keys and quotes, five numbers of up to 20.
Answer(i) == [is |-> "ok", bytes |-> 52 + 5 * 20 + i.payload_bytes]

\* The sleep is over: the rate decides.
Wakes ==
  /\ stage = "sleeping"
  /\ clock >= input.sleep_ms
  /\ \E roll \in {0, input.error_rate, One - 1} \ {One} :
       IF Draws(roll, input.error_rate) THEN Returns([is |-> "err", why |-> "synthetic"])
       ELSE Returns(Answer(input))
  /\ UNCHANGED <<input, work, clock>>

\* The toolkit drops the future of a call that is over its time.
Dropped ==
  /\ stage = "sleeping"
  /\ clock >= TIMEOUT_MS
  /\ stage' = "dropped"
  /\ UNCHANGED <<input, work, output, clock>>

Tick ==
  /\ stage = "sleeping"
  /\ clock < MAX_SLEEP_MS
  /\ clock' = clock + TICK_MS
  /\ UNCHANGED <<stage, input, work, output>>

Next == invoke \/ Wakes \/ Dropped \/ Tick

-----------------------------------------------------------------------------

\* The bytes that a tool may answer with inline.
INLINE_LIMIT == 61440

\* An answer fits the inline limit with its JSON around it, and an input that
\* asks for more is refused before the call sleeps.
AnswerFitsInline == output.is = "ok" => output.bytes < INLINE_LIMIT

\* A rate of 0 never fails a call, a rate of 1 always; no call answers earlier
\* than it was asked to.
LoadIsAsAsked ==
  /\ output.is = "err" /\ output.why = "synthetic" => input.error_rate > 0
  /\ output.is = "ok" => input.error_rate < One /\ clock >= input.sleep_ms

=============================================================================
