----------------------------- MODULE CoinbaseTools -----------------------------
(***************************************************************************)
(* The exchanges-coinbase tools: get_spot_price, get_product_ticker and    *)
(* get_product_stats, each a check of its input, one GET of Coinbase's     *)
(* API and a reading of the answer (coinbase_client.rs, error.rs).  The    *)
(* tools keep nothing between calls, so one call is modelled; the exchange *)
(* and the network answer as they like, and the day may change meanwhile.  *)
(*                                                                         *)
(* A text is the sequence of its parts between hyphens: "BTC-USD" is       *)
(* <<"BTC", "USD">> and the empty text <<"">>.                             *)
(***************************************************************************)
EXTENDS Naturals, Sequences

CONSTANTS
  Pairs,       \* JSON values a caller sends for the pair
  Quotes,      \* texts a caller sends for quote_currency
  Statuses,    \* HTTP statuses the exchange answers with
  ErrorTypes,  \* texts an error body has for errorType
  MAX_DAY      \* bound: the days are 1 .. MAX_DAY

VARIABLES
  stage,   \* of the call: "idle", "sent", "reading" or "returned"
  input,   \* its tool, the JSON of its pair, its quote and date
  work,    \* what it has asked for, and the answer it has got
  output,  \* Ok, or Err with its kind and status_code
  today    \* Utc::now().date_naive()

vars == <<stage, input, work, output, today>>

None == {}
Some(x) == {x}
Empty == <<"">>

-----------------------------------------------------------------------------
(* CoinbaseErrorKind, by the serialized names: by whose fault it is.       *)

CallersKinds ==
  {"invalid_request", "malformed_transaction", "invalid_signature", "policy_in_use",
   "invalid_sql_query", "document_verification_failed", "recipient_allowlist_violation",
   "recipient_allowlist_pending", "travel_rules_recipient_violation",
   "network_not_tradable", "guest_permission_denied", "guest_region_forbidden",
   "guest_transaction_limit", "guest_transaction_count",
   "phone_number_verification_expired", "unauthorized", "payment_method_required",
   "forbidden", "not_found", "timed_out", "already_exists", "idempotency_error",
   "rate_limit_exceeded", "faucet_limit_exceeded"}
ServersKinds == {"internal_server_error", "bad_gateway", "service_unavailable"}

from_api_error_type(t) == IF t \in CallersKinds \cup ServersKinds THEN t ELSE "unknown"

from_status_code(s) ==
  CASE s = 400 -> "invalid_request"
    [] s = 401 -> "unauthorized"
    [] s = 402 -> "payment_method_required"
    [] s = 403 -> "forbidden"
    [] s = 404 -> "not_found"
    [] s \in {408, 504} -> "timed_out"
    [] s = 409 -> "already_exists"
    [] s = 422 -> "idempotency_error"
    [] s = 429 -> "rate_limit_exceeded"
    [] s = 500 -> "internal_server_error"
    [] s = 502 -> "bad_gateway"
    [] s = 503 -> "service_unavailable"
    [] OTHER -> "unknown"

from_network_error(e) ==
  CASE e = "timeout" -> "network_timeout"
    [] e = "connect" -> "network_connection_failed"
    [] e = "request" -> "network_ip_blocked"
    [] e = "other"   -> "network_connection_failed"

\* An error body: the type it names goes before the status it came with.
to_error_response(errorType, status) ==
  IF errorType = None THEN from_status_code(status)
  ELSE CHOOSE k \in {from_api_error_type(t) : t \in errorType} : TRUE

-----------------------------------------------------------------------------
(* From the JSON input to what is asked of the exchange.                   *)

\* A string as it is, two strings with a hyphen between them, else an error of
\* the deserializer: the call does not reach the tool.
deserialize_trading_pair(v) ==
  CASE v.is = "string" -> Some(v.text)
    [] v.is = "array" /\ Len(v.items) = 2 -> Some(v.items[1] \o v.items[2])
    [] OTHER -> None

\* What to ask for, or None for a refusal.  With a quote the pair is a base and
\* has no hyphen; without one it may be anything but empty.
final_currency_pair(pair, quote) ==
  IF quote = None
  THEN IF pair = Empty THEN None ELSE Some(pair)
  ELSE IF Len(pair) > 1 \/ pair = Empty \/ Empty \in quote
       THEN None
       ELSE {pair \o q : q \in quote}

\* The product tools have the same checks in code of their own.
ticker_product_id(product, quote) == final_currency_pair(product, quote)

stats_product_id(product, quote) == final_currency_pair(product, quote)

\* Day 0 is a text that is no date.
NoDay == 0

validate_date_format(date) == date # NoDay /\ date <= today

\* The tools: the API that their client asks, and the variants of their Output.
GetSpotPrice == [base |-> "api.coinbase.com", ports |-> {"ok", "err"}]
GetProductTicker == [base |-> "api.exchange.coinbase.com", ports |-> {"ok", "err"}]
GetProductStats == [base |-> "api.exchange.coinbase.com", ports |-> {"ok", "err"}]

\* The endpoint asked, at most one: none when the input is refused.
spot_endpoint(i, pair) ==
  IF \A d \in i.date : validate_date_format(d)
  THEN [base : {GetSpotPrice.base}, path : {"spot"},
        pair : final_currency_pair(pair, i.quote), date : {i.date}]
  ELSE {}
ticker_endpoint(i, product) ==
  [base : {GetProductTicker.base}, path : {"ticker"},
   pair : ticker_product_id(product, i.quote), date : {None}]
stats_endpoint(i, product) ==
  [base : {GetProductStats.base}, path : {"stats"},
   pair : stats_product_id(product, i.quote), date : {None}]

endpoint(i, pair) ==
  CASE i.tool = "spot"   -> spot_endpoint(i, pair)
    [] i.tool = "ticker" -> ticker_endpoint(i, pair)
    [] i.tool = "stats"  -> stats_endpoint(i, pair)

-----------------------------------------------------------------------------
(* The call.                                                               *)

NoInput == [tool |-> "none"]
NoOutput == [is |-> "none"]
Unanswered(asked) == [asked |-> asked, status |-> None, body |-> [is |-> "none"]]

Init ==
  /\ stage = "idle"
  /\ input = NoInput
  /\ work = Unanswered({})
  /\ output = NoOutput
  /\ today \in 1 .. MAX_DAY

QuoteInputs == {None} \cup {Some(q) : q \in Quotes}
SpotInput ==
  [tool : {"spot"}, pair : Pairs, quote : QuoteInputs,
   date : {None} \cup {Some(d) : d \in 0 .. MAX_DAY + 1}]
TickerInput == [tool : {"ticker"}, pair : Pairs, quote : QuoteInputs]
StatsInput == [tool : {"stats"}, pair : Pairs, quote : QuoteInputs]

Returns(o) == stage' = "returned" /\ output' = o
Fails(kind, status_code) ==
  Returns([is |-> "err", kind |-> kind, status_code |-> status_code])

invoke ==
  /\ stage = "idle"
  /\ \E i \in SpotInput \cup TickerInput \cup StatsInput :
     \E pair \in deserialize_trading_pair(i.pair) :
       /\ input' = i
       /\ work' = Unanswered(endpoint(i, pair))
       /\ \/ /\ endpoint(i, pair) = {}
             /\ Fails("invalid_request", None)
          \/ /\ endpoint(i, pair) # {}
             /\ stage' = "sent"
             /\ UNCHANGED output
  /\ UNCHANGED today

\* send() fails: the request may not even have left.  The client sets no time
\* limit of its own.
NetworkFails ==
  /\ stage = "sent"
  /\ \E e \in {"timeout", "connect", "request", "other"} :
       Fails(from_network_error(e), Some(0))
  /\ UNCHANGED <<input, work, today>>

\* send() returns the head of the answer; its body is still to be read.
Responds ==
  /\ stage = "sent"
  /\ \E s \in Statuses : work' = [work EXCEPT !.status = Some(s)]
  /\ stage' = "reading"
  /\ UNCHANGED <<input, output, today>>

\* What a body may be: cut off while it is read, no JSON object, or an object in
\* which an error type, the tool's data and a list of errors may be found.
Bodies ==
  [is : {"cut", "text"}]
  \cup [is : {"object"}, errorType : {None} \cup {Some(t) : t \in ErrorTypes},
        data : {"absent", "unfit", "whole"}, errors : BOOLEAN]

is_success(s) == s \in 200 .. 299

\* Another status than success: what the error body says, else the status.
ErrorResponse(s, body) ==
  Fails(IF body.is = "object" THEN to_error_response(body.errorType, s)
        ELSE from_status_code(s), Some(s))

\* A body that cannot be read, or does not parse as what the tool asks for.
ParseFails == Fails("parse", None)

OkOutput == Returns([is |-> "ok"])

\* The envelope: its first error, else its data, else nothing was found.
read_spot_price(body) ==
  IF body.is = "text" \/ body.data = "unfit" THEN ParseFails
  ELSE IF body.errors \/ body.data = "absent" THEN Fails("invalid_request", None)
  ELSE OkOutput

\* The answer to the product tools is the data itself.
read_ticker(body) == IF body.is = "object" /\ body.data = "whole" THEN OkOutput ELSE ParseFails
read_stats(body) == IF body.is = "object" /\ body.data = "whole" THEN OkOutput ELSE ParseFails

\* Mutant of get: the body is parsed before the status is looked at.
get_json_first ==
  /\ stage = "reading"
  /\ \E s \in work.status, body \in Bodies :
       /\ work' = [work EXCEPT !.body = body]
       /\ IF body.is # "object" THEN ParseFails
          ELSE IF ~is_success(s) THEN ErrorResponse(s, body)
          ELSE read_spot_price(body)
  /\ UNCHANGED <<input, today>>

\* The rest of CoinbaseClient::get, and of the tool that waits for it.
get ==
  /\ stage = "reading"
  /\ \E s \in work.status, body \in Bodies :
       /\ work' = [work EXCEPT !.body = body]
       /\ IF body.is = "cut" THEN ParseFails
          ELSE IF ~is_success(s) THEN ErrorResponse(s, body)
          ELSE CASE input.tool = "spot"   -> read_spot_price(body)
                 [] input.tool = "ticker" -> read_ticker(body)
                 [] input.tool = "stats"  -> read_stats(body)
  /\ UNCHANGED <<input, today>>

Midnight ==
  /\ today < MAX_DAY
  /\ today' = today + 1
  /\ UNCHANGED <<stage, input, work, output>>

Next == invoke \/ NetworkFails \/ Responds \/ get \/ Midnight

-----------------------------------------------------------------------------

\* The caller is blamed only for what the caller did: an input that is refused
\* here and never sent, a 4xx, a timeout that a gateway reports, an error type
\* of that kind, or a success that says it has an error or nothing to give.
BlameIsEarned ==
  output.is = "err" /\ output.kind \in CallersKinds =>
    \/ work.asked = {} /\ output.status_code = None
    \/ \E s \in work.status :
         \/ s \in 400 .. 499 \cup {504}
         \/ work.body.is = "object" /\ work.body.errorType # None
         \/ is_success(s) /\ work.body.is = "object"

\* status_code tells how far the call got: 0 when there was no answer, the
\* status of an answer that was no success and was read, else none at all.
StatusTellsStage ==
  output.is = "err" =>
    /\ output.status_code = Some(0) <=> (work.asked # {} /\ work.status = None)
    /\ \A s \in 1 .. 999 : output.status_code = Some(s) <=>
         work.status = Some(s) /\ ~is_success(s) /\ work.body.is # "cut"

\* An Ok is a whole body, of the tool asked, in a success that has no errors.
OkIsWhole ==
  output.is = "ok" =>
    /\ \A s \in work.status : is_success(s)
    /\ work.body.is = "object" /\ work.body.data = "whole"
    /\ input.tool = "spot" => ~work.body.errors

\* What is under way names the pair the caller wrote, whichever way it was
\* written and whichever tool was called: a base and a quote, neither empty and
\* the base without a hyphen, when the quote is apart; else the text as it came.
PairIsTheCallers ==
  \A q \in work.asked :
    \/ input.quote = None /\ q.pair \in deserialize_trading_pair(input.pair)
    \/ /\ input.quote # None
       /\ q.pair[1] # "" /\ Some(<<q.pair[1]>>) = deserialize_trading_pair(input.pair)
       /\ Some(Tail(q.pair)) = input.quote /\ Tail(q.pair) # Empty

\* No request under way asks for a day that has not begun.
DateNotAhead == \A q \in work.asked : \A d \in q.date : d \in 1 .. today

=============================================================================
