------------------------------ MODULE ToolServers ------------------------------
(***************************************************************************)
(* The tool crates without a backend of Talus's own: each has a main.rs    *)
(* that serves its tools, and none keeps anything from one call to the     *)
(* next.  A behaviour is one of these servers with one call; of Walrus, a  *)
(* read, or an upload up to the request that its HTTP client sends; of the *)
(* reads of social-twitter, the calls that follow next_token.              *)
(***************************************************************************)
EXTENDS Integers, Sequences

CONSTANTS
  Pairs, Quotes, Statuses, ErrorTypes, MAX_DAY,            \* exchanges-coinbase
  WIDTH, MAX_LEN,                                          \* math.i64
  Names, Expressions, Templates, ArgSizes,                 \* templating-jinja
  MAX_INPUT_BYTES, MAX_OUTPUT_BYTES, MAX_EXPRESSIONS, MAX_ARGS, MAX_DEPTH,
  Sleeps, Payloads, Rates,                                 \* bench
  MAX_SLEEP_MS, MAX_PAYLOAD_BYTES, TIMEOUT_MS, TICK_MS,
  Urls, Address, Bytes, Json, Conforming, Nothing,         \* storage-walrus: reads
  PublisherUrls, RedirectHosts,                            \* storage-walrus: uploads
  Inputs, PAGES                                            \* social-twitter: reads

VARIABLES
  server, stage, input, work, output, clock,
  host, pins, peer, body, digest, delivered   \* of the Walrus server only

walrus == <<host, pins, peer, body, digest, delivered>>
vars == <<server, stage, input, work, output, clock, walrus>>

Coinbase == INSTANCE CoinbaseTools WITH today <- clock
Math == INSTANCE MathTools
Jinja == INSTANCE JinjaTool
Bench == INSTANCE BenchLoad
Read == INSTANCE WalrusRead WITH pc <- stage, outcome <- output
Publisher == INSTANCE PublisherClient WITH
  Urls <- PublisherUrls, Hosts <- RedirectHosts, token <- pins, sent <- peer
Twitter == INSTANCE TwitterReads

-----------------------------------------------------------------------------
(* What the servers may assume of their callers and of who answers them.   *)

\* A text has a part, if only the empty one; a status has three digits.
Text == Seq(STRING) \ {<<>>}
CoinbaseAssumption ==
  /\ \A p \in Pairs :
       /\ p.is = "string" => p.text \in Text
       /\ p.is = "array" => p.items \in Seq(Text)
  /\ Quotes \subseteq Text
  /\ Statuses \subseteq {s \in Nat : 100 <= s /\ s <= 999}
  /\ MAX_DAY \in Nat
ASSUME CoinbaseAssumption

MathAssumption == WIDTH \in Nat \ {0} /\ MAX_LEN \in Nat
ASSUME MathAssumption

\* The parts of an expression are expressions, of texts and numbers that are not
\* negative; a template is a sequence of segments.
JinjaAssumption ==
  /\ \A e \in Expressions :
       /\ e.is \in {"var", "str", "int", "binop", "filter", "other"}
       /\ e.is = "str" => e.size \in Nat
       /\ e.is = "int" => e.n \in Nat
       /\ e.is = "binop" => e.left \in Expressions /\ e.right \in Expressions
       /\ e.is = "filter" => e.expr \in Expressions /\ e.args \in Seq(Expressions)
  /\ \A t \in Templates :
       /\ t \in Seq({t[k] : k \in DOMAIN t})
       /\ \A k \in DOMAIN t :
            /\ t[k].size \in Nat
            /\ t[k].is = "expression" => t[k].expr \in Expressions
  /\ ArgSizes \subseteq Nat
  /\ MAX_OUTPUT_BYTES \in Nat
  /\ MAX_DEPTH \in Nat
ASSUME JinjaAssumption

\* MAX_PAYLOAD_BYTES is 61000 in the program.
BenchAssumption ==
  /\ Sleeps \subseteq Nat /\ Payloads \subseteq Nat /\ Rates \subseteq Int
  /\ MAX_PAYLOAD_BYTES \in Nat /\ MAX_PAYLOAD_BYTES <= 61000
  /\ MAX_SLEEP_MS \in Nat /\ TIMEOUT_MS \in Nat /\ TICK_MS \in Nat
ASSUME BenchAssumption

ReadAssumption ==
  /\ \A u \in Urls :
       /\ u.host.is \in {"ip", "name"}
       /\ u.host.is = "ip" => u.host.ip \in Read!IpAddr
  /\ Address \subseteq Read!IpAddr
ASSUME ReadAssumption

PublisherAssumption == \A u \in PublisherUrls : u.host \in Seq(STRING)
ASSUME PublisherAssumption

\* A caller gives options of the tool, lists of names that the tool has, and begins
\* with the first page.
ReadTools ==
  {"get_tweet", "get_tweets", "get_user_tweets", "get_mentioned_tweets",
   "get_recent_search_tweets", "get_recent_tweet_count", "get_list_tweets",
   "get_list_members", "get_user_lists", "get_list", "get_user_by_id",
   "get_user_by_username", "get_users_by_id", "get_users_by_username",
   "get_conversation_messages", "get_conversation_messages_by_id"}
TwitterAssumption ==
  /\ \A i \in Inputs :
       /\ i = [tool |-> i.tool, given |-> i.given]
       /\ i.tool \in ReadTools
       /\ i.given = [o \in DOMAIN i.given |-> i.given[o]]
       /\ DOMAIN i.given \subseteq Twitter!Options(i.tool)
       /\ \A o \in DOMAIN i.given :
            /\ o \in Twitter!Lists => i.given[o] \subseteq Twitter!Choices(i.tool, o)
            /\ o \in {"next_token", "pagination_token"} => i.given[o].skips = 0
  /\ PAGES \in Nat \ {0}
ASSUME TwitterAssumption

-----------------------------------------------------------------------------

NoNetwork == host = {} /\ body = Nothing /\ digest = Nothing /\ delivered = Nothing

Init ==
  \/ /\ \/ server = "coinbase" /\ Coinbase!Init
        \/ server = "math" /\ Math!Init /\ clock = 0
        \/ server = "jinja" /\ Jinja!Init /\ clock = 0
        \/ server = "bench" /\ Bench!Init
        \/ server = "twitter" /\ Twitter!Init /\ clock = 0
     /\ NoNetwork /\ peer = Nothing /\ pins = {}
  \/ server = "walrus-read" /\ Read!Init /\ work = 0 /\ clock = 0
  \/ /\ server = "walrus-publisher" /\ Publisher!Init /\ work = 0 /\ clock = 0
     /\ NoNetwork

ServesCoinbase == server = "coinbase" /\ Coinbase!Next /\ UNCHANGED <<server, walrus>>
ServesMath == server = "math" /\ Math!Next /\ UNCHANGED <<server, clock, walrus>>
ServesJinja == server = "jinja" /\ Jinja!Next /\ UNCHANGED <<server, clock, walrus>>
ServesBench == server = "bench" /\ Bench!Next /\ UNCHANGED <<server, walrus>>
ServesTwitter == server = "twitter" /\ Twitter!Next /\ UNCHANGED <<server, clock, walrus>>
ServesRead == server = "walrus-read" /\ Read!Next /\ UNCHANGED <<server, work, clock>>
ServesPublisher ==
  /\ server = "walrus-publisher" /\ Publisher!Next
  /\ UNCHANGED <<server, work, clock, host, body, digest, delivered>>

Next ==
  \/ ServesCoinbase \/ ServesMath \/ ServesJinja \/ ServesBench
  \/ ServesTwitter \/ ServesRead \/ ServesPublisher

Spec == Init /\ [][Next]_vars

-----------------------------------------------------------------------------
(* The properties of the tools, each of the server that has it.            *)

\* What a Coinbase tool says of its call is true (error.rs, CoinbaseClient::get):
\* the blame is the caller's only if the input was refused or the exchange said so,
\* status_code tells how far the request got, an Ok is whole data in a success that
\* names no error, of the pair the caller wrote and of no day to come.
CoinbaseIsHonest ==
  server = "coinbase" =>
    /\ Coinbase!BlameIsEarned /\ Coinbase!StatusTellsStage /\ Coinbase!OkIsWhole
    /\ Coinbase!PairIsTheCallers /\ Coinbase!DateNotAhead

\* add, mul, sum and cmp answer what arithmetic says, without wrap-around, and err
\* only on an overflow that happened.
MathIsExact == server = "math" => Math!OkIsExact /\ Math!ErrIsOverflow

\* No text that MiniJinja makes inside an expression whose arguments have bounds, nor
\* what render returns, is larger than the output limit; no segment is left out, and
\* an expression stays as it is written exactly when a variable that its value needs
\* is missing (one that only gives a default may be).
RenderIsBounded ==
  server = "jinja" =>
    Jinja!EveryTextIsBounded /\ Jinja!OutputIsBounded /\ Jinja!KeptWhenMissing

\* bench.load fails and sleeps as it is asked to, and its answer fits inline.
LoadIsAsAsked == server = "bench" => Bench!AnswerFitsInline /\ Bench!LoadIsAsAsked

\* Every option given to a read of Twitter is in the request, once; what it asks for
\* arrives where the tool's structs have a place for it; and a page is lost to its
\* expansions only for want of three known fields.
NothingIsDropped ==
  server = "twitter" =>
    Twitter!AsksAllThatIsGiven /\ Twitter!AskedArrives /\ Twitter!LostToExpansion

\* Whoever follows next_token sees every item once, in order, up to the last.
PagesInOrder == server = "twitter" => Twitter!PagesInOrder

\* A caller's endpoint is connected to only at an address that was checked, and an
\* address is refused only if it is reserved, in whatever form it is written.
EndpointIsChecked ==
  server = "walrus-read" => Read!ConnectsToChecked /\ Read!RefusesOnlyPrivate

\* What the next tool decodes of a read-json is what was validated.
DeliveredIsValidated == server = "walrus-read" => Read!DeliveredIsValidated

\* The tool's identity goes to the publisher on Cloud Run it was minted for, and to
\* nobody else.
TokenStaysHome == server = "walrus-publisher" => Publisher!TokenStaysHome

=============================================================================
