----------------------------- MODULE TwitterApi -----------------------------
(***************************************************************************)
(* How the tools of social-twitter read what Twitter says: error.rs and    *)
(* twitter_client.rs, which most of them share, and the checks that six    *)
(* tools make on the bare JSON instead.  Texts are abstracted to what the  *)
(* code looks for in them: the text of an error entry is the one of        *)
(* "rate", "auth", "not-found", "forbidden", "server" that its type or     *)
(* title contains, or "plain".                                             *)
(***************************************************************************)
EXTENDS Naturals

CONSTANT Ids        \* posts, users, lists or messages that a call can name

None == 0           \* no status code, no code
NoEntry == [typed |-> FALSE, text |-> "none", code |-> None]
NoData == [given |-> FALSE, flag |-> FALSE, pending |-> FALSE, items |-> {}]

Texts == {"rate", "auth", "not-found", "forbidden", "server", "plain"}

\* TwitterErrorKind; "none" is an error of a tool that has no kinds.
ErrorKinds ==
  {"network", "connection", "timeout", "parse", "auth", "not_found",
   "rate_limit", "server", "forbidden", "api", "unknown", "validation", "none"}

(***************************************************************************)
(* What comes back of a request: a failure to connect, a time-out, a       *)
(* broken connection, an answer whose body is cut off, or an answer.       *)
(* json: its body is JSON; fits: its data has the fields the tool reads;   *)
(* code: a top-level code and message; detail: a top-level detail; errors: *)
(* the first entry of an errors array; data: the data object.              *)
(***************************************************************************)
Fates == {"connect", "timeout", "broken", "cut", "answer"}

Statuses == {None, 200, 400, 401, 403, 404, 429, 503}
Codes == {None, 32, 34, 64, 88, 131, 214}

Entries == [typed : BOOLEAN, text : Texts \cup {"none"}, code : Codes]
Data == [given : BOOLEAN, flag : BOOLEAN, pending : BOOLEAN, items : SUBSET Ids]

Replies ==
  [how : Fates, status : Statuses, json : BOOLEAN, fits : BOOLEAN,
   code : Codes, detail : BOOLEAN, errors : Entries, data : Data]

Answer(status, data) ==
  [how |-> "answer", status |-> status, json |-> TRUE, fits |-> TRUE,
   code |-> None, detail |-> FALSE, errors |-> NoEntry, data |-> data]

Lost(how) == [Answer(None, NoData) EXCEPT !.how = how]

(***************************************************************************)
(* Outcomes of a tool: an error with its kind and status code, or ok with  *)
(* the flag or the items that the tool returns.  A response on its way     *)
(* through the shared code is an ok that carries Twitter's data.           *)
(***************************************************************************)
Outcomes ==
  [tag : {"none", "ok", "pending", "err"}, kind : ErrorKinds,
   status : Statuses \cup {500}, flag : BOOLEAN, items : SUBSET Ids]

Outcome(tag, kind, status, flag, items) ==
  [tag |-> tag, kind |-> kind, status |-> status, flag |-> flag, items |-> items]

NoOutcome == Outcome("none", "none", None, FALSE, {})
Err(kind, status) == Outcome("err", kind, status, FALSE, {})
OkFlag(b) == Outcome("ok", "none", None, b, {})
OkItems(s) == Outcome("ok", "none", None, FALSE, s)
Pending == Outcome("pending", "none", None, TRUE, {})

Response(data) == [ok |-> TRUE, data |-> data, err |-> NoOutcome]
Failure(err) == [ok |-> FALSE, data |-> NoData, err |-> err]

(***************************************************************************)
(* TwitterError::to_error_response                                         *)
(***************************************************************************)
NetworkError_early(how) ==
  Err(IF how = "cut" THEN "network" ELSE "connection", None)
NetworkError(how) ==
  Err(CASE how = "timeout" -> "timeout"
        [] how = "connect" -> "connection"
        [] OTHER -> "network", None)

\* The status code given is the one this kind usually has, not Twitter's.
ApiError(text) ==
  CASE text = "rate" -> Err("rate_limit", 429)
    [] text = "auth" -> Err("auth", 401)
    [] text = "not-found" -> Err("not_found", 404)
    [] text = "forbidden" -> Err("forbidden", 403)
    [] text = "server" -> Err("server", 500)
    [] OTHER -> Err("api", None)

StatusError_swapped(status) ==
  Err(CASE status = 429 -> "rate_limit"
        [] status = 401 -> "auth"
        [] status = 403 -> "not_found"
        [] status = 404 -> "forbidden"
        [] status >= 500 -> "server"
        [] OTHER -> "unknown", status)
StatusError(status) ==
  Err(CASE status = 429 -> "rate_limit"
        [] status = 401 -> "auth"
        [] status = 403 -> "forbidden"
        [] status = 404 -> "not_found"
        [] status >= 500 -> "server"
        [] OTHER -> "unknown", status)

ParseError == Err("parse", None)

(***************************************************************************)
(* parse_twitter_response.  The response types take an errors array only   *)
(* of entries that have a title and a type, and their data only with its   *)
(* fields: any other successful answer does not deserialize.               *)
(***************************************************************************)
CodeText(code) ==
  CASE code = 32 -> "auth"
    [] code = 88 -> "rate"
    [] code = 34 -> "not-found"
    [] OTHER -> "plain"

\* parse_error_from_json: the code decides, else the type and title.
EntryText(e) ==
  IF e.code \in {32, 34, 88} THEN CodeText(e.code)
  ELSE IF e.typed THEN e.text ELSE "plain"

HasEntry(a) == a.errors # NoEntry

Deserializes(a) ==
  /\ a.json
  /\ HasEntry(a) => a.errors.typed
  /\ a.data.given => a.fits

ParseSuccessful(a) ==
  IF ~Deserializes(a) THEN Failure(ParseError)
  ELSE IF HasEntry(a) THEN Failure(ApiError(a.errors.text))
  ELSE Response(a.data)

ParseFailed(a) ==
  IF a.json /\ a.code # None THEN Failure(ApiError(CodeText(a.code)))
  ELSE IF a.json /\ HasEntry(a) THEN Failure(ApiError(EntryText(a.errors)))
  ELSE Failure(StatusError(a.status))

ParseTwitterResponse(a) ==
  IF a.how # "answer" THEN Failure(NetworkError(a.how))
  ELSE IF a.status \in 200 .. 299 THEN ParseSuccessful(a)
  ELSE ParseFailed(a)

(***************************************************************************)
(* TwitterClient: make_request, and what impl_twitter_response_parser      *)
(* makes of a response: its data, or a parse error when there is none.     *)
(***************************************************************************)
ClientResult_data_first(a) ==
  LET r == ParseTwitterResponse(a)
  IN  IF a.how = "answer" /\ a.status \in 200 .. 299 /\ a.data.given THEN Response(a.data)
      ELSE IF r.ok THEN Failure(ParseError)
      ELSE r
ClientResult(a) ==
  LET r == ParseTwitterResponse(a)
  IN  IF r.ok /\ ~r.data.given THEN Failure(ParseError) ELSE r

(***************************************************************************)
(* The six tools that do not use the shared code: the status is not looked *)
(* at, a code, a detail or an errors member makes an error, and the errors *)
(* have no kind.                                                           *)
(***************************************************************************)
RawError == Err("none", None)

RawResult(a) ==
  IF \/ a.how # "answer" \/ ~a.json
     \/ a.code # None \/ a.detail \/ HasEntry(a) \/ ~a.data.given
  THEN Failure(RawError)
  ELSE Response(a.data)
=============================================================================
