--------------------------- MODULE PublisherClient ---------------------------
(***************************************************************************)
(* The HTTP clients of the Walrus tools (client.rs) and whom they show the *)
(* tool's identity: the publisher that the operator configured, if it runs *)
(* on Cloud Run.  A URL is the labels of its user part, host and path.  The *)
(* metadata server, the publisher and the aggregators are external.        *)
(***************************************************************************)
EXTENDS Naturals, Sequences

CONSTANTS
  Urls,   \* what WALRUS_PUBLISHER_URL or an aggregator's URL may be
  Hosts   \* hosts that an answer may redirect to

\* The tool is an upload or a read; the URL is set, perhaps to a blank text, or unset.
Requests == [tool : {"upload", "read"}, url : {{}} \cup {{u} : u \in Urls}]

VARIABLES
  stage,   \* the await the call is suspended at
  input,   \* the tool and the URL of its endpoint
  token,   \* the audience of the token in the default header, {} for no header
  sent,    \* the requests sent: the host, and the audience of their token
  output

vars == <<stage, input, token, sent, output>>

Init ==
  /\ stage = "idle"
  /\ input \in Requests
  /\ token = {}
  /\ sent = {}
  /\ output = "none"

Return(o) == stage' = "returned" /\ output' = o

Configured == \E u \in input.url : ~u.blank

\* Mutant of is_cloud_run_url: .run.app anywhere in the text.
is_cloud_run_url_substring(url) ==
  url.parses /\ \E text \in {url.user, url.host, url.path} :
    \E i \in 1 .. Len(text) - 1 : SubSeq(text, i, i + 1) = <<"run", "app">>

\* The host is run.app or ends with .run.app.
is_cloud_run_url(url) ==
  /\ url.parses
  /\ Len(url.host) >= 2
  /\ SubSeq(url.host, Len(url.host) - 1, Len(url.host)) = <<"run", "app">>

\* publisher_client: an upload without a configured publisher is refused.
NoPublisher ==
  /\ stage = "idle"
  /\ input.tool = "upload"
  /\ ~Configured
  /\ Return("refused")
  /\ UNCHANGED <<input, token, sent>>

\* build_http_client: only the publisher's client asks for a token.
WantsToken == input.tool = "upload" /\ Configured /\ \A u \in input.url : is_cloud_run_url(u)

\* The client has no proxy and follows no redirect; it has no token yet, or needs none.
build_http_client ==
  /\ stage = "idle"
  /\ input.tool = "upload" => Configured
  /\ stage' = IF WantsToken THEN "fetching" ELSE "built"
  /\ UNCHANGED <<input, token, sent, output>>

\* fetch_id_token asks the metadata server for a token for the URL.  It fails, is
\* too slow (METADATA_FETCH_TIMEOUT) or answers what is no header: then the client
\* is built without.
fetch_id_token ==
  /\ stage = "fetching"
  /\ token' \in {{}, input.url}
  /\ stage' = "built"
  /\ UNCHANGED <<input, sent, output>>

\* The PUT or GET.  What is not a URL fails; an unset one is the SDK's aggregator.
Send ==
  /\ stage = "built"
  /\ \/ \E u \in input.url : ~u.parses /\ Return("network") /\ UNCHANGED sent
     \/ /\ \A u \in input.url : u.parses
        /\ stage' = "sent"
        /\ \E host \in IF input.url = {} THEN {<<"sdk">>} ELSE {u.host : u \in input.url} :
             sent' = {[host |-> host, token |-> token]}
        /\ UNCHANGED output
  /\ UNCHANGED <<input, token>>

Answered ==
  /\ stage = "sent"
  /\ Return("ok")
  /\ UNCHANGED <<input, token, sent>>

\* Mutant of Fails: a redirect is followed with the headers.
Fails_follows ==
  /\ stage = "sent"
  /\ \E h \in Hosts : sent' = sent \cup {[host |-> h, token |-> token]}
  /\ Return("ok")
  /\ UNCHANGED <<input, token>>

\* No answer, or one that is not a success: a redirect is one of those.
Fails ==
  /\ stage = "sent"
  /\ Return("network")
  /\ UNCHANGED <<input, token, sent>>

Next == NoPublisher \/ build_http_client \/ fetch_id_token \/ Send \/ Answered \/ Fails

-----------------------------------------------------------------------------

\* The identity token goes with uploads only, to no host but the one it was minted
\* for, and that one is Google's ("a substring test also matches [...] either of
\* which has the tool mint an OIDC identity token [...] aimed at someone else's
\* server", client.rs).
TokenStaysHome ==
  \A r \in sent : \A u \in r.token :
    /\ input.tool = "upload"
    /\ u.host = r.host
    /\ \E service \in {SubSeq(r.host, 1, i) : i \in 0 .. Len(r.host)} :
         r.host = service \o <<"run", "app">>
=============================================================================
