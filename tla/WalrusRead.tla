----------------------------- MODULE WalrusRead -----------------------------
(***************************************************************************)
(* xyz.taluslabs.storage.walrus.read-json, read-file and verify-blob: one  *)
(* request to an aggregator that the caller may name.  A name is looked up *)
(* and its addresses are checked and pinned before the connection is made. *)
(* read-json does not return what it read but a reference to the blob with *)
(* the digest of the bytes it validated; the leader reads the blob again   *)
(* when the data is used.  DNS, the aggregators and the leader are not in  *)
(* this repository.                                                        *)
(***************************************************************************)
EXTENDS EndpointPolicy, FiniteSets

CONSTANTS
  Urls,       \* what callers send for aggregator_url
  Address,    \* addresses that DNS may answer with
  Bytes,      \* what an aggregator may answer; a digest stands for its bytes
  Json,       \* the bytes that parse
  Conforming, \* the JSON that the caller's schema accepts
  Nothing     \* no address, no bytes

\* aggregator_url: a URL of the input port, or none and then the operator's
\* (WALRUS_AGGREGATOR_URL, or else the SDK's own).
Endpoints == {{}} \cup {{u} : u \in Urls}

ReadJsonInput == [tool : {"read-json"}, url : Endpoints, schema : BOOLEAN]
ReadFileInput == [tool : {"read-file"}, url : Endpoints]
VerifyBlobInput == [tool : {"verify-blob"}, url : Endpoints]

VARIABLES
  input,     \* the request being served
  pc,        \* the await the call is suspended at
  host,      \* the addresses that a lookup of the endpoint's host answers now
  pins,      \* the addresses pinned onto the HTTP client, {} for no pin
  peer,      \* the address that the client is connected to
  body,      \* the bytes that the aggregator answered
  outcome,   \* the variant of the Output, or the kind of Err
  digest,    \* the bytes whose digest is in the returned reference
  delivered  \* the bytes that the receiving tool decodes

client == <<pc, pins, peer, body, outcome, digest>>
vars == <<input, pc, host, pins, peer, body, outcome, digest, delivered>>

OfCaller == input.url # {}
IsLiteral(url) == \A u \in url : host_as_ip(u.host) # {}

\* What a lookup may answer: a literal is itself, a name any addresses.
Hosts(url) ==
  IF url # {} /\ IsLiteral(url)
  THEN {UNION {host_as_ip(u.host) : u \in url}}
  ELSE SUBSET Address

Init ==
  /\ input \in ReadJsonInput \cup ReadFileInput \cup VerifyBlobInput
  /\ pc = "idle"
  /\ host \in Hosts(input.url)
  /\ pins = {}
  /\ peer = Nothing
  /\ body = Nothing
  /\ outcome = "none"
  /\ digest = Nothing
  /\ delivered = Nothing

Return(o) == pc' = "returned" /\ outcome' = o

\* The kind of an error that is not about the JSON.
RequestError == IF input.tool = "verify-blob" THEN "server" ELSE "network"

-----------------------------------------------------------------------------

\* deserialize_url_opt: an input whose URL the policy refuses is an error of the
\* request; no tool is invoked.
RefuseUrl ==
  /\ pc = "idle"
  /\ OfCaller
  /\ \A u \in input.url : ~check_endpoint_url(u)
  /\ Return("refused")
  /\ UNCHANGED <<input, host, pins, peer, body, digest, delivered>>

\* The endpoint has a name that has to be looked up and checked.
ToResolve ==
  /\ pc = "idle"
  /\ OfCaller
  /\ \A u \in input.url : check_endpoint_url(u)
  /\ ~IsLiteral(input.url)

AllPublic(addrs) == addrs # {} /\ \A ip \in addrs : is_public_ip(ip)

\* Mutant of Resolve: the addresses are checked but not pinned.
Resolve_unpinned ==
  /\ ToResolve
  /\ AllPublic(host)
  /\ pc' = "connecting"
  /\ UNCHANGED <<input, host, pins, peer, body, outcome, digest, delivered>>

\* resolve_public_endpoint: every address of the name is public; all are pinned.
Resolve ==
  /\ ToResolve
  /\ AllPublic(host)
  /\ pins' = host
  /\ pc' = "connecting"
  /\ UNCHANGED <<input, host, peer, body, outcome, digest, delivered>>

\* The name does not resolve, not in time, or not only to public addresses.
RefuseName ==
  /\ ToResolve
  /\ Return(RequestError)
  /\ UNCHANGED <<input, host, pins, peer, body, digest, delivered>>

\* An address needs no lookup, the operator's endpoint no check.
NoLookup ==
  /\ pc = "idle"
  /\ \A u \in input.url : check_endpoint_url(u)
  /\ OfCaller => IsLiteral(input.url)
  /\ pc' = "connecting"
  /\ UNCHANGED <<input, host, pins, peer, body, outcome, digest, delivered>>

\* The connection looks the host up by itself unless its addresses are pinned.
Connect ==
  /\ pc = "connecting"
  /\ peer' \in IF pins # {} THEN pins ELSE host
  /\ pc' = "reading"
  /\ UNCHANGED <<input, host, pins, body, outcome, digest, delivered>>

\* No connection, an answer that is an error, a redirect (refused) or, for
\* read-json, longer than MAX_RESOLVED_DATA_BYTES.
RequestFails ==
  /\ pc \in {"connecting", "reading"}
  /\ Return(RequestError)
  /\ UNCHANGED <<input, host, pins, peer, body, digest, delivered>>

\* The future is dropped at an await, or the tool's time limit (30 s) is over.
Drop ==
  /\ pc # "returned"
  /\ Return("cancelled")
  /\ UNCHANGED <<input, host, pins, peer, body, digest, delivered>>

\* The bytes parse, and the caller's schema, if there is one, accepts them.
validate(bytes) == input.schema => bytes \in Conforming

\* Mutant of ReadJson: the reference leaves out the digest of the bytes.
ReadJson_undigested ==
  /\ pc = "reading"
  /\ input.tool = "read-json"
  /\ \E bytes \in Bytes :
       /\ body' = bytes
       /\ IF bytes \notin Json THEN Return("validation") /\ UNCHANGED digest
          ELSE IF ~validate(bytes) THEN Return("schema") /\ UNCHANGED digest
          ELSE Return("ok") /\ digest' \in Bytes
  /\ UNCHANGED <<input, host, pins, peer, delivered>>

\* read: the bytes are parsed, validated if there is a schema, and committed to.
ReadJson ==
  /\ pc = "reading"
  /\ input.tool = "read-json"
  /\ \E bytes \in Bytes :
       /\ body' = bytes
       /\ IF bytes \notin Json THEN Return("validation") /\ UNCHANGED digest
          ELSE IF ~validate(bytes) THEN Return("schema") /\ UNCHANGED digest
          ELSE Return("ok") /\ digest' = bytes
  /\ UNCHANGED <<input, host, pins, peer, delivered>>

\* The schema does not compile, or the blob id makes no reference.
ReadJsonRefused ==
  /\ pc = "reading"
  /\ input.tool = "read-json"
  /\ body' \in Json
  /\ \/ input.schema /\ Return("schema")
     \/ Return("validation")
  /\ UNCHANGED <<input, host, pins, peer, digest, delivered>>

ReadFile ==
  /\ pc = "reading"
  /\ input.tool = "read-file"
  /\ body' \in Bytes
  /\ Return("ok")
  /\ delivered' = body'
  /\ UNCHANGED <<input, host, pins, peer, digest>>

VerifyBlob ==
  /\ pc = "reading"
  /\ input.tool = "verify-blob"
  /\ \E verdict \in {"verified", "unverified"} : Return(verdict)
  /\ UNCHANGED <<input, host, pins, peer, body, digest, delivered>>

-----------------------------------------------------------------------------
(* DNS and the leader.                                                      *)

HostChanges ==
  /\ pc # "returned"
  /\ host' \in Hosts(input.url) \ {host}
  /\ UNCHANGED <<input, client, delivered>>

\* The leader reads the blob from an aggregator of its own; of all that may
\* answer, it delivers only the bytes that have the digest.
LeaderReads ==
  /\ outcome = "ok" /\ input.tool = "read-json"
  /\ delivered = Nothing
  /\ delivered' = digest
  /\ UNCHANGED <<input, client, host>>

-----------------------------------------------------------------------------

Next ==
  \/ RefuseUrl \/ Resolve \/ RefuseName \/ NoLookup
  \/ Connect \/ RequestFails \/ Drop
  \/ ReadJson \/ ReadJsonRefused \/ ReadFile \/ VerifyBlob
  \/ HostChanges \/ LeaderReads

Spec == Init /\ [][Next]_vars

-----------------------------------------------------------------------------

\* "the addresses it answered with are pinned onto the HTTP client - otherwise
\* the connection does its own lookup" (utils.rs): an endpoint of the input
\* port is connected to only at an address that was checked.
ConnectsToChecked ==
  peer # Nothing /\ OfCaller => ~IsReserved(peer)

\* A URL with an address for its host is refused only if it is not plain https or
\* the address is reserved, whichever of its forms the address is written in.
RefusesOnlyPrivate ==
  outcome = "refused" =>
    \E u \in input.url :
      \/ u.scheme # "https" \/ u.parts # {}
      \/ \E ip \in host_as_ip(u.host) : IsReserved(ip)
      \/ host_as_ip(u.host) = {}

\* What the next tool decodes is what was validated, whatever the aggregators
\* answer between the two reads.
DeliveredIsValidated ==
  delivered # Nothing /\ input.tool = "read-json" =>
    /\ delivered = body
    /\ delivered \in Json
    /\ input.schema => delivered \in Conforming
=============================================================================
