---------------------------- MODULE TwitterTools ----------------------------
(***************************************************************************)
(* The tools of social-twitter but for the media upload: each call is one  *)
(* request to Twitter and one answer, and what the tool says of it.  A     *)
(* call checks its input, sends, Twitter serves the request against an     *)
(* account that others change too, the answer comes back whole, cut or not *)
(* at all, and the tool's own action turns it into an outcome.  A workflow *)
(* may call again after an error of a kind it takes for retryable.  The    *)
(* calls share no state of the process: they meet in the account.          *)
(***************************************************************************)
EXTENDS TwitterApi

CONSTANTS
  Calls,        \* the steps of workflows that call a tool
  RetryKinds,   \* the kinds of error after which a workflow calls again
  MaxAttempts   \* bound on the attempts of one step

WriteTools ==
  {"follow_user", "unfollow_user", "like_tweet", "unlike_tweet", "retweet_tweet",
   "undo_retweet_tweet", "post_tweet", "delete_tweet", "create_list",
   "update_list", "delete_list", "add_member", "remove_member",
   "send_direct_message", "create_group_conversation",
   "send_message_to_group_conversation"}

SingleReads == {"get_tweet", "get_user_by_id", "get_user_by_username", "get_list"}
BatchReads == {"get_tweets", "get_users_by_id", "get_users_by_username"}
MessageReads == {"get_conversation_messages", "get_conversation_messages_by_id"}
CollectionReads ==
  MessageReads \cup
  {"get_user_tweets", "get_mentioned_tweets", "get_recent_search_tweets",
   "get_recent_tweet_count", "get_list_members", "get_list_tweets", "get_user_lists"}
ReadTools == SingleReads \cup BatchReads \cup CollectionReads
Tools == WriteTools \cup ReadTools

\* The tools that check their input before they send, and the kind of error
\* they then return.
CheckingTools ==
  {"create_list", "update_list", "create_group_conversation",
   "send_message_to_group_conversation", "get_recent_search_tweets",
   "get_recent_tweet_count"} \cup MessageReads
BadInputKind(t) ==
  CASE t \in {"create_list", "update_list"} -> "none"
    [] t \in MessageReads -> "unknown"
    [] OTHER -> "validation"

\* Input that a tool refuses stays refused, and "none" is not a kind.
ASSUME RetryAssumption ==
  /\ RetryKinds \subseteq ErrorKinds \ {"validation", "unknown", "none"}
  /\ MaxAttempts \in Nat \ {0}

VARIABLES
  exists,    \* what there is on Twitter of the ids that calls name
  pc,        \* pc[c]: "idle", "sent", "answered" or "done"
  tool,      \* tool[c]: the tool that c calls
  want,      \* want[c]: the ids that the call names
  params,    \* params[c]: whether the request has query parameters
  reply,     \* reply[c]: what came back
  outcome,   \* outcome[c]: what the tool returned
  attempts,  \* attempts[c]: how many times c has called
  applied,   \* applied[c]: how many times Twitter carried c's request out
  shown,     \* shown[c]: what there was of want[c] when Twitter served c
  cause      \* cause[c]: why Twitter refused, or "none"

vars == <<exists, pc, tool, want, params, reply, outcome, attempts, applied,
          shown, cause>>
input == <<tool, want, params>>

Wants(t) ==
  CASE t \in SingleReads \cup {"delete_tweet", "delete_list"} -> {{i} : i \in Ids}
    [] t \in BatchReads -> (SUBSET Ids) \ {{}}
    [] OTHER -> {{}}

NoReply == Lost("broken")

Init ==
  /\ exists \in SUBSET Ids
  /\ pc = [c \in Calls |-> "idle"]
  /\ tool = [c \in Calls |-> "none"]
  /\ want = [c \in Calls |-> {}]
  /\ params = [c \in Calls |-> FALSE]
  /\ reply = [c \in Calls |-> NoReply]
  /\ outcome = [c \in Calls |-> NoOutcome]
  /\ attempts = [c \in Calls |-> 0]
  /\ applied = [c \in Calls |-> 0]
  /\ shown = [c \in Calls |-> {}]
  /\ cause = [c \in Calls |-> "none"]

Return(c, out) ==
  /\ pc' = [pc EXCEPT ![c] = "done"]
  /\ outcome' = [outcome EXCEPT ![c] = out]

Choose(c) ==
  /\ pc[c] = "idle"
  /\ \E t \in Tools :
       /\ tool' = [tool EXCEPT ![c] = t]
       /\ \E w \in Wants(t) : want' = [want EXCEPT ![c] = w]
       /\ \E p \in IF t \in MessageReads THEN BOOLEAN ELSE {FALSE} :
            params' = [params EXCEPT ![c] = p]
  /\ attempts' = [attempts EXCEPT ![c] = 1]

Send(c) ==
  /\ Choose(c)
  /\ pc' = [pc EXCEPT ![c] = "sent"]
  /\ UNCHANGED <<exists, reply, outcome, applied, shown, cause>>

\* The input does not pass the tool's own checks: nothing is sent.
RefuseInput(c) ==
  /\ Choose(c)
  /\ tool'[c] \in CheckingTools
  /\ Return(c, Err(BadInputKind(tool'[c]), None))
  /\ UNCHANGED <<exists, reply, applied, shown, cause>>

(***************************************************************************)
(* Twitter.                                                                *)
(***************************************************************************)
Replied(c, a) ==
  /\ pc[c] = "sent"
  /\ pc' = [pc EXCEPT ![c] = "answered"]
  /\ reply' = [reply EXCEPT ![c] = a]

\* The answer that a request was given may reach the tool, or be cut off.
Delivered(a) == {a, Lost("cut"), Lost("broken"), Lost("timeout")}

NeverArrives(c) ==
  /\ \E how \in {"connect", "timeout", "broken"} : Replied(c, Lost(how))
  /\ UNCHANGED <<exists, input, outcome, attempts, applied, shown, cause>>

Causes == {"credentials", "signature", "forbidden", "missing", "rate", "outage", "invalid"}

StatusOf(why) ==
  CASE why \in {"credentials", "signature"} -> 401
    [] why = "forbidden" -> 403
    [] why = "missing" -> 404
    [] why = "rate" -> 429
    [] why = "outage" -> 503
    [] OTHER -> 400

CodeOf(why) ==
  CASE why \in {"credentials", "signature"} -> 32
    [] why = "forbidden" -> 64
    [] why = "missing" -> 34
    [] why = "rate" -> 88
    [] why = "outage" -> 131
    [] OTHER -> 214

\* The problem types of Twitter's answers: not-authorized-for-resource has
\* "auth" in it, client-forbidden "forbidden", resource-not-found "not-found".
TextsOf(why) ==
  CASE why = "forbidden" -> {"auth", "forbidden"}
    [] why = "missing" -> {"not-found"}
    [] OTHER -> {}

Typed(text) == [typed |-> TRUE, text |-> text, code |-> None]
Coded(code) == [typed |-> FALSE, text |-> "plain", code |-> code]

Refusals(why) ==
  LET bare == Answer(StatusOf(why), NoData)
      code == CodeOf(why)
  IN  {[bare EXCEPT !.code = code],
       [bare EXCEPT !.errors = Coded(code)],
       [bare EXCEPT !.detail = TRUE],
       [bare EXCEPT !.json = FALSE]}
      \cup {[Answer(200, NoData) EXCEPT !.errors = Typed(x)] : x \in TextsOf(why)}

\* The signature covers the query of a request, and get_with_auth signs the
\* address alone (auth.rs, generate_auth_header_for_get).
SignatureHolds(c) == ~(tool[c] \in MessageReads /\ params[c])

Refuse(c) ==
  /\ \E why \in Causes :
       /\ (why = "signature") <=> ~SignatureHolds(c)
       /\ why = "missing" /\ tool[c] \in SingleReads => ~(want[c] \subseteq exists)
       /\ why = "missing" => tool[c] \notin BatchReads
       /\ \E answer \in Refusals(why) : \E a \in Delivered(answer) : Replied(c, a)
       /\ cause' = [cause EXCEPT ![c] = why]
       /\ \/ UNCHANGED applied
          \/ /\ why = "outage"      \* a gateway gives up on a request under way
             /\ tool[c] \in WriteTools
             /\ applied' = [applied EXCEPT ![c] = @ + 1]
  /\ shown' = [shown EXCEPT ![c] = want[c] \cap exists]
  /\ UNCHANGED <<exists, input, outcome, attempts>>

\* What the flag of an answer says when the request was carried out.
FlagWhenDone(t) ==
  t \notin {"unfollow_user", "unlike_tweet", "undo_retweet_tweet", "remove_member"}

Carry(c) ==
  LET flag == FlagWhenDone(tool[c])
      answer == Answer(200, [NoData EXCEPT !.given = TRUE, !.flag = flag])
  IN  /\ tool[c] \in WriteTools
      /\ \E a \in Delivered(answer) \cup {[answer EXCEPT !.fits = FALSE, !.data.flag = FALSE]} :
           Replied(c, a)
      /\ applied' = [applied EXCEPT ![c] = @ + 1]
      /\ exists' = exists \ want[c]
      /\ UNCHANGED <<input, outcome, attempts, shown, cause>>

\* The tools that make something new, of which Twitter has no flag to give.
Creates ==
  {"post_tweet", "create_list", "send_direct_message", "create_group_conversation",
   "send_message_to_group_conversation"}

\* Twitter says that things are not as asked: still followed, not deleted, or,
\* of a protected account, waiting for its owner.
Decline(c) ==
  LET flag == ~FlagWhenDone(tool[c])
      data == [NoData EXCEPT !.given = TRUE, !.flag = flag]
  IN  /\ tool[c] \in WriteTools
      /\ tool[c] \notin Creates
      /\ \E pending \in IF tool[c] = "follow_user" THEN BOOLEAN ELSE {FALSE} :
         \E a \in Delivered(Answer(200, [data EXCEPT !.pending = pending])) :
           Replied(c, a)
      /\ UNCHANGED <<exists, input, outcome, attempts, applied, shown, cause>>

Found(c) == IF tool[c] \in CollectionReads THEN exists ELSE want[c] \cap exists

MissingEntry(c) == IF want[c] \subseteq exists THEN NoEntry ELSE Typed("not-found")
Given(c) ==
  [Answer(200, [NoData EXCEPT !.given = TRUE, !.items = Found(c)])
     EXCEPT !.errors = MissingEntry(c)]
Absent(c) == [Answer(200, NoData) EXCEPT !.errors = MissingEntry(c)]

\* Several ids of which some are missing: those there are, and an error entry.
\* Nothing: no data, or of a collection an empty one.
ShowAnswers(c) ==
  IF Found(c) # {} THEN {Given(c), [Given(c) EXCEPT !.fits = FALSE]}
  ELSE IF tool[c] \in CollectionReads THEN {Absent(c), Given(c)}
  ELSE {Absent(c)}

Show(c) ==
  /\ tool[c] \in ReadTools
  /\ SignatureHolds(c)
  /\ \E answer \in ShowAnswers(c) : \E a \in Delivered(answer) : Replied(c, a)
  /\ shown' = [shown EXCEPT ![c] = Found(c)]
  /\ UNCHANGED <<exists, input, outcome, attempts, applied, cause>>

\* Others publish and delete.
Others ==
  /\ \E i \in Ids : exists' \in {exists \cup {i}, exists \ {i}}
  /\ UNCHANGED <<pc, input, reply, outcome, attempts, applied, shown, cause>>

(***************************************************************************)
(* What each tool makes of the answer.                                     *)
(***************************************************************************)
Conclude(c, t, out) ==
  /\ pc[c] = "answered"
  /\ tool[c] = t
  /\ Return(c, out)
  /\ reply' = [reply EXCEPT ![c] = NoReply]
  /\ UNCHANGED <<exists, input, attempts, applied, shown, cause>>

\* A failure is returned as it is, and ok is made of Twitter's data.
Through(r, ok) == IF r.ok THEN ok ELSE r.err

FollowUser(c) ==
  LET r == ClientResult(reply[c])
  IN  Conclude(c, "follow_user",
        Through(r, IF r.data.pending THEN Pending
                   ELSE OkFlag(r.data.flag)))

UnfollowUser_as_said(c) ==
  LET r == ClientResult(reply[c])
  IN  Conclude(c, "unfollow_user", Through(r, OkFlag(r.data.flag)))
UnfollowUser(c) ==
  LET r == ClientResult(reply[c])
  IN  Conclude(c, "unfollow_user", Through(r, OkFlag(~r.data.flag)))

LikeTweet(c) ==
  LET r == RawResult(reply[c])
  IN  Conclude(c, "like_tweet",
        Through(r, IF r.data.flag THEN OkFlag(TRUE) ELSE RawError))

UnlikeTweet(c) ==
  LET r == ClientResult(reply[c])
  IN  Conclude(c, "unlike_tweet", Through(r, OkFlag(~r.data.flag)))

RetweetTweet(c) ==
  LET r == ClientResult(reply[c])
  IN  Conclude(c, "retweet_tweet", Through(r, OkFlag(r.data.flag)))

UndoRetweetTweet(c) ==
  LET r == ClientResult(reply[c])
  IN  Conclude(c, "undo_retweet_tweet", Through(r, OkFlag(r.data.flag)))

\* Looks for errors and a detail, not for a code.
PostTweet(c) ==
  LET r == RawResult([reply[c] EXCEPT !.code = None])
  IN  Conclude(c, "post_tweet",
        Through(r, IF reply[c].fits THEN OkFlag(TRUE) ELSE RawError))

DeleteTweet(c) ==
  LET r == ClientResult(reply[c])
  IN  Conclude(c, "delete_tweet", Through(r, OkFlag(r.data.flag)))

CreateList(c) ==
  LET r == RawResult(reply[c])
  IN  Conclude(c, "create_list",
        Through(r, IF reply[c].fits THEN OkFlag(TRUE) ELSE RawError))

\* An answer without `updated` counts as not updated.
UpdateList(c) ==
  LET r == RawResult(reply[c])
  IN  Conclude(c, "update_list", Through(r, OkFlag(r.data.flag)))

DeleteList(c) ==
  LET r == ClientResult(reply[c])
  IN  Conclude(c, "delete_list", Through(r, OkFlag(r.data.flag)))

AddMember(c) ==
  LET r == RawResult(reply[c])
  IN  Conclude(c, "add_member",
        Through(r, IF reply[c].fits THEN OkFlag(r.data.flag) ELSE RawError))

RemoveMember(c) ==
  LET r == RawResult(reply[c])
  IN  Conclude(c, "remove_member",
        Through(r, IF reply[c].fits THEN OkFlag(r.data.flag) ELSE RawError))

SendDirectMessage(c) ==
  Conclude(c, "send_direct_message", Through(ClientResult(reply[c]), OkFlag(TRUE)))

CreateGroupConversation(c) ==
  Conclude(c, "create_group_conversation",
    Through(ClientResult(reply[c]), OkFlag(TRUE)))

SendMessageToGroupConversation(c) ==
  Conclude(c, "send_message_to_group_conversation",
    Through(ClientResult(reply[c]), OkFlag(TRUE)))

(***************************************************************************)
(* The tools that read.  They differ in what they say when there is        *)
(* nothing: not_found, ok with nothing, or the client's parse error.       *)
(***************************************************************************)
NotFound(status) == Err("not_found", status)

GivenOrNotFound(data) ==
  IF data.given THEN OkItems(data.items) ELSE NotFound(None)
SomeOrNotFound(data, status) ==
  IF data.items # {} THEN OkItems(data.items) ELSE NotFound(status)

GetTweet(c) ==
  LET r == ParseTwitterResponse(reply[c])
  IN  Conclude(c, "get_tweet", Through(r, GivenOrNotFound(r.data)))

GetUserById(c) ==
  LET r == ParseTwitterResponse(reply[c])
  IN  Conclude(c, "get_user_by_id", Through(r, GivenOrNotFound(r.data)))

GetUserByUsername(c) ==
  LET r == ParseTwitterResponse(reply[c])
  IN  Conclude(c, "get_user_by_username", Through(r, GivenOrNotFound(r.data)))

GetList(c) ==
  LET r == ParseTwitterResponse(reply[c])
  IN  Conclude(c, "get_list", Through(r, GivenOrNotFound(r.data)))

GetTweets(c) ==
  LET r == ClientResult(reply[c])
  IN  Conclude(c, "get_tweets", Through(r, SomeOrNotFound(r.data, None)))

GetUsersById(c) ==
  LET r == ClientResult(reply[c])
  IN  Conclude(c, "get_users_by_id", Through(r, OkItems(r.data.items)))

GetUsersByUsername(c) ==
  LET r == ClientResult(reply[c])
  IN  Conclude(c, "get_users_by_username", Through(r, SomeOrNotFound(r.data, 404)))

GetUserTweets(c) ==
  LET r == ParseTwitterResponse(reply[c])
  IN  Conclude(c, "get_user_tweets", Through(r, GivenOrNotFound(r.data)))

GetMentionedTweets(c) ==
  LET r == ParseTwitterResponse(reply[c])
  IN  Conclude(c, "get_mentioned_tweets", Through(r, GivenOrNotFound(r.data)))

GetRecentSearchTweets(c) ==
  LET r == ClientResult(reply[c])
  IN  Conclude(c, "get_recent_search_tweets", Through(r, SomeOrNotFound(r.data, 404)))

GetRecentTweetCount(c) ==
  LET r == ClientResult(reply[c])
  IN  Conclude(c, "get_recent_tweet_count", Through(r, SomeOrNotFound(r.data, None)))

GetListMembers(c) ==
  LET r == ParseTwitterResponse(reply[c])
  IN  Conclude(c, "get_list_members", Through(r, OkItems(r.data.items)))

GetListTweets(c) ==
  LET r == ParseTwitterResponse(reply[c])
  IN  Conclude(c, "get_list_tweets", Through(r, OkItems(r.data.items)))

GetUserLists(c) ==
  LET r == ClientResult(reply[c])
  IN  Conclude(c, "get_user_lists", Through(r, OkItems(r.data.items)))

GetConversationMessages(c) ==
  LET r == ClientResult(reply[c])
  IN  Conclude(c, "get_conversation_messages", Through(r, SomeOrNotFound(r.data, None)))

GetConversationMessagesById(c) ==
  LET r == ClientResult(reply[c])
  IN  Conclude(c, "get_conversation_messages_by_id",
        Through(r, SomeOrNotFound(r.data, None)))

(***************************************************************************)
(* The workflow calls the same tool with the same input again.             *)
(***************************************************************************)
WorkflowRetries(c) ==
  /\ pc[c] = "done"
  /\ outcome[c].tag = "err"
  /\ outcome[c].kind \in RetryKinds
  /\ attempts[c] < MaxAttempts
  /\ pc' = [pc EXCEPT ![c] = "sent"]
  /\ outcome' = [outcome EXCEPT ![c] = NoOutcome]
  /\ attempts' = [attempts EXCEPT ![c] = @ + 1]
  /\ shown' = [shown EXCEPT ![c] = {}]
  /\ cause' = [cause EXCEPT ![c] = "none"]
  /\ UNCHANGED <<exists, input, reply, applied>>

Workflow(c) == Send(c) \/ RefuseInput(c) \/ WorkflowRetries(c)

Twitter(c) == NeverArrives(c) \/ Refuse(c) \/ Carry(c) \/ Decline(c) \/ Show(c)

WriteTool(c) ==
  \/ FollowUser(c) \/ UnfollowUser(c) \/ LikeTweet(c) \/ UnlikeTweet(c)
  \/ RetweetTweet(c) \/ UndoRetweetTweet(c) \/ PostTweet(c) \/ DeleteTweet(c)
  \/ CreateList(c) \/ UpdateList(c) \/ DeleteList(c) \/ AddMember(c)
  \/ RemoveMember(c) \/ SendDirectMessage(c) \/ CreateGroupConversation(c)
  \/ SendMessageToGroupConversation(c)

ReadTool(c) ==
  \/ GetTweet(c) \/ GetUserById(c) \/ GetUserByUsername(c) \/ GetList(c)
  \/ GetTweets(c) \/ GetUsersById(c) \/ GetUsersByUsername(c)
  \/ GetUserTweets(c) \/ GetMentionedTweets(c) \/ GetRecentSearchTweets(c)
  \/ GetRecentTweetCount(c) \/ GetListMembers(c) \/ GetListTweets(c)
  \/ GetUserLists(c) \/ GetConversationMessages(c) \/ GetConversationMessagesById(c)

Next ==
  \/ Others
  \/ \E c \in Calls : Workflow(c) \/ Twitter(c) \/ WriteTool(c) \/ ReadTool(c)

Spec == Init /\ [][Next]_vars

(***************************************************************************)
(* Properties.                                                             *)
(***************************************************************************)

\* Every variable has its type: an outcome is of a kind and with a status code
\* that a tool can give, and what is not yet answered has no outcome.
TypeOK ==
  /\ exists \in SUBSET Ids
  /\ pc \in [Calls -> {"idle", "sent", "answered", "done"}]
  /\ tool \in [Calls -> Tools \cup {"none"}]
  /\ want \in [Calls -> SUBSET Ids]
  /\ params \in [Calls -> BOOLEAN]
  /\ reply \in [Calls -> Replies]
  /\ outcome \in [Calls -> Outcomes]
  /\ attempts \in [Calls -> 0 .. MaxAttempts]
  /\ applied \in [Calls -> Nat]
  /\ shown \in [Calls -> SUBSET Ids]
  /\ cause \in [Calls -> Causes \cup {"none"}]

\* A workflow that calls again only after an error of a kind in RetryKinds has
\* its request carried out at most once: none of these kinds is given to a
\* call whose message, post or list Twitter may have created (error.rs,
\* to_error_response).
AtMostOnce == \A c \in Calls : applied[c] <= 1

\* The output fields are named after what Twitter says (undo-retweet and
\* remove-member) or after what was asked (unfollow, unlike).
FlagOfDone(t) == t \notin {"undo_retweet_tweet", "remove_member"}

\* A tool that returns ok and says that it was done has had its request
\* carried out, and one that says it was not done has not; update-list takes
\* an answer without its field for the second.
OkTellsTruth ==
  \A c \in Calls :
    pc[c] = "done" /\ outcome[c].tag = "ok" /\ tool[c] \in WriteTools =>
      IF outcome[c].flag = FlagOfDone(tool[c]) THEN applied[c] = 1
      ELSE applied[c] = 0 \/ tool[c] = "update_list"

\* A tool that looks up several ids returns ok only with all of them: an
\* answer that names one as missing is an error (error.rs,
\* parse_successful_twitter_response), even when it has the others.
BatchIsComplete ==
  \A c \in Calls :
    pc[c] = "done" /\ outcome[c].tag = "ok" /\ tool[c] \in BatchReads =>
      outcome[c].items = want[c] /\ want[c] \subseteq shown[c]

\* Something that c asked for was missing when Twitter served it.
Missed(c) ==
  \/ cause[c] = "missing"
  \/ ~(want[c] \subseteq shown[c])
  \/ tool[c] \in CollectionReads /\ shown[c] = {}

\* A tool that reads says not_found only when something it was asked for, or
\* what would hold it, was missing, or there was nothing to show.
NotFoundIsHonest ==
  \A c \in Calls :
    pc[c] = "done" /\ outcome[c].kind = "not_found" /\ tool[c] \in ReadTools => Missed(c)

\* The optional parameters of the tools that read direct messages are there to
\* be used (README.md of social-twitter): a call with good credentials for
\* something it may read is not answered with auth.
AuthIsEarned ==
  \A c \in Calls :
    outcome[c].kind = "auth" => cause[c] \in {"credentials", "forbidden"}


-----------------------------------------------------------------------------
(* Why the above holds: what is true of a call between any two steps.       *)

\* The kinds of error that leave open whether the request was carried out.
UnsettledKinds == {"none", "network", "timeout", "parse", "server", "api"}

\* A reply that leaves it open, or says that it was.
Unsettled(a) ==
  \/ a.how \in {"timeout", "broken", "cut"}
  \/ a.how = "answer" /\ a.status = 503 /\ a.code \in {None, 131}
       /\ a.errors \in {NoEntry, Coded(131)}
  \/ a.how = "answer" /\ a.status = 200 /\ a.errors = NoEntry

HasData(a) == a.how = "answer" /\ a.data.given

SaysMissing(a) ==
  /\ a.how = "answer"
  /\ a.status = 404 \/ a.code = 34 \/ a.errors.code = 34 \/ a.errors.text = "not-found"

ShowsNothing(a) ==
  /\ a.how = "answer" /\ a.status = 200 /\ a.errors = NoEntry
  /\ a.data.given => a.data.items = {}

\* A request is carried out once, and once it was, nothing settles it.
OnceInv(c) ==
  /\ applied[c] \in {0, 1}
  /\ pc[c] \in {"idle", "sent"} \/ tool[c] \notin WriteTools => applied[c] = 0
  /\ pc[c] = "answered" /\ applied[c] = 1 => Unsettled(reply[c])
  /\ pc[c] = "done" /\ applied[c] = 1 /\ outcome[c].tag = "err" =>
       outcome[c].kind \in UnsettledKinds

\* The flag of an answer to a tool that writes says what was done.
FlagInv(c) ==
  pc[c] = "answered" /\ tool[c] \in WriteTools /\ HasData(reply[c]) =>
    IF applied[c] = 1
    THEN \/ reply[c].data.flag = FlagWhenDone(tool[c])
         \/ ~reply[c].fits /\ ~reply[c].data.flag
    ELSE tool[c] \notin Creates /\ reply[c].data.flag = ~FlagWhenDone(tool[c])

\* What c was shown, or refused, is what Twitter had when it served it.
ShownInv(c) ==
  pc[c] = "answered" /\ tool[c] \in ReadTools =>
    /\ tool[c] \in BatchReads /\ HasData(reply[c]) /\ reply[c].errors = NoEntry =>
         reply[c].data.items = want[c] /\ want[c] \subseteq shown[c]
    /\ SaysMissing(reply[c]) \/ ShowsNothing(reply[c]) => Missed(c)

OutcomeInv(c) ==
  pc[c] = "done" =>
    /\ outcome[c].tag = "ok" /\ tool[c] \in WriteTools =>
         IF outcome[c].flag = FlagOfDone(tool[c]) THEN applied[c] = 1
         ELSE applied[c] = 0 \/ tool[c] = "update_list"
    /\ outcome[c].tag = "ok" /\ tool[c] \in BatchReads =>
         outcome[c].items = want[c] /\ want[c] \subseteq shown[c]
    /\ outcome[c].kind = "not_found" /\ tool[c] \in ReadTools => Missed(c)

\* Who looks something up names it.
NamesInv(c) == tool[c] \in SingleReads \cup BatchReads => want[c] # {}

CallInv(c) == OnceInv(c) /\ FlagInv(c) /\ ShownInv(c) /\ OutcomeInv(c) /\ NamesInv(c)
=============================================================================
