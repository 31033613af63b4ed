----------------------------- MODULE TwitterReads -----------------------------
(***************************************************************************)
(* What the sixteen tools of social-twitter that read ask for, and what    *)
(* they pass on of the answer: each tool builds the query of its request   *)
(* from its own input, and reads the objects of the page into structs.  A  *)
(* workflow that finds a next_token asks for the next page.                *)
(*                                                                         *)
(* Here every request is served or refused as such; what else can happen   *)
(* to it is in TwitterTools.                                               *)
(***************************************************************************)
EXTENDS Naturals, Sequences, TwitterModels

CONSTANTS
  Inputs,      \* the calls: a tool and the options given to it, by their names
  PAGES        \* how many pages there are to read, of one item each

VARIABLES
  stage,       \* "called", "sent", "answered" or "returned"
  input,       \* the tool and the options of the call
  work,        \* the query sent, the reply to it, the items passed on so far
  output       \* what the tool returned

vars == <<stage, input, work, output>>

Lists ==
  {"tweet_fields", "expansions", "expansions_fields", "media_fields", "poll_fields",
   "user_fields", "place_fields", "list_fields", "dm_event_fields",
   "search_count_fields", "event_types", "exclude"}

given == input.given
Gives(o) == o \in DOMAIN given

Silent ==
  [refused |-> FALSE, data |-> {}, fields |-> {}, includes |-> {}, next |-> 0]
NoOutput == [tag |-> "none", kind |-> "none", items |-> {}, fields |-> {},
             includes |-> {}, next |-> 0]
Err(kind) == [NoOutput EXCEPT !.tag = "err", !.kind = kind]

Init ==
  /\ stage = "called"
  /\ input \in Inputs
  /\ work = [query |-> {}, reply |-> Silent, seen |-> <<>>]
  /\ output = NoOutput

-----------------------------------------------------------------------------
(* The options of each tool (its struct Input), but for who and what it    *)
(* reads.                                                                  *)

TweetOptions ==
  {"tweet_fields", "expansions", "media_fields", "poll_fields", "user_fields",
   "place_fields"}
UserOptions == {"user_fields", "expansions_fields", "tweet_fields"}
Window == {"since_id", "until_id", "start_time", "end_time"}

GetUserTweetsInput ==
  Window \cup TweetOptions \cup {"exclude", "max_results", "pagination_token"}
GetMentionedTweetsInput ==
  Window \cup TweetOptions \cup {"max_results", "pagination_token"}
GetRecentSearchTweetsInput ==
  Window \cup TweetOptions
  \cup {"query", "max_results", "next_token", "pagination_token", "sort_order"}
GetRecentTweetCountInput ==
  Window \cup {"query", "next_token", "pagination_token", "granularity",
               "search_count_fields"}
GetListTweetsInput == TweetOptions \cup {"max_results", "pagination_token"}
GetListMembersInput ==
  {"max_results", "pagination_token", "user_fields", "expansions", "tweet_fields"}
GetUserListsInput ==
  {"max_results", "pagination_token", "list_fields", "expansions", "user_fields"}
GetConversationMessagesInput ==
  {"max_results", "pagination_token", "event_types", "dm_event_fields", "expansions",
   "media_fields", "user_fields", "tweet_fields"}
GetConversationMessagesByIdInput == GetConversationMessagesInput
GetTweetsInput == TweetOptions \cup {"ids"}
GetUsersByIdInput == {"ids", "user_fields", "expansions", "tweet_fields"}
GetUsersByUsernameInput == UserOptions \cup {"usernames"}
GetListInput == {"list_fields", "expansions", "user_fields"}

Options(t) ==
  CASE t = "get_user_tweets" -> GetUserTweetsInput
    [] t = "get_mentioned_tweets" -> GetMentionedTweetsInput
    [] t = "get_recent_search_tweets" -> GetRecentSearchTweetsInput
    [] t = "get_recent_tweet_count" -> GetRecentTweetCountInput
    [] t = "get_list_tweets" -> GetListTweetsInput
    [] t = "get_list_members" -> GetListMembersInput
    [] t = "get_user_lists" -> GetUserListsInput
    [] t = "get_conversation_messages" -> GetConversationMessagesInput
    [] t = "get_conversation_messages_by_id" -> GetConversationMessagesByIdInput
    [] t = "get_tweets" -> GetTweetsInput
    [] t = "get_users_by_id" -> GetUsersByIdInput
    [] t = "get_users_by_username" -> GetUsersByUsernameInput
    [] t \in {"get_user_by_id", "get_user_by_username"} -> UserOptions
    [] t = "get_list" -> GetListInput
    [] t = "get_tweet" -> {}

\* What an option's list may hold: the tools have enumerations of their own.
Choices(t, o) ==
  LET dm == t \in {"get_conversation_messages", "get_conversation_messages_by_id"}
      lists == t \in {"get_list", "get_user_lists"}
      owner == t \in {"get_tweets", "get_list_tweets", "get_list_members", "get_list",
                      "get_user_lists"} IN
  CASE o = "tweet_fields" -> TweetField
    [] o = "media_fields" -> MediaField
    [] o = "poll_fields" -> PollField
    [] o = "place_fields" -> PlaceField
    [] o = "user_fields" /\ lists -> ListUserField
    [] o = "user_fields" /\ dm -> DmUserField
    [] o = "user_fields" /\ ~lists /\ ~dm -> UserField
    [] o = "list_fields" -> ListField
    [] o = "dm_event_fields" -> DmEventField
    [] o = "event_types" -> EventType
    [] o = "exclude" -> ExcludeField
    [] o = "search_count_fields" -> TweetCount.takes
    [] o = "expansions" /\ dm -> DmExpansionField
    [] o = "expansions" /\ owner -> Expansion
    [] o = "expansions" /\ ~dm /\ ~owner -> ExpansionField
    [] o = "expansions_fields" -> ExpansionField

-----------------------------------------------------------------------------
(* The checks of the tools that have any.                                  *)

OutOf(low, high) == Gives("max_results") /\ given["max_results"] \notin low..high
NotATime == \E o \in {"start_time", "end_time"} : Gives(o) /\ given[o] # "rfc3339"

SearchRefuses == OutOf(10, 100) \/ NotATime
MessagesRefuse == OutOf(1, 100)
MessagesByIdRefuse ==
  \/ OutOf(1, 100)
  \/ Gives("pagination_token") /\ given["pagination_token"].length < 16

Refusal ==
  CASE input.tool = "get_recent_search_tweets" /\ SearchRefuses -> "validation"
    [] input.tool = "get_recent_tweet_count" /\ NotATime -> "validation"
    [] input.tool = "get_conversation_messages" /\ MessagesRefuse -> "unknown"
    [] input.tool = "get_conversation_messages_by_id" /\ MessagesByIdRefuse -> "unknown"
    [] OTHER -> "none"

-----------------------------------------------------------------------------
(* The query that each tool makes of its options.                          *)

ParamOf(o) ==
  CASE o = "tweet_fields" -> "tweet.fields"
    [] o = "media_fields" -> "media.fields"
    [] o = "poll_fields" -> "poll.fields"
    [] o = "user_fields" -> "user.fields"
    [] o = "place_fields" -> "place.fields"
    [] o = "list_fields" -> "list.fields"
    [] o = "dm_event_fields" -> "dm_event.fields"
    [] o = "search_count_fields" -> "search_count.fields"
    [] o = "expansions_fields" -> "expansions"
    [] OTHER -> o

Plain(os) == {<<o, given[o]>> : o \in os \cap DOMAIN given}

\* The names go out as serde writes them, without quotes; an empty list too.
Fields(os) == {<<ParamOf(o), given[o]>> : o \in os \cap DOMAIN given}
AddFieldsParam(os) == {q \in Fields(os) : q[2] # {}}

\* The JSON of each name, in its quotes.
Quoted(o) ==
  IF Gives(o) THEN {<<o, {<<"quoted", n>> : n \in given[o]}>>} ELSE {}

NextToken_second ==
  {<<"next_token", given[o]>> :
     o \in IF Gives("pagination_token") THEN {"pagination_token"}
           ELSE {"next_token"} \cap DOMAIN given}
NextToken ==
  {<<"next_token", given[o]>> :
     o \in IF Gives("next_token") THEN {"next_token"}
           ELSE {"pagination_token"} \cap DOMAIN given}

GetUserTweetsQuery ==
  Plain(Window \cup {"max_results", "pagination_token"}) \cup Quoted("exclude")
  \cup Fields(TweetOptions)
GetMentionedTweetsQuery_endless ==
  Plain((Window \ {"end_time"}) \cup {"max_results", "pagination_token"})
  \cup Fields(TweetOptions)
GetMentionedTweetsQuery ==
  Plain(Window \cup {"max_results", "pagination_token"}) \cup Fields(TweetOptions)
GetRecentSearchTweetsQuery ==
  Plain(Window \cup {"query", "max_results", "sort_order"}) \cup NextToken
  \cup AddFieldsParam(TweetOptions)
GetRecentTweetCountQuery ==
  Plain(Window \cup {"query", "granularity"}) \cup NextToken
  \cup AddFieldsParam({"search_count_fields"})
GetListTweetsQuery ==
  Plain({"max_results", "pagination_token"}) \cup Fields(TweetOptions)
GetListMembersQuery ==
  Plain({"max_results", "pagination_token"})
  \cup Fields({"user_fields", "expansions", "tweet_fields"})
GetUserListsQuery ==
  Plain({"max_results", "pagination_token"})
  \cup Fields({"user_fields", "expansions", "list_fields"})
MessageFields ==
  {"dm_event_fields", "expansions", "media_fields", "user_fields", "tweet_fields"}
GetConversationMessagesQuery ==
  Plain({"max_results", "pagination_token"})
  \cup AddFieldsParam(MessageFields \cup {"event_types"})
GetConversationMessagesByIdQuery ==
  Plain({"max_results", "pagination_token", "event_types"})
  \cup AddFieldsParam(MessageFields)
GetTweetsQuery == Plain({"ids"}) \cup AddFieldsParam(TweetOptions)
GetUsersByIdQuery ==
  Plain({"ids"}) \cup AddFieldsParam({"user_fields", "expansions", "tweet_fields"})
GetUsersByUsernameQuery == Plain({"usernames"}) \cup Fields(UserOptions)
GetUserByIdQuery == Fields(UserOptions)
GetUserByUsernameQuery == Fields(UserOptions)
GetListQuery == Fields({"list_fields", "expansions", "user_fields"})

Query ==
  CASE input.tool = "get_user_tweets" -> GetUserTweetsQuery
    [] input.tool = "get_mentioned_tweets" -> GetMentionedTweetsQuery
    [] input.tool = "get_recent_search_tweets" -> GetRecentSearchTweetsQuery
    [] input.tool = "get_recent_tweet_count" -> GetRecentTweetCountQuery
    [] input.tool = "get_list_tweets" -> GetListTweetsQuery
    [] input.tool = "get_list_members" -> GetListMembersQuery
    [] input.tool = "get_user_lists" -> GetUserListsQuery
    [] input.tool = "get_conversation_messages" -> GetConversationMessagesQuery
    [] input.tool = "get_conversation_messages_by_id" -> GetConversationMessagesByIdQuery
    [] input.tool = "get_tweets" -> GetTweetsQuery
    [] input.tool = "get_users_by_id" -> GetUsersByIdQuery
    [] input.tool = "get_users_by_username" -> GetUsersByUsernameQuery
    [] input.tool = "get_user_by_id" -> GetUserByIdQuery
    [] input.tool = "get_user_by_username" -> GetUserByUsernameQuery
    [] input.tool = "get_list" -> GetListQuery
    [] input.tool = "get_tweet" -> {}

Refuse ==
  /\ stage = "called" /\ Refusal # "none"
  /\ stage' = "returned"
  /\ output' = Err(Refusal)
  /\ UNCHANGED <<input, work>>

Send ==
  /\ stage = "called" /\ Refusal = "none"
  /\ stage' = "sent"
  /\ work' = [work EXCEPT !.query = Query]
  /\ UNCHANGED <<input, output>>

-----------------------------------------------------------------------------
(* Twitter.  An object has the fields that objects of its kind always have *)
(* and those asked for.                                                    *)

Searches == {"get_recent_search_tweets", "get_recent_tweet_count"}
Messages == {"get_conversation_messages", "get_conversation_messages_by_id"}
Timelines ==
  Searches \cup Messages \cup
  {"get_user_tweets", "get_mentioned_tweets", "get_list_tweets", "get_list_members",
   "get_user_lists"}

Kind(t) ==
  CASE t \in {"get_tweet", "get_tweets", "get_user_tweets", "get_mentioned_tweets",
              "get_recent_search_tweets", "get_list_tweets"} -> "tweet"
    [] t \in Messages -> "dm_event"
    [] t \in {"get_list", "get_user_lists"} -> "list"
    [] t = "get_recent_tweet_count" -> "search_count"
    [] OTHER -> "user"

Always(kind) ==
  CASE kind = "tweet" -> {"id", "text"}
    [] kind = "user" -> {"id", "name", "username"}
    [] kind = "list" -> {"id", "name"}
    [] kind = "dm_event" -> {"id", "event_type"}
    [] kind = "media" -> {"media_key", "type"}
    [] kind = "poll" -> {"id", "options"}
    [] kind = "place" -> {"id", "full_name"}
    [] kind = "search_count" -> {"start", "end", "tweet_count"}

Expands(kind, e) ==
  CASE kind \in {"tweet", "dm_event"}
         /\ e \in {"attachments.media_keys", "article.cover_media", "article.media_entities",
                   "referenced_tweets.id.attachments.media_keys"} -> "media"
    [] kind = "tweet" /\ e = "attachments.poll_ids" -> "poll"
    [] kind = "tweet" /\ e = "geo.place_id" -> "place"
    [] kind = "tweet"
         /\ e \in {"author_id", "in_reply_to_user_id", "entities.mentions.username",
                   "entities.note.mentions.username", "referenced_tweets.id.author_id"} -> "user"
    [] kind = "tweet" /\ e \in {"edit_history_tweet_ids", "attachments.media_source_tweet"} -> "tweet"
    [] kind \in {"tweet", "dm_event"} /\ e = "referenced_tweets.id" -> "tweet"
    [] kind = "dm_event" /\ e \in {"participant_ids", "sender_id"} -> "user"
    [] kind = "list" /\ e = "owner_id" -> "user"
    [] OTHER -> "none"

Asked(param) == UNION {q[2] : q \in {r \in work.query : r[1] = param}}
FieldsParam(kind) ==
  CASE kind = "tweet" -> "tweet.fields"
    [] kind = "user" -> "user.fields"
    [] kind = "list" -> "list.fields"
    [] kind = "dm_event" -> "dm_event.fields"
    [] kind = "media" -> "media.fields"
    [] kind = "poll" -> "poll.fields"
    [] kind = "place" -> "place.fields"
    [] kind = "search_count" -> "search_count.fields"
Shown(kind) == Always(kind) \cup Asked(FieldsParam(kind))

TokenParam(t) == IF t \in Searches THEN "next_token" ELSE "pagination_token"
Skipped ==
  LET tokens == {q \in work.query : q[1] = TokenParam(input.tool)} IN
  IF tokens = {} THEN 0 ELSE (CHOOSE q \in tokens : TRUE)[2].skips

Pages(t) == IF t \in Timelines THEN PAGES ELSE 1

Included ==
  {[kind |-> k, fields |-> Shown(k)] :
     k \in {Expands(Kind(input.tool), e) : e \in Asked("expansions")} \ {"none"}}

\* After the last item there may be a page of nothing.
Page(n) ==
  {[refused |-> FALSE, data |-> {n}, fields |-> Shown(Kind(input.tool)),
    includes |-> Included, next |-> next] :
     next \in IF n < Pages(input.tool) THEN {n}
              ELSE IF input.tool \in Timelines THEN {0, n} ELSE {0}}

Answer ==
  /\ stage = "sent"
  /\ stage' = "answered"
  /\ \E reply \in
       {[Silent EXCEPT !.refused = TRUE]} \cup
       IF Skipped < Pages(input.tool) THEN Page(Skipped + 1) ELSE {Silent} :
       work' = [work EXCEPT !.reply = reply]
  /\ UNCHANGED <<input, output>>

-----------------------------------------------------------------------------
(* What each tool passes on.                                               *)

Main(t) ==
  CASE t = "get_list_tweets" -> ListTweet
    [] Kind(t) = "tweet" /\ t # "get_list_tweets" -> Tweet
    [] Kind(t) = "user" -> UserData
    [] Kind(t) = "list" -> ListData
    [] Kind(t) = "dm_event" -> DmEvent
    [] OTHER -> TweetCount

TweetsInclude(kind) ==
  CASE kind = "user" -> TweetsUser
    [] kind = "media" -> TweetsMedia
    [] kind = "poll" -> TweetsPoll
    [] kind = "place" -> TweetsPlace
    [] OTHER -> Tweet
DmInclude(kind) ==
  CASE kind = "user" -> DmUser
    [] kind = "media" -> DmMedia
    [] OTHER -> DmTweet

\* Of lists, only owners are ever included.
IncludeStruct(t, kind) ==
  CASE t \in Messages -> DmInclude(kind)
    [] Kind(t) = "tweet" /\ t # "get_list_tweets" -> TweetsInclude(kind)
    [] OTHER -> ListsUser

\* ListResponse has no includes.
ReadsIncludes(t) == t # "get_list"

PassesMeta_not_of_members(t) == t # "get_list_members"
PassesMeta(t) == TRUE

\* The client's tools take an answer without data for a broken one, two tools take it
\* for an empty page, and the others have found nothing.
ByClient ==
  Searches \cup Messages \cup
  {"get_tweets", "get_users_by_id", "get_users_by_username", "get_user_lists"}
OptionalData == {"get_list_tweets", "get_list_members"}

Ok ==
  LET r == work.reply
      t == input.tool
      included == IF ReadsIncludes(t) THEN r.includes ELSE {} IN
  [NoOutput EXCEPT
     !.tag = "ok", !.items = r.data, !.fields = Decoded(r.fields, Main(t)),
     !.includes = {[i EXCEPT !.fields = Decoded(@, IncludeStruct(t, i.kind))] : i \in included},
     !.next = IF PassesMeta(t) THEN r.next ELSE 0]

Reads ==
  LET r == work.reply
      t == input.tool IN
  /\ Decodes(r.fields, Main(t))
  /\ ReadsIncludes(t) =>
       \A i \in r.includes : Decodes(i.fields, IncludeStruct(t, i.kind))

Outcome ==
  LET r == work.reply
      t == input.tool IN
  CASE r.refused -> Err("api")
    [] ~r.refused /\ r.data = {} ->
         IF t \in ByClient THEN Err("parse")
         ELSE IF t \in OptionalData THEN [NoOutput EXCEPT !.tag = "ok"]
         ELSE Err("not_found")
    [] ~r.refused /\ r.data # {} -> IF Reads THEN Ok ELSE Err("parse")

Return ==
  /\ stage = "answered"
  /\ stage' = "returned"
  /\ output' = Outcome
  /\ work' = [query |-> {}, reply |-> Silent,
              seen |-> work.seen \o [n \in 1..IF Outcome.items = {} THEN 0 ELSE 1 |->
                                       CHOOSE i \in Outcome.items : TRUE]]
  /\ UNCHANGED input

\* The workflow puts the next_token of a page into its next call, the searches' under
\* either name of theirs.
NextPage ==
  /\ stage = "returned" /\ output.next # 0
  /\ stage' = "called"
  /\ \E o \in Options(input.tool) \cap {"next_token", "pagination_token"} :
       /\ o = "pagination_token" => ~Gives("next_token")
       /\ input' = [input EXCEPT !.given =
            [p \in DOMAIN given \cup {o} |->
               IF p = o THEN [skips |-> output.next, length |-> 16] ELSE given[p]]]
  /\ output' = NoOutput
  /\ UNCHANGED work

Next == Refuse \/ Send \/ Answer \/ Return \/ NextPage

Spec == Init /\ [][Next]_vars

-----------------------------------------------------------------------------
(* Properties *)

\* Every option that a caller gives is in the request, once and under Twitter's name
\* for it.  But for exclude, whose names keep the quotes of their JSON.
AsksAllThatIsGiven ==
  stage = "sent" =>
    /\ \A o \in DOMAIN given \ {"exclude", "next_token", "pagination_token"} :
         (o \in Lists => given[o] # {}) => <<ParamOf(o), given[o]>> \in work.query
    /\ \A q, r \in work.query : q[1] = r[1] => q = r

\* What is asked for of the objects themselves arrives with them, but for the fields
\* that no struct has a place for; and what is expanded arrives too, but with get_list.
AskedArrives ==
  (stage = "returned" /\ output.items # {}) =>
    LET kind == Kind(input.tool) IN
    /\ \A o \in DOMAIN given : ParamOf(o) = FieldsParam(kind) =>
         given[o] \ output.fields \subseteq
           {"article", "card_uri", "display_text_range", "media_metadata",
            "is_identity_verified", "parody", "subscription", "verified_followers_count"}
    /\ \A o \in DOMAIN given : ParamOf(o) = "expansions" /\ input.tool # "get_list" =>
         \A e \in given[o] : Expands(kind, e) # "none" =>
           \E i \in output.includes : i.kind = Expands(kind, e)

\* A page is lost to its expansions only where tweet/models.rs needs more of a user or
\* a poll than is always there: protected, and the three fields of a poll.
LostToExpansion ==
  (stage = "returned" /\ output.kind = "parse" /\ work.seen = <<>>) =>
    /\ input.tool \in {"get_user_tweets", "get_mentioned_tweets", "get_recent_search_tweets"}
    /\ \E e \in given["expansions"] :
         \/ /\ Expands("tweet", e) = "user"
            /\ Gives("user_fields") => "protected" \notin given["user_fields"]
         \/ /\ Expands("tweet", e) = "poll"
            /\ Gives("poll_fields") =>
                 ~({"duration_minutes", "end_datetime", "voting_status"}
                     \subseteq given["poll_fields"])

\* Whoever follows next_token sees every item once and in order, and all of them when
\* the last page says that there is no more, or that nothing was found.
PagesInOrder ==
  /\ work.seen = [n \in 1..Len(work.seen) |-> n]
  /\ (stage = "returned" /\ output.next = 0 /\ (output.tag = "ok" \/ output.kind = "not_found"))
       => Len(work.seen) = Pages(input.tool)

=============================================================================
