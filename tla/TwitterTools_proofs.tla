------------------------ MODULE TwitterTools_proofs ------------------------
(***************************************************************************)
(* Proofs about TwitterTools, for any calls, ids and number of attempts.   *)
(***************************************************************************)
EXTENDS TwitterTools, TLAPS

Results == [ok : BOOLEAN, data : Data, err : Outcomes]

\* What the readers of replies return has its type.
LEMMA ResultTypes ==
  ASSUME NEW a \in Replies
  PROVE  /\ ParseTwitterResponse(a) \in Results
         /\ ClientResult(a) \in Results
         /\ RawResult(a) \in Results
<1>1. /\ NoOutcome \in Outcomes
      /\ NoData \in Data
      /\ \A k \in ErrorKinds, s \in Statuses \cup {500} : Err(k, s) \in Outcomes
  <2>1. "none" \in ErrorKinds /\ None \in Statuses
    BY DEF ErrorKinds, Statuses, None
  <2>2. NoOutcome \in Outcomes
    BY <2>1 DEF Outcomes, NoOutcome, Outcome
  <2>3. NoData \in Data
    BY DEF Data, NoData
  <2>4. \A k \in ErrorKinds, s \in Statuses \cup {500} : Err(k, s) \in Outcomes
    BY DEF Err, Outcomes, Outcome
  <2> QED BY <2>2, <2>3, <2>4
<1>2. /\ \A e \in Outcomes : Failure(e) \in Results
      /\ Response(a.data) \in Results
  BY <1>1 DEF Failure, Response, Results, Replies
<1>3. NetworkError(a.how) \in Outcomes
  BY <1>1 DEF NetworkError, ErrorKinds, Statuses, None
<1>4. \A x : ApiError(x) \in Outcomes
  BY <1>1 DEF ApiError, ErrorKinds, Statuses, None
<1>5. \A s \in Statuses : StatusError(s) \in Outcomes
  BY <1>1 DEF StatusError, ErrorKinds, Statuses, None
<1>6. ParseError \in Outcomes /\ RawError \in Outcomes
  BY <1>1 DEF ParseError, RawError, ErrorKinds, Statuses, None
<1>7. ParseSuccessful(a) \in Results
  BY <1>2, <1>4, <1>6 DEF ParseSuccessful
<1>8. ParseFailed(a) \in Results
  BY <1>2, <1>4, <1>5 DEF ParseFailed, Replies
<1>9. ParseTwitterResponse(a) \in Results
  BY <1>2, <1>3, <1>7, <1>8 DEF ParseTwitterResponse
<1>10. ClientResult(a) \in Results
  BY <1>2, <1>6, <1>9 DEF ClientResult
<1>11. RawResult(a) \in Results
  BY <1>2, <1>6 DEF RawResult
<1> QED BY <1>9, <1>10, <1>11


\* What Twitter sends, whole, cut or not at all, is a reply.
LEMMA ReplyTypes ==
  /\ NoData \in Data
  /\ NoReply \in Replies
  /\ \A how \in Fates : Lost(how) \in Replies
  /\ \A a \in Replies : Delivered(a) \subseteq Replies
  /\ \A s \in Statuses, d \in Data : Answer(s, d) \in Replies
  /\ \A why \in Causes : Refusals(why) \subseteq Replies
<1>1. NoData \in Data
  BY DEF NoData, Data
<1>2. NoEntry \in Entries /\ None \in Statuses /\ None \in Codes
  BY DEF NoEntry, Entries, Statuses, Codes, None
<1>3. \A s \in Statuses, d \in Data : Answer(s, d) \in Replies
  BY <1>2 DEF Answer, Replies, Fates
<1>4. \A how \in Fates : Lost(how) \in Replies
  BY <1>1, <1>2 DEF Lost, Answer, Replies
<1>5. \A a \in Replies : Delivered(a) \subseteq Replies
  BY <1>4 DEF Delivered, Fates
<1>6. ASSUME NEW why \in Causes
      PROVE  Refusals(why) \subseteq Replies
  <2>1. StatusOf(why) \in Statuses /\ CodeOf(why) \in Codes
    BY DEF StatusOf, CodeOf, Statuses, Codes, None
  <2>2. Coded(CodeOf(why)) \in Entries
    BY <2>1 DEF Coded, Entries, Texts
  <2>3. \A x \in TextsOf(why) : Typed(x) \in Entries
    BY <1>2 DEF TextsOf, Typed, Entries, Texts
  <2>4. Answer(200, NoData) \in Replies /\ Answer(StatusOf(why), NoData) \in Replies
    BY <1>1, <1>3, <2>1 DEF Statuses
  <2>5. \A a \in Replies : /\ [a EXCEPT !.code = CodeOf(why)] \in Replies
                           /\ [a EXCEPT !.detail = TRUE] \in Replies
                           /\ [a EXCEPT !.json = FALSE] \in Replies
                           /\ \A e \in Entries : [a EXCEPT !.errors = e] \in Replies
    BY <2>1 DEF Replies
  <2>6. /\ [Answer(StatusOf(why), NoData) EXCEPT !.code = CodeOf(why)] \in Replies
        /\ [Answer(StatusOf(why), NoData) EXCEPT !.errors = Coded(CodeOf(why))] \in Replies
        /\ [Answer(StatusOf(why), NoData) EXCEPT !.detail = TRUE] \in Replies
        /\ [Answer(StatusOf(why), NoData) EXCEPT !.json = FALSE] \in Replies
    <3> DEFINE a == Answer(StatusOf(why), NoData)
               e == Coded(CodeOf(why))
    <3>1. a \in Replies /\ e \in Entries
      BY <2>2, <2>4
    <3> HIDE DEF a, e
    <3>2. /\ [a EXCEPT !.code = CodeOf(why)] \in Replies
          /\ [a EXCEPT !.detail = TRUE] \in Replies
          /\ [a EXCEPT !.json = FALSE] \in Replies
          /\ [a EXCEPT !.errors = e] \in Replies
      BY <2>5, <3>1
    <3> QED BY <3>2 DEF a, e
  <2>7. ASSUME NEW x \in TextsOf(why)
        PROVE  [Answer(200, NoData) EXCEPT !.errors = Typed(x)] \in Replies
    <3> DEFINE a == Answer(200, NoData)
               e == Typed(x)
    <3>1. a \in Replies /\ e \in Entries
      BY <2>3, <2>4, <2>7
    <3> HIDE DEF a, e
    <3>2. [a EXCEPT !.errors = e] \in Replies
      BY <2>5, <3>1
    <3> QED BY <3>2 DEF a, e
  <2> QED BY <2>6, <2>7, Zenon DEF Refusals
<1> QED BY <1>1, <1>3, <1>4, <1>5, <1>6 DEF NoReply, Fates


(***************************************************************************)
(* Type correctness                                                        *)
(***************************************************************************)

\* What a tool makes of Twitter's data has the type of an outcome.
LEMMA OutcomeTypes ==
  /\ NoOutcome \in Outcomes /\ Pending \in Outcomes
  /\ RawError \in Outcomes
  /\ \A k \in ErrorKinds, s \in Statuses : Err(k, s) \in Outcomes
  /\ \A b \in BOOLEAN : OkFlag(b) \in Outcomes
  /\ \A x \in SUBSET Ids : OkItems(x) \in Outcomes
  /\ \A d \in Data : /\ GivenOrNotFound(d) \in Outcomes
                     /\ SomeOrNotFound(d, None) \in Outcomes
                     /\ SomeOrNotFound(d, 404) \in Outcomes
<1>1. /\ {"none", "not_found"} \subseteq ErrorKinds
      /\ {None, 404} \subseteq Statuses
  BY DEF ErrorKinds, Statuses, None
<1>2. /\ NoOutcome \in Outcomes /\ Pending \in Outcomes
      /\ \A k \in ErrorKinds, s \in Statuses : Err(k, s) \in Outcomes
      /\ \A b \in BOOLEAN : OkFlag(b) \in Outcomes
      /\ \A x \in SUBSET Ids : OkItems(x) \in Outcomes
  BY <1>1 DEF NoOutcome, Pending, Err, OkFlag, OkItems, Outcome, Outcomes
<1>3. RawError \in Outcomes
  BY <1>1, <1>2 DEF RawError
<1>4. \A d \in Data : /\ GivenOrNotFound(d) \in Outcomes
                      /\ SomeOrNotFound(d, None) \in Outcomes
                      /\ SomeOrNotFound(d, 404) \in Outcomes
  BY <1>1, <1>2 DEF GivenOrNotFound, SomeOrNotFound, NotFound, Data
<1> QED BY <1>2, <1>3, <1>4

LEMMA ConcludeType ==
  ASSUME TypeOK, NEW c \in Calls, NEW t, NEW out \in Outcomes, Conclude(c, t, out)
  PROVE  TypeOK'
BY ReplyTypes DEF TypeOK, Conclude, Return, input

LEMMA WriteToolType ==
  ASSUME TypeOK, NEW c \in Calls, WriteTool(c)
  PROVE  TypeOK'
<1>1. reply[c] \in Replies /\ [reply[c] EXCEPT !.code = None] \in Replies
  BY DEF TypeOK, Replies, Codes, None
<1>2. /\ ClientResult(reply[c]) \in Results
      /\ RawResult(reply[c]) \in Results
      /\ RawResult([reply[c] EXCEPT !.code = None]) \in Results
  BY <1>1, ResultTypes
<1>3. \A r \in Results, o \in Outcomes : Through(r, o) \in Outcomes
  BY DEF Through, Results
<1>4. \A r \in Results : r.data.flag \in BOOLEAN /\ (~r.data.flag) \in BOOLEAN
  BY DEF Results, Data
<1>5. CASE FollowUser(c) BY <1>2, <1>3, <1>4, <1>5, OutcomeTypes, ConcludeType DEF FollowUser
<1>6. CASE UnfollowUser(c) BY <1>2, <1>3, <1>4, <1>6, OutcomeTypes, ConcludeType DEF UnfollowUser
<1>7. CASE LikeTweet(c) BY <1>2, <1>3, <1>4, <1>7, OutcomeTypes, ConcludeType DEF LikeTweet
<1>8. CASE UnlikeTweet(c) BY <1>2, <1>3, <1>4, <1>8, OutcomeTypes, ConcludeType DEF UnlikeTweet
<1>9. CASE RetweetTweet(c) BY <1>2, <1>3, <1>4, <1>9, OutcomeTypes, ConcludeType DEF RetweetTweet
<1>10. CASE UndoRetweetTweet(c) BY <1>2, <1>3, <1>4, <1>10, OutcomeTypes, ConcludeType DEF UndoRetweetTweet
<1>11. CASE PostTweet(c) BY <1>2, <1>3, <1>11, OutcomeTypes, ConcludeType DEF PostTweet
<1>12. CASE DeleteTweet(c) BY <1>2, <1>3, <1>4, <1>12, OutcomeTypes, ConcludeType DEF DeleteTweet
<1>13. CASE CreateList(c) BY <1>2, <1>3, <1>13, OutcomeTypes, ConcludeType DEF CreateList
<1>14. CASE UpdateList(c) BY <1>2, <1>3, <1>4, <1>14, OutcomeTypes, ConcludeType DEF UpdateList
<1>15. CASE DeleteList(c) BY <1>2, <1>3, <1>4, <1>15, OutcomeTypes, ConcludeType DEF DeleteList
<1>16. CASE AddMember(c) BY <1>2, <1>3, <1>4, <1>16, OutcomeTypes, ConcludeType DEF AddMember
<1>17. CASE RemoveMember(c) BY <1>2, <1>3, <1>4, <1>17, OutcomeTypes, ConcludeType DEF RemoveMember
<1>18. CASE SendDirectMessage(c) BY <1>2, <1>3, <1>18, OutcomeTypes, ConcludeType DEF SendDirectMessage
<1>19. CASE CreateGroupConversation(c) BY <1>2, <1>3, <1>19, OutcomeTypes, ConcludeType DEF CreateGroupConversation
<1>20. CASE SendMessageToGroupConversation(c) BY <1>2, <1>3, <1>20, OutcomeTypes, ConcludeType DEF SendMessageToGroupConversation
<1> QED BY <1>5, <1>6, <1>7, <1>8, <1>9, <1>10, <1>11, <1>12, <1>13, <1>14, <1>15, <1>16, <1>17, <1>18, <1>19, <1>20 DEF WriteTool


LEMMA ReadToolType ==
  ASSUME TypeOK, NEW c \in Calls, ReadTool(c)
  PROVE  TypeOK'
<1>1. reply[c] \in Replies
  BY DEF TypeOK
<1>2. ClientResult(reply[c]) \in Results /\ ParseTwitterResponse(reply[c]) \in Results
  BY <1>1, ResultTypes
<1>3. \A r \in Results, o \in Outcomes : Through(r, o) \in Outcomes
  BY DEF Through, Results
<1>4. \A r \in Results : r.data \in Data /\ r.data.items \in SUBSET Ids
  BY DEF Results, Data
<1>5. CASE GetTweet(c) BY <1>2, <1>3, <1>4, <1>5, OutcomeTypes, ConcludeType DEF GetTweet
<1>6. CASE GetUserById(c) BY <1>2, <1>3, <1>4, <1>6, OutcomeTypes, ConcludeType DEF GetUserById
<1>7. CASE GetUserByUsername(c) BY <1>2, <1>3, <1>4, <1>7, OutcomeTypes, ConcludeType DEF GetUserByUsername
<1>8. CASE GetList(c) BY <1>2, <1>3, <1>4, <1>8, OutcomeTypes, ConcludeType DEF GetList
<1>9. CASE GetTweets(c) BY <1>2, <1>3, <1>4, <1>9, OutcomeTypes, ConcludeType DEF GetTweets
<1>10. CASE GetUsersById(c) BY <1>2, <1>3, <1>4, <1>10, OutcomeTypes, ConcludeType DEF GetUsersById
<1>11. CASE GetUsersByUsername(c) BY <1>2, <1>3, <1>4, <1>11, OutcomeTypes, ConcludeType DEF GetUsersByUsername
<1>12. CASE GetUserTweets(c) BY <1>2, <1>3, <1>4, <1>12, OutcomeTypes, ConcludeType DEF GetUserTweets
<1>13. CASE GetMentionedTweets(c) BY <1>2, <1>3, <1>4, <1>13, OutcomeTypes, ConcludeType DEF GetMentionedTweets
<1>14. CASE GetRecentSearchTweets(c) BY <1>2, <1>3, <1>4, <1>14, OutcomeTypes, ConcludeType DEF GetRecentSearchTweets
<1>15. CASE GetRecentTweetCount(c) BY <1>2, <1>3, <1>4, <1>15, OutcomeTypes, ConcludeType DEF GetRecentTweetCount
<1>16. CASE GetListMembers(c) BY <1>2, <1>3, <1>4, <1>16, OutcomeTypes, ConcludeType DEF GetListMembers
<1>17. CASE GetListTweets(c) BY <1>2, <1>3, <1>4, <1>17, OutcomeTypes, ConcludeType DEF GetListTweets
<1>18. CASE GetUserLists(c) BY <1>2, <1>3, <1>4, <1>18, OutcomeTypes, ConcludeType DEF GetUserLists
<1>19. CASE GetConversationMessages(c) BY <1>2, <1>3, <1>4, <1>19, OutcomeTypes, ConcludeType DEF GetConversationMessages
<1>20. CASE GetConversationMessagesById(c) BY <1>2, <1>3, <1>4, <1>20, OutcomeTypes, ConcludeType DEF GetConversationMessagesById
<1> QED BY <1>5, <1>6, <1>7, <1>8, <1>9, <1>10, <1>11, <1>12, <1>13, <1>14, <1>15, <1>16, <1>17, <1>18, <1>19, <1>20 DEF ReadTool

LEMMA WorkflowType ==
  ASSUME TypeOK, NEW c \in Calls, Workflow(c)
  PROVE  TypeOK'
<1> USE RetryAssumption
<1>1. ASSUME Choose(c)
      PROVE  /\ tool' \in [Calls -> Tools \cup {"none"}]
             /\ want' \in [Calls -> SUBSET Ids]
             /\ params' \in [Calls -> BOOLEAN]
             /\ attempts' \in [Calls -> 0 .. MaxAttempts]
  <2>1. \A t \in Tools : Wants(t) \subseteq SUBSET Ids
    BY DEF Wants
  <2>2. PICK t \in Tools :
          /\ tool' = [tool EXCEPT ![c] = t]
          /\ \E w \in Wants(t) : want' = [want EXCEPT ![c] = w]
          /\ \E p \in BOOLEAN : params' = [params EXCEPT ![c] = p]
    BY <1>1 DEF Choose
  <2>3. attempts' = [attempts EXCEPT ![c] = 1] /\ 1 \in 0 .. MaxAttempts
    BY <1>1 DEF Choose
  <2>4. want' \in [Calls -> SUBSET Ids]
    BY <2>1, <2>2 DEF TypeOK
  <2> QED BY <2>2, <2>3, <2>4 DEF TypeOK
<1>2. CASE Send(c)
  BY <1>1, <1>2 DEF Send, TypeOK
<1>3. CASE RefuseInput(c)
  <2>1. BadInputKind(tool'[c]) \in ErrorKinds
    BY DEF BadInputKind, ErrorKinds
  <2>2. Err(BadInputKind(tool'[c]), None) \in Outcomes
    BY <2>1, OutcomeTypes DEF Statuses, None
  <2> QED BY <1>1, <1>3, <2>1, <2>2 DEF RefuseInput, Return, TypeOK
<1>4. CASE WorkflowRetries(c)
  BY <1>4, OutcomeTypes DEF WorkflowRetries, input, TypeOK
<1> QED BY <1>2, <1>3, <1>4 DEF Workflow


LEMMA TwitterType ==
  ASSUME TypeOK, NEW c \in Calls, Twitter(c)
  PROVE  TypeOK'
<1>1. \A a \in Replies : Replied(c, a) =>
        pc' \in [Calls -> {"idle", "sent", "answered", "done"}] /\ reply' \in [Calls -> Replies]
  BY DEF Replied, TypeOK
<1>2. CASE NeverArrives(c)
  <2>1. PICK how \in Fates : Replied(c, Lost(how))
    BY <1>2 DEF NeverArrives, Fates
  <2> QED BY <1>1, <1>2, <2>1, ReplyTypes DEF NeverArrives, input, TypeOK
<1>3. CASE Refuse(c)
  <2>1. PICK why \in Causes :
          /\ \E answer \in Refusals(why) : \E a \in Delivered(answer) : Replied(c, a)
          /\ cause' = [cause EXCEPT ![c] = why]
          /\ UNCHANGED applied \/ applied' = [applied EXCEPT ![c] = @ + 1]
    BY <1>3 DEF Refuse
  <2>2. \E a \in Replies : Replied(c, a)
    BY <2>1, ReplyTypes
  <2>3. applied' \in [Calls -> Nat]
    BY <2>1 DEF TypeOK
  <2>4. cause' \in [Calls -> Causes \cup {"none"}]
    BY <2>1 DEF TypeOK
  <2> QED BY <1>1, <1>3, <2>2, <2>3, <2>4 DEF Refuse, input, TypeOK
<1>4. CASE Carry(c)
  <2> DEFINE answer == Answer(200, [NoData EXCEPT !.given = TRUE, !.flag = FlagWhenDone(tool[c])])
             other == [answer EXCEPT !.fits = FALSE, !.data.flag = FALSE]
  <2>1. answer \in Replies
    <3>1. [NoData EXCEPT !.given = TRUE, !.flag = FlagWhenDone(tool[c])] \in Data
      BY DEF NoData, Data, FlagWhenDone
    <3> QED BY <3>1, ReplyTypes DEF Statuses
  <2> HIDE DEF answer
  <2>2. other \in Replies
    BY <2>1 DEF Replies, Data
  <2> HIDE DEF other
  <2>3. \E a \in Delivered(answer) \cup {other} : Replied(c, a)
    BY <1>4 DEF Carry, answer, other
  <2>4. \E a \in Replies : Replied(c, a)
    BY <2>1, <2>2, <2>3, ReplyTypes
  <2> QED BY <1>1, <1>4, <2>4 DEF Carry, input, TypeOK
<1>5. CASE Decline(c)
  <2> DEFINE data == [NoData EXCEPT !.given = TRUE, !.flag = ~FlagWhenDone(tool[c])]
  <2>1. PICK p \in BOOLEAN :
          \E a \in Delivered(Answer(200, [data EXCEPT !.pending = p])) : Replied(c, a)
    BY <1>5 DEF Decline
  <2>2. [data EXCEPT !.pending = p] \in Data
    BY DEF NoData, Data, FlagWhenDone
  <2>3. \E a \in Replies : Replied(c, a)
    BY <2>1, <2>2, ReplyTypes DEF Statuses
  <2> QED BY <1>1, <1>5, <2>3 DEF Decline, input, TypeOK
<1>6. CASE Show(c)
  <2>1. Found(c) \in SUBSET Ids
    BY DEF Found, TypeOK
  <2>2. ShowAnswers(c) \subseteq Replies
    <3>1. MissingEntry(c) \in Entries
      BY DEF MissingEntry, NoEntry, Typed, Entries, Texts, Codes, None
    <3>2. [NoData EXCEPT !.given = TRUE, !.items = Found(c)] \in Data
      BY <2>1 DEF NoData, Data
    <3>3. \A a \in Replies : /\ [a EXCEPT !.errors = MissingEntry(c)] \in Replies
                             /\ [a EXCEPT !.fits = FALSE] \in Replies
      BY <3>1 DEF Replies
    <3>4. Given(c) \in Replies /\ Absent(c) \in Replies
      <4>1. \A d \in Data : Answer(200, d) \in Replies
        BY ReplyTypes DEF Statuses
      <4>2. Answer(200, [NoData EXCEPT !.given = TRUE, !.items = Found(c)]) \in Replies
        BY <3>2, <4>1, Zenon
      <4>3. Answer(200, NoData) \in Replies
        BY <4>1, ReplyTypes, Zenon
      <4> QED BY <3>3, <4>2, <4>3, Zenon DEF Given, Absent
    <3>5. [Given(c) EXCEPT !.fits = FALSE] \in Replies
      BY <3>3, <3>4
    <3> QED BY <3>4, <3>5 DEF ShowAnswers
  <2>3. \E a \in Replies : Replied(c, a)
    BY <1>6, <2>2, ReplyTypes DEF Show
  <2> QED BY <1>1, <1>6, <2>1, <2>3 DEF Show, input, TypeOK
<1> QED BY <1>2, <1>3, <1>4, <1>5, <1>6 DEF Twitter

\* Every variable keeps its type, for any calls, ids and bounds.
THEOREM TypeCorrect == Spec => []TypeOK
<1>1. Init => TypeOK
  BY ReplyTypes, OutcomeTypes, RetryAssumption DEF Init, TypeOK
<1>2. ASSUME TypeOK, [Next]_vars
      PROVE  TypeOK'
  <2>1. CASE UNCHANGED vars
    BY <1>2, <2>1 DEF vars, TypeOK
  <2>2. CASE Others
    BY <1>2, <2>2 DEF Others, input, TypeOK
  <2>3. ASSUME NEW c \in Calls, Workflow(c) \/ Twitter(c) \/ WriteTool(c) \/ ReadTool(c)
        PROVE  TypeOK'
    BY <1>2, <2>3, WorkflowType, TwitterType, WriteToolType, ReadToolType
  <2> QED BY <1>2, <2>1, <2>2, <2>3 DEF Next
<1> QED BY <1>1, <1>2, PTL DEF Spec

(***************************************************************************)
(* What the readers of replies return                                      *)
(***************************************************************************)

\* A response is made of an answer that has no error entry, and of its data.
LEMMA OkResults ==
  ASSUME NEW a \in Replies
  PROVE  /\ ParseTwitterResponse(a).ok =>
              /\ a.how = "answer" /\ a.status = 200 /\ a.errors = NoEntry
              /\ a.data.given => a.fits
              /\ ParseTwitterResponse(a).data = a.data
         /\ ClientResult(a).ok =>
              /\ HasData(a) /\ a.status = 200 /\ a.errors = NoEntry /\ a.fits
              /\ ClientResult(a).data = a.data
         /\ RawResult(a).ok =>
              HasData(a) /\ a.errors = NoEntry /\ RawResult(a).data = a.data
<1>1. \A s \in Statuses : s \in 200 .. 299 => s = 200
  BY DEF Statuses, None
<1>2. ASSUME ParseTwitterResponse(a).ok
      PROVE  /\ a.how = "answer" /\ a.status = 200 /\ a.errors = NoEntry
             /\ a.data.given => a.fits
             /\ ParseTwitterResponse(a).data = a.data
  <2>1. a.how = "answer"
    BY <1>2 DEF ParseTwitterResponse, Failure
  <2>2. a.status \in 200 .. 299 /\ ParseTwitterResponse(a) = ParseSuccessful(a)
    BY <1>2, <2>1 DEF ParseTwitterResponse, ParseFailed, Failure
  <2>3. a.status = 200
    BY <1>1, <2>2 DEF Replies
  <2>4. Deserializes(a) /\ ~HasEntry(a) /\ ParseSuccessful(a) = Response(a.data)
    BY <1>2, <2>2 DEF ParseSuccessful, Failure
  <2> QED BY <2>1, <2>2, <2>3, <2>4 DEF Deserializes, HasEntry, Response
<1>3. ClientResult(a).ok =>
        /\ ParseTwitterResponse(a).ok /\ ParseTwitterResponse(a).data.given
        /\ ClientResult(a) = ParseTwitterResponse(a)
  BY DEF ClientResult, Failure
<1>4. RawResult(a).ok =>
        HasData(a) /\ a.errors = NoEntry /\ RawResult(a).data = a.data
  BY DEF RawResult, Failure, Response, HasData, HasEntry
<1> QED BY <1>2, <1>3, <1>4 DEF HasData

\* The kind of an error settles nothing that the reply leaves open.
LEMMA UnsettledErrors ==
  ASSUME NEW a \in Replies, Unsettled(a)
  PROVE  /\ ~ParseTwitterResponse(a).ok => ParseTwitterResponse(a).err.kind \in UnsettledKinds
         /\ ~ClientResult(a).ok => ClientResult(a).err.kind \in UnsettledKinds
<1> DEFINE r == ParseTwitterResponse(a)
<1>1. ASSUME ~r.ok PROVE r.err.kind \in UnsettledKinds
  <2>1. CASE a.how \in {"timeout", "broken", "cut"}
    <3>1. r = Failure(NetworkError(a.how))
      BY <2>1 DEF ParseTwitterResponse
    <3>2. NetworkError(a.how).kind \in UnsettledKinds
      BY <2>1 DEF NetworkError, Err, Outcome, UnsettledKinds
    <3> QED BY <3>1, <3>2 DEF Failure
  <2>2. CASE a.how = "answer" /\ a.status = 503 /\ a.code \in {None, 131}
               /\ a.errors \in {NoEntry, Coded(131)}
    <3>1. r = ParseFailed(a)
      BY <2>2 DEF ParseTwitterResponse
    <3>2. StatusError(503).kind \in UnsettledKinds
      BY DEF StatusError, Err, Outcome, UnsettledKinds
    <3>3. ApiError("plain").kind \in UnsettledKinds
      BY DEF ApiError, Err, Outcome, UnsettledKinds
    <3>4. a.code # None => CodeText(a.code) = "plain"
      BY <2>2 DEF CodeText
    <3>5. HasEntry(a) => EntryText(a.errors) = "plain"
      BY <2>2 DEF HasEntry, EntryText, Coded
    <3> QED BY <2>2, <3>1, <3>2, <3>3, <3>4, <3>5 DEF ParseFailed, Failure
  <2>3. CASE a.how = "answer" /\ a.status = 200 /\ a.errors = NoEntry
    <3>1. r = ParseSuccessful(a)
      BY <2>3 DEF ParseTwitterResponse
    <3>2. r = Failure(ParseError) \/ r = Response(a.data)
      BY <2>3, <3>1 DEF ParseSuccessful, HasEntry
    <3> QED BY <1>1, <3>2 DEF Failure, Response, ParseError, Err, Outcome, UnsettledKinds
  <2> QED BY <2>1, <2>2, <2>3 DEF Unsettled
<1>2. ASSUME ~ClientResult(a).ok PROVE ClientResult(a).err.kind \in UnsettledKinds
  <2>1. ClientResult(a) = Failure(ParseError) \/ ClientResult(a) = r
    BY DEF ClientResult
  <2> QED BY <1>1, <1>2, <2>1 DEF Failure, ParseError, Err, Outcome, UnsettledKinds
<1> QED BY <1>1, <1>2

\* An error of kind not_found is of an answer that says that something is
\* missing, whichever way it says it.
LEMMA NotFoundErrors ==
  ASSUME NEW a \in Replies
  PROVE  /\ ~ParseTwitterResponse(a).ok /\ ParseTwitterResponse(a).err.kind = "not_found"
              => SaysMissing(a)
         /\ ~ClientResult(a).ok /\ ClientResult(a).err.kind = "not_found" => SaysMissing(a)
<1> DEFINE r == ParseTwitterResponse(a)
<1>1. ASSUME ~r.ok, r.err.kind = "not_found" PROVE SaysMissing(a)
  <2>1. a.how = "answer"
    BY <1>1 DEF ParseTwitterResponse, Failure, NetworkError, Err, Outcome
  <2>2. \A x : ApiError(x).kind = "not_found" => x = "not-found"
    BY DEF ApiError, Err, Outcome
  <2>3. CASE r = ParseSuccessful(a)
    <3>1. r = Failure(ApiError(a.errors.text))
      BY <1>1, <2>3 DEF ParseSuccessful, Failure, Response, ParseError, Err, Outcome
    <3> QED BY <1>1, <2>1, <2>2, <3>1 DEF Failure, SaysMissing
  <2>4. CASE r = ParseFailed(a)
    <3>1. CASE r = Failure(ApiError(CodeText(a.code)))
      <4>1. CodeText(a.code) = "not-found"
        BY <1>1, <2>2, <3>1 DEF Failure
      <4> QED BY <2>1, <4>1 DEF CodeText, SaysMissing
    <3>2. CASE r = Failure(ApiError(EntryText(a.errors)))
      <4>1. EntryText(a.errors) = "not-found"
        BY <1>1, <2>2, <3>2 DEF Failure
      <4>2. a.errors.code = 34 \/ a.errors.text = "not-found"
        BY <4>1 DEF EntryText, CodeText
      <4> QED BY <2>1, <4>2 DEF SaysMissing
    <3>3. CASE r = Failure(StatusError(a.status))
      <4>1. StatusError(a.status).kind = "not_found"
        BY <1>1, <3>3 DEF Failure
      <4>2. a.status = 404
        BY <4>1 DEF StatusError, Err, Outcome
      <4> QED BY <2>1, <4>2 DEF SaysMissing
    <3> QED BY <2>4, <3>1, <3>2, <3>3 DEF ParseFailed
  <2> QED BY <2>1, <2>3, <2>4 DEF ParseTwitterResponse
<1>2. ASSUME ~ClientResult(a).ok, ClientResult(a).err.kind = "not_found" PROVE SaysMissing(a)
  <2>1. ClientResult(a) = Failure(ParseError) \/ ClientResult(a) = r
    BY DEF ClientResult
  <2> QED BY <1>1, <1>2, <2>1 DEF Failure, ParseError, Err, Outcome
<1> QED BY <1>1, <1>2

\* A reply that is no response makes an error.
LEMMA ErrResults ==
  ASSUME NEW a \in Replies
  PROVE  /\ ~ParseTwitterResponse(a).ok => ParseTwitterResponse(a).err.tag = "err"
         /\ ~ClientResult(a).ok => ClientResult(a).err.tag = "err"
         /\ ~RawResult(a).ok => RawResult(a).err = RawError
<1>1. \A k, s : Err(k, s).tag = "err"
  BY DEF Err, Outcome
<1>2. /\ NetworkError(a.how).tag = "err" /\ ParseError.tag = "err"
      /\ StatusError(a.status).tag = "err"
      /\ \A x : ApiError(x).tag = "err"
  BY <1>1 DEF NetworkError, ParseError, StatusError, ApiError
<1>3. ~ParseSuccessful(a).ok => ParseSuccessful(a).err.tag = "err"
  BY <1>2 DEF ParseSuccessful, Failure, Response
<1>4. ParseFailed(a).err.tag = "err"
  BY <1>2 DEF ParseFailed, Failure
<1>5. ~ParseTwitterResponse(a).ok => ParseTwitterResponse(a).err.tag = "err"
  BY <1>2, <1>3, <1>4 DEF ParseTwitterResponse, Failure
<1>6. ~ClientResult(a).ok => ClientResult(a).err.tag = "err"
  BY <1>2, <1>5 DEF ClientResult, Failure
<1>7. ~RawResult(a).ok => RawResult(a).err = RawError
  BY DEF RawResult, Failure, Response
<1> QED BY <1>5, <1>6, <1>7

(***************************************************************************)
(* The invariant of a call                                                 *)
(***************************************************************************)

\* It is about the call's own state alone.
LEMMA Frame ==
  ASSUME NEW q \in Calls, CallInv(q),
         pc'[q] = pc[q], tool'[q] = tool[q], want'[q] = want[q], reply'[q] = reply[q],
         outcome'[q] = outcome[q], applied'[q] = applied[q], shown'[q] = shown[q],
         cause'[q] = cause[q]
  PROVE  CallInv(q)'
BY DEF CallInv, OnceInv, FlagInv, ShownInv, OutcomeInv, NamesInv, Missed

\* The step of another call.
LEMMA OtherCalls ==
  ASSUME TypeOK, NEW c \in Calls, NEW q \in Calls \ {c}, CallInv(q),
         Workflow(c) \/ Twitter(c) \/ WriteTool(c) \/ ReadTool(c)
  PROVE  CallInv(q)'
<1> DEFINE Same == /\ pc'[q] = pc[q] /\ tool'[q] = tool[q] /\ want'[q] = want[q]
                   /\ reply'[q] = reply[q] /\ outcome'[q] = outcome[q]
                   /\ applied'[q] = applied[q] /\ shown'[q] = shown[q]
                   /\ cause'[q] = cause[q]
<1>1. CASE Workflow(c)
  <2>1. Choose(c) => tool'[q] = tool[q] /\ want'[q] = want[q]
    BY DEF Choose, TypeOK
  <2>2. Same
    BY <1>1, <2>1 DEF Workflow, Send, RefuseInput, WorkflowRetries, Return, input, TypeOK
  <2> QED BY <2>2, Frame
<1>2. CASE Twitter(c)
  <2>1. \A a : Replied(c, a) => pc'[q] = pc[q] /\ reply'[q] = reply[q]
    BY DEF Replied, TypeOK
  <2>2. CASE NeverArrives(c)
    <3>1. Same BY <2>1, <2>2 DEF NeverArrives, input
    <3> QED BY <3>1, Frame
  <2>3. CASE Refuse(c)
    <3>1. PICK why \in Causes :
            /\ \E a : Replied(c, a)
            /\ cause' = [cause EXCEPT ![c] = why]
            /\ UNCHANGED applied \/ applied' = [applied EXCEPT ![c] = @ + 1]
      BY <2>3 DEF Refuse
    <3>2. Same BY <2>1, <2>3, <3>1 DEF Refuse, input, TypeOK
    <3> QED BY <3>2, Frame
  <2>4. CASE Carry(c)
    <3>1. \E a : Replied(c, a) BY <2>4 DEF Carry
    <3>2. Same BY <2>1, <2>4, <3>1 DEF Carry, input, TypeOK
    <3> QED BY <3>2, Frame
  <2>5. CASE Decline(c)
    <3>1. \E a : Replied(c, a) BY <2>5 DEF Decline
    <3>2. Same BY <2>1, <2>5, <3>1 DEF Decline, input
    <3> QED BY <3>2, Frame
  <2>6. CASE Show(c)
    <3>1. \E a : Replied(c, a) BY <2>6 DEF Show
    <3>2. Same BY <2>1, <2>6, <3>1 DEF Show, input, TypeOK
    <3> QED BY <3>2, Frame
  <2> QED BY <1>2, <2>2, <2>3, <2>4, <2>5, <2>6 DEF Twitter
<1>3. CASE WriteTool(c) \/ ReadTool(c)
  <2>1. \E t, out : Conclude(c, t, out)
    <3>1. WriteTool(c) => \E t, out : Conclude(c, t, out)
      BY Zenon DEF WriteTool, FollowUser, UnfollowUser, LikeTweet, UnlikeTweet, RetweetTweet,
         UndoRetweetTweet, PostTweet, DeleteTweet, CreateList, UpdateList, DeleteList,
         AddMember, RemoveMember, SendDirectMessage, CreateGroupConversation,
         SendMessageToGroupConversation
    <3>2. ReadTool(c) => \E t, out : Conclude(c, t, out)
      BY Zenon DEF ReadTool, GetTweet, GetUserById, GetUserByUsername, GetList, GetTweets,
         GetUsersById, GetUsersByUsername, GetUserTweets, GetMentionedTweets,
         GetRecentSearchTweets, GetRecentTweetCount, GetListMembers, GetListTweets,
         GetUserLists, GetConversationMessages, GetConversationMessagesById
    <3> QED BY <1>3, <3>1, <3>2
  <2>2. Same
    BY <2>1 DEF Conclude, Return, input, TypeOK
  <2> QED BY <2>2, Frame
<1> QED BY <1>1, <1>2, <1>3

LEMMA WorkflowInv ==
  ASSUME TypeOK, RetryKinds \cap UnsettledKinds = {},
         NEW c \in Calls, CallInv(c), Workflow(c)
  PROVE  CallInv(c)'
<1>0. Choose(c) => NamesInv(c)'
  <2> SUFFICES ASSUME Choose(c) PROVE NamesInv(c)'
    OBVIOUS
  <2>1. PICK t \in Tools :
          /\ tool' = [tool EXCEPT ![c] = t]
          /\ \E w \in Wants(t) : want' = [want EXCEPT ![c] = w]
    BY DEF Choose
  <2>2. tool'[c] = t /\ want'[c] \in Wants(t)
    BY <2>1 DEF TypeOK
  <2>3. t \in SingleReads \cup BatchReads => {} \notin Wants(t)
    <3>1. t \in SingleReads => Wants(t) = {{i} : i \in Ids}
      BY DEF Wants, SingleReads, BatchReads
    <3>2. t \in BatchReads => Wants(t) = (SUBSET Ids) \ {{}}
      BY DEF Wants, SingleReads, BatchReads
    <3>3. {} \notin {{i} : i \in Ids}
      OBVIOUS
    <3>4. {} \notin (SUBSET Ids) \ {{}}
      OBVIOUS
    <3> QED BY <3>1, <3>2, <3>3, <3>4, Zenon
  <2> QED BY <2>2, <2>3 DEF NamesInv
<1>1. CASE Send(c)
  <2>1. pc[c] = "idle" /\ pc'[c] = "sent" /\ applied' = applied /\ NamesInv(c)'
    BY <1>0, <1>1 DEF Send, Choose, TypeOK
  <2>2. applied[c] = 0
    BY <2>1 DEF CallInv, OnceInv
  <2> QED BY <2>1, <2>2 DEF CallInv, OnceInv, FlagInv, ShownInv, OutcomeInv, NamesInv
<1>2. CASE RefuseInput(c)
  <2>1. /\ pc[c] = "idle" /\ pc'[c] = "done" /\ applied' = applied /\ NamesInv(c)'
        /\ outcome'[c] = Err(BadInputKind(tool'[c]), None)
    BY <1>0, <1>2 DEF RefuseInput, Choose, Return, TypeOK
  <2>2. applied[c] = 0
    BY <2>1 DEF CallInv, OnceInv
  <2>3. outcome'[c].tag = "err" /\ outcome'[c].kind # "not_found"
    BY <2>1 DEF Err, Outcome, BadInputKind
  <2> QED BY <2>1, <2>2, <2>3 DEF CallInv, OnceInv, FlagInv, ShownInv, OutcomeInv, NamesInv
<1>3. CASE WorkflowRetries(c)
  <2>1. /\ pc[c] = "done" /\ pc'[c] = "sent" /\ applied' = applied
        /\ outcome[c].tag = "err" /\ outcome[c].kind \in RetryKinds
        /\ tool' = tool /\ want' = want
    BY <1>3 DEF WorkflowRetries, input, TypeOK
  <2>2. applied[c] = 0
    BY <2>1 DEF CallInv, OnceInv
  <2> QED BY <2>1, <2>2 DEF CallInv, OnceInv, FlagInv, ShownInv, OutcomeInv, NamesInv
<1> QED BY <1>1, <1>2, <1>3 DEF Workflow

LEMMA ReadsDoNotWrite == WriteTools \cap ReadTools = {}
BY DEF WriteTools, ReadTools, SingleReads, BatchReads, CollectionReads, MessageReads

\* What is said of an answer that is not delivered whole.
LEMMA LostReplies ==
  ASSUME NEW how \in {"connect", "cut", "broken", "timeout"}
  PROVE  /\ ~HasData(Lost(how)) /\ ~SaysMissing(Lost(how)) /\ ~ShowsNothing(Lost(how))
         /\ how # "connect" => Unsettled(Lost(how))
<1>1. Lost(how).how = how
  BY DEF Lost, Answer
<1> QED BY <1>1 DEF HasData, SaysMissing, ShowsNothing, Unsettled

\* A refusal has no data, shows nothing, says missing only of the missing, and
\* leaves open only what a gateway gave up.
LEMMA RefusalsSay ==
  ASSUME NEW why \in Causes, NEW a \in Refusals(why)
  PROVE  /\ ~HasData(a) /\ ~ShowsNothing(a)
         /\ SaysMissing(a) => why = "missing"
         /\ why = "outage" => Unsettled(a)
<1> DEFINE bare == Answer(StatusOf(why), NoData)
           code == CodeOf(why)
           plain == Answer(200, NoData)
<1>1. /\ StatusOf(why) # 200
      /\ StatusOf(why) = 404 \/ CodeOf(why) = 34 => why = "missing"
      /\ why = "outage" => StatusOf(why) = 503 /\ CodeOf(why) = 131
  BY DEF StatusOf, CodeOf, Causes
<1>2. CASE a \in {[bare EXCEPT !.code = code], [bare EXCEPT !.errors = Coded(code)],
                  [bare EXCEPT !.detail = TRUE], [bare EXCEPT !.json = FALSE]}
  <2>1. /\ a.how = "answer" /\ ~a.data.given /\ a.status = StatusOf(why)
        /\ a.code \in {None, code} /\ a.errors \in {NoEntry, Coded(code)}
    BY <1>2 DEF Answer, NoData
  <2>2. ~HasData(a) /\ ~ShowsNothing(a)
    BY <1>1, <2>1 DEF HasData, ShowsNothing
  <2>3. why = "outage" => Unsettled(a)
    BY <1>1, <2>1 DEF Unsettled
  <2>4. a.errors.text # "not-found" /\ a.errors.code \in {None, code}
    BY <2>1 DEF NoEntry, Coded
  <2>5. SaysMissing(a) => why = "missing"
    BY <1>1, <2>1, <2>4 DEF SaysMissing, None
  <2> QED BY <2>2, <2>3, <2>5
<1>3. ASSUME NEW x \in TextsOf(why), a = [plain EXCEPT !.errors = Typed(x)]
      PROVE  /\ ~HasData(a) /\ ~ShowsNothing(a) /\ why # "outage"
             /\ SaysMissing(a) => why = "missing"
  <2>1. /\ a.how = "answer" /\ ~a.data.given /\ a.status = 200
        /\ a.code = None /\ a.errors = Typed(x)
    BY <1>3 DEF Answer, NoData
  <2>2. a.errors.typed /\ a.errors.text = x /\ a.errors.code = None
    BY <2>1 DEF Typed
  <2>3. why # "outage" /\ (x = "not-found" => why = "missing")
    BY <1>3 DEF TextsOf
  <2>4. a.errors # NoEntry
    BY <2>2 DEF NoEntry
  <2> QED BY <2>1, <2>2, <2>3, <2>4 DEF HasData, ShowsNothing, SaysMissing, None
<1> QED BY <1>1, <1>2, <1>3 DEF Refusals

LEMMA TwitterInv ==
  ASSUME TypeOK, NEW c \in Calls, CallInv(c), Twitter(c)
  PROVE  CallInv(c)'
<1>1. ASSUME NEW a, Replied(c, a)
      PROVE  /\ pc[c] = "sent" /\ applied[c] = 0
             /\ pc'[c] = "answered" /\ reply'[c] = a
  BY <1>1 DEF Replied, CallInv, OnceInv, TypeOK
<1>2. ASSUME NEW a, pc'[c] = "answered", reply'[c] = a,
             \/ applied'[c] = 0
             \/ applied'[c] = 1 /\ tool[c] \in WriteTools /\ Unsettled(a),
             tool'[c] = tool[c], want'[c] = want[c],
             ~HasData(a), ~ShowsNothing(a), SaysMissing(a) => cause'[c] = "missing"
      PROVE  CallInv(c)'
  BY <1>2 DEF CallInv, OnceInv, FlagInv, ShownInv, OutcomeInv, NamesInv, Missed
<1>3. CASE NeverArrives(c)
  <2>1. PICK how \in {"connect", "timeout", "broken"} : Replied(c, Lost(how))
    BY <1>3 DEF NeverArrives
  <2>2. ~HasData(Lost(how)) /\ ~SaysMissing(Lost(how)) /\ ~ShowsNothing(Lost(how))
    BY LostReplies
  <2> QED BY <1>1, <1>2, <1>3, <2>1, <2>2 DEF NeverArrives, input
<1>4. CASE Refuse(c)
  <2>1. PICK why \in Causes :
          /\ \E answer \in Refusals(why) : \E a \in Delivered(answer) : Replied(c, a)
          /\ cause' = [cause EXCEPT ![c] = why]
          /\ \/ UNCHANGED applied
             \/ /\ why = "outage" /\ tool[c] \in WriteTools
                /\ applied' = [applied EXCEPT ![c] = @ + 1]
    BY <1>4 DEF Refuse
  <2>2. PICK answer \in Refusals(why) : \E a \in Delivered(answer) : Replied(c, a)
    BY <2>1
  <2>3. PICK a \in Delivered(answer) : Replied(c, a)
    BY <2>2
  <2>4. /\ ~HasData(a) /\ ~ShowsNothing(a)
        /\ SaysMissing(a) => why = "missing"
        /\ why = "outage" => Unsettled(a)
    <3>1. a = answer \/ a = Lost("cut") \/ a = Lost("broken") \/ a = Lost("timeout")
      BY <2>3 DEF Delivered
    <3> QED BY <3>1, RefusalsSay, LostReplies
  <2>5. \/ applied'[c] = 0
        \/ applied'[c] = 1 /\ tool[c] \in WriteTools /\ Unsettled(a)
    BY <1>1, <2>1, <2>3, <2>4 DEF TypeOK
  <2>6. cause'[c] = why /\ tool'[c] = tool[c] /\ want'[c] = want[c]
    BY <1>4, <2>1 DEF Refuse, input, TypeOK
  <2> QED BY <1>1, <1>2, <2>3, <2>4, <2>5, <2>6
<1>5. CASE Carry(c)
  <2> DEFINE answer == Answer(200, [NoData EXCEPT !.given = TRUE, !.flag = FlagWhenDone(tool[c])])
             other == [answer EXCEPT !.fits = FALSE, !.data.flag = FALSE]
  <2>1. PICK a \in Delivered(answer) \cup {other} : Replied(c, a)
    BY <1>5 DEF Carry
  <2>2. /\ applied'[c] = 1 /\ tool'[c] = tool[c] /\ want'[c] = want[c]
        /\ tool[c] \in WriteTools \ ReadTools
    BY <1>1, <1>5, <2>1, ReadsDoNotWrite DEF Carry, input, TypeOK
  <2>3. CASE a \in {Lost("cut"), Lost("broken"), Lost("timeout")}
    BY <1>1, <1>2, <2>1, <2>2, <2>3, LostReplies
  <2>4. CASE a \in {answer, other}
    <3>1. /\ answer.how = "answer" /\ answer.status = 200 /\ answer.errors = NoEntry
          /\ answer.data.flag = FlagWhenDone(tool[c])
      BY DEF Answer, NoData
    <3>2. /\ other.how = "answer" /\ other.status = 200 /\ other.errors = NoEntry
          /\ ~other.fits /\ ~other.data.flag
      BY DEF Answer, NoData
    <3> HIDE DEF answer, other
    <3>3. /\ a.how = "answer" /\ a.status = 200 /\ a.errors = NoEntry
          /\ a.data.flag = FlagWhenDone(tool[c]) \/ (~a.fits /\ ~a.data.flag)
      <4>1. CASE a = answer BY <3>1, <4>1
      <4>2. CASE a = other BY <3>2, <4>2
      <4> QED BY <2>4, <4>1, <4>2
    <3> QED BY <1>1, <2>1, <2>2, <3>3
            DEF CallInv, OnceInv, FlagInv, ShownInv, OutcomeInv, NamesInv, Unsettled
  <2> QED BY <2>1, <2>3, <2>4 DEF Delivered
<1>6. CASE Decline(c)
  <2> DEFINE data == [NoData EXCEPT !.given = TRUE, !.flag = ~FlagWhenDone(tool[c])]
  <2>1. PICK p \in BOOLEAN :
          \E a \in Delivered(Answer(200, [data EXCEPT !.pending = p])) : Replied(c, a)
    BY <1>6 DEF Decline
  <2> DEFINE answer == Answer(200, [data EXCEPT !.pending = p])
  <2>2. PICK a \in Delivered(answer) : Replied(c, a)
    BY <2>1
  <2>3. /\ applied'[c] = 0 /\ tool'[c] = tool[c] /\ want'[c] = want[c]
        /\ tool[c] \in WriteTools \ ReadTools /\ tool[c] \notin Creates
    BY <1>1, <1>6, <2>2, ReadsDoNotWrite DEF Decline, input
  <2>4. CASE a \in {Lost("cut"), Lost("broken"), Lost("timeout")}
    BY <1>1, <1>2, <2>2, <2>3, <2>4, LostReplies
  <2>5. CASE a = answer
    <3>1. a.data.flag = ~FlagWhenDone(tool[c])
      BY <2>5 DEF Answer, NoData
    <3> QED BY <1>1, <2>2, <2>3, <3>1 DEF CallInv, OnceInv, FlagInv, ShownInv, OutcomeInv, NamesInv
  <2> QED BY <2>2, <2>4, <2>5 DEF Delivered
<1>7. CASE Show(c)
  <2>1. PICK answer \in ShowAnswers(c) : \E a \in Delivered(answer) : Replied(c, a)
    BY <1>7 DEF Show
  <2>2. PICK a \in Delivered(answer) : Replied(c, a)
    BY <2>1
  <2>3. /\ applied'[c] = 0 /\ tool'[c] = tool[c] /\ want'[c] = want[c]
        /\ tool[c] \in ReadTools \ WriteTools
        /\ shown'[c] = Found(c) /\ want[c] \in SUBSET Ids
    BY <1>1, <1>7, <2>2, ReadsDoNotWrite DEF Show, input, TypeOK
  <2>4. CASE a \in {Lost("cut"), Lost("broken"), Lost("timeout")}
    BY <1>1, <1>2, <2>2, <2>3, <2>4, LostReplies
  <2>5. CASE a = answer
    <3>1. /\ a.status = 200 /\ a.code = None /\ a.errors = MissingEntry(c)
          /\ a.data.given => a.data.items = Found(c)
          /\ a.data.given \/ Found(c) = {}
      <4>1. /\ Given(c).status = 200 /\ Given(c).code = None
            /\ Given(c).errors = MissingEntry(c) /\ Given(c).data.items = Found(c)
            /\ Given(c).data.given
        BY DEF Given, Answer, NoData
      <4>2. /\ Absent(c).status = 200 /\ Absent(c).code = None
            /\ Absent(c).errors = MissingEntry(c) /\ ~Absent(c).data.given
        BY DEF Absent, Answer, NoData
      <4> DEFINE misfit == [Given(c) EXCEPT !.fits = FALSE]
      <4>3. /\ misfit.status = 200 /\ misfit.code = None
            /\ misfit.errors = MissingEntry(c) /\ misfit.data.items = Found(c)
            /\ misfit.data.given
        BY DEF Given, Answer, NoData
      <4>4. \/ a = Given(c) \/ a = misfit
            \/ a = Absent(c) /\ Found(c) = {}
        BY <2>1, <2>5 DEF ShowAnswers
      <4> HIDE DEF misfit
      <4> QED BY <4>1, <4>2, <4>3, <4>4
    <3>2. /\ want[c] \subseteq exists => MissingEntry(c) = NoEntry
          /\ ~(want[c] \subseteq exists) =>
               MissingEntry(c) # NoEntry /\ ~(want[c] \subseteq Found(c))
      BY DEF MissingEntry, NoEntry, Typed, Found
    <3>3. want[c] \subseteq exists /\ tool[c] \notin CollectionReads => Found(c) = want[c]
      BY DEF Found
    <3>4. /\ BatchReads \cap CollectionReads = {}
          /\ ReadTools = SingleReads \cup BatchReads \cup CollectionReads
      BY DEF BatchReads, CollectionReads, MessageReads, ReadTools
    <3>5. SaysMissing(a) => ~(want[c] \subseteq shown'[c])
      BY <2>3, <3>1, <3>2 DEF SaysMissing, NoEntry, None
    <3>6. ShowsNothing(a) =>
            ~(want[c] \subseteq shown'[c]) \/ (tool[c] \in CollectionReads /\ shown'[c] = {})
      <4>1. ASSUME ShowsNothing(a), want[c] \subseteq exists PROVE Found(c) = {}
        BY <3>1, <4>1 DEF ShowsNothing
      <4>2. ASSUME ShowsNothing(a) PROVE want[c] \subseteq exists
        BY <3>1, <3>2, <4>2 DEF ShowsNothing
      <4>3. Found(c) = {} /\ want[c] \subseteq exists => tool[c] \in CollectionReads
        BY <2>3, <3>3, <3>4 DEF CallInv, NamesInv
      <4> QED BY <2>3, <4>1, <4>2, <4>3
    <3>7. tool[c] \in BatchReads /\ HasData(a) /\ a.errors = NoEntry =>
            a.data.items = want[c] /\ want[c] \subseteq shown'[c]
      BY <2>3, <3>1, <3>2, <3>3, <3>4 DEF HasData
    <3> QED BY <1>1, <2>2, <2>3, <2>5, <3>5, <3>6, <3>7
            DEF CallInv, OnceInv, FlagInv, ShownInv, OutcomeInv, NamesInv, Missed
  <2> QED BY <2>2, <2>4, <2>5 DEF Delivered
<1> QED BY <1>3, <1>4, <1>5, <1>6, <1>7 DEF Twitter

\* What a tool may return of the answer it got.
LEMMA ConcludeInv ==
  ASSUME TypeOK, NEW c \in Calls, CallInv(c), NEW t, NEW out, Conclude(c, t, out),
         applied[c] = 1 /\ out.tag = "err" => out.kind \in UnsettledKinds,
         out.tag = "ok" /\ t \in WriteTools =>
           IF out.flag = FlagOfDone(t) THEN applied[c] = 1
           ELSE applied[c] = 0 \/ t = "update_list",
         out.tag = "ok" /\ t \in BatchReads =>
           out.items = want[c] /\ want[c] \subseteq shown[c],
         out.kind = "not_found" /\ t \in ReadTools => Missed(c)
  PROVE  CallInv(c)'
<1>1. /\ pc[c] = "answered" /\ tool[c] = t /\ pc'[c] = "done" /\ outcome'[c] = out
      /\ tool' = tool /\ want' = want /\ applied' = applied /\ shown' = shown
      /\ cause' = cause
  BY DEF Conclude, Return, input, TypeOK
<1> QED BY <1>1 DEF CallInv, OnceInv, FlagInv, ShownInv, OutcomeInv, NamesInv, Missed

\* A tool that writes and uses the shared client.
LEMMA ClientWrites ==
  ASSUME TypeOK, NEW c \in Calls, CallInv(c), NEW t \in WriteTools, NEW ok,
         Conclude(c, t, Through(ClientResult(reply[c]), ok)),
         ClientResult(reply[c]).ok =>
           \/ ok.tag = "pending"
           \/ /\ ok.tag = "ok"
              /\ IF t \in Creates THEN ok.flag = FlagOfDone(t)
                 ELSE (ok.flag = FlagOfDone(t)) <=> (reply[c].data.flag = FlagWhenDone(t))
  PROVE  CallInv(c)'
<1> DEFINE r == ClientResult(reply[c])
           out == Through(r, ok)
<1>1. reply[c] \in Replies /\ pc[c] = "answered" /\ tool[c] = t /\ t \notin ReadTools
      /\ t \notin BatchReads
  BY ReadsDoNotWrite DEF TypeOK, Conclude, ReadTools
<1>2. CASE r.ok
  <2>1. HasData(reply[c]) /\ reply[c].fits /\ out = ok
    BY <1>1, <1>2, OkResults DEF Through
  <2>2. \/ applied[c] = 1 /\ reply[c].data.flag = FlagWhenDone(t)
        \/ /\ applied[c] = 0 /\ t \notin Creates
           /\ reply[c].data.flag = ~FlagWhenDone(t)
    BY <1>1, <2>1 DEF CallInv, OnceInv, FlagInv
  <2>3. (~FlagWhenDone(t)) # FlagWhenDone(t)
    BY DEF FlagWhenDone
  <2>4. out.tag = "ok" =>
          IF out.flag = FlagOfDone(t) THEN applied[c] = 1
          ELSE applied[c] = 0 \/ t = "update_list"
    BY <1>2, <2>1, <2>2, <2>3
  <2>5. out.tag # "err"
    BY <1>2, <2>1
  <2> HIDE DEF out
  <2> QED BY <1>1, <2>4, <2>5, ConcludeInv DEF out
<1>3. CASE ~r.ok
  <2>1. out = r.err /\ out.tag = "err"
    BY <1>1, <1>3, ErrResults DEF Through
  <2>2. applied[c] = 1 => out.kind \in UnsettledKinds
    BY <1>1, <1>3, <2>1, UnsettledErrors DEF CallInv, OnceInv
  <2> HIDE DEF out
  <2> QED BY <1>1, <2>1, <2>2, ConcludeInv DEF out
<1> QED BY <1>2, <1>3

\* A tool that writes and reads the bare JSON.
LEMMA RawWrites ==
  ASSUME TypeOK, NEW c \in Calls, CallInv(c), NEW t \in WriteTools, NEW ok,
         NEW a \in {reply[c], [reply[c] EXCEPT !.code = None]},
         Conclude(c, t, Through(RawResult(a), ok)),
         RawResult(a).ok =>
           \/ ok = RawError
           \/ /\ ok.tag = "ok"
              /\ reply[c].fits \/ reply[c].data.flag \/ t = "update_list"
              /\ IF t \in Creates THEN ok.flag = FlagOfDone(t)
                 ELSE (ok.flag = FlagOfDone(t)) <=> (reply[c].data.flag = FlagWhenDone(t))
  PROVE  CallInv(c)'
<1> DEFINE r == RawResult(a)
           out == Through(r, ok)
<1>1. /\ reply[c] \in Replies /\ pc[c] = "answered" /\ tool[c] = t /\ t \notin ReadTools
      /\ t \notin BatchReads
  BY ReadsDoNotWrite DEF TypeOK, Conclude, ReadTools
<1>2. a \in Replies /\ a.how = reply[c].how /\ a.data = reply[c].data
  BY <1>1 DEF Replies, Codes, None
<1>3. RawError.tag = "err" /\ RawError.kind = "none" /\ "none" \in UnsettledKinds
  BY DEF RawError, Err, Outcome, UnsettledKinds
<1>4. CASE out = RawError
  <2> HIDE DEF out
  <2> QED BY <1>1, <1>3, <1>4, ConcludeInv DEF out
<1>5. CASE r.ok /\ ok # RawError
  <2>1. HasData(reply[c]) /\ out = ok
    BY <1>2, <1>5, OkResults DEF Through, HasData
  <2>2. \/ applied[c] = 1 /\ reply[c].data.flag = FlagWhenDone(t)
        \/ applied[c] = 1 /\ ~reply[c].fits /\ ~reply[c].data.flag
        \/ /\ applied[c] = 0 /\ t \notin Creates
           /\ reply[c].data.flag = ~FlagWhenDone(t)
    BY <1>1, <2>1 DEF CallInv, OnceInv, FlagInv
  <2>3. (~FlagWhenDone(t)) # FlagWhenDone(t) /\ FlagWhenDone("update_list") = TRUE
        /\ "update_list" \notin Creates
    BY DEF FlagWhenDone, Creates
  <2>4. out.tag = "ok" =>
          IF out.flag = FlagOfDone(t) THEN applied[c] = 1
          ELSE applied[c] = 0 \/ t = "update_list"
    BY <1>5, <2>1, <2>2, <2>3
  <2>5. out.tag # "err"
    BY <1>5, <2>1
  <2> HIDE DEF out
  <2> QED BY <1>1, <2>4, <2>5, ConcludeInv DEF out
<1> QED BY <1>2, <1>4, <1>5, ErrResults DEF Through

\* A tool that reads.
LEMMA Reads ==
  ASSUME TypeOK, NEW c \in Calls, CallInv(c), NEW t \in ReadTools, NEW ok,
         NEW r \in {ParseTwitterResponse(reply[c]), ClientResult(reply[c])},
         t \in BatchReads => r = ClientResult(reply[c]),
         Conclude(c, t, Through(r, ok)),
         \/ ok = OkItems(r.data.items)
         \/ ok = GivenOrNotFound(r.data)
         \/ \E s \in {None, 404} : ok = SomeOrNotFound(r.data, s)
  PROVE  CallInv(c)'
<1> DEFINE a == reply[c]
           out == Through(r, ok)
<1>1. a \in Replies /\ pc[c] = "answered" /\ tool[c] = t /\ t \notin WriteTools /\ applied[c] = 0
  BY ReadsDoNotWrite DEF TypeOK, Conclude, CallInv, OnceInv
<1>2. CASE r.ok
  <2>1. /\ a.how = "answer" /\ a.status = 200 /\ a.errors = NoEntry /\ r.data = a.data
        /\ t \in BatchReads => HasData(a)
        /\ out = ok
    BY <1>1, <1>2, OkResults DEF Through, HasData
  <2>2. \/ ok = OkItems(a.data.items)
        \/ /\ ok.tag = "err" /\ ok.kind = "not_found"
           /\ a.data.given => a.data.items = {}
    BY <2>1 DEF GivenOrNotFound, SomeOrNotFound, NotFound, Err, Outcome
  <2>3. CASE ok = OkItems(a.data.items)
    <3>1. out.tag = "ok" /\ out.kind # "not_found" /\ out.items = a.data.items
      BY <2>1, <2>3 DEF OkItems, Outcome
    <3>2. t \in BatchReads => out.items = want[c] /\ want[c] \subseteq shown[c]
      BY <1>1, <2>1, <3>1 DEF CallInv, ShownInv
    <3> HIDE DEF out
    <3> QED BY <1>1, <3>1, <3>2, ConcludeInv DEF out
  <2>4. CASE /\ ok.tag = "err" /\ ok.kind = "not_found"
             /\ a.data.given => a.data.items = {}
    <3>1. ShowsNothing(a)
      BY <2>1, <2>4 DEF ShowsNothing
    <3>2. Missed(c)
      BY <1>1, <3>1 DEF CallInv, ShownInv
    <3> QED BY <1>1, <2>1, <2>4, <3>2, ConcludeInv
  <2> QED BY <2>2, <2>3, <2>4
<1>3. CASE ~r.ok
  <2>1. out = r.err /\ out.tag = "err"
    BY <1>1, <1>3, ErrResults DEF Through
  <2>2. out.kind = "not_found" => Missed(c)
    BY <1>1, <1>3, <2>1, NotFoundErrors DEF CallInv, ShownInv
  <2> HIDE DEF out
  <2> QED BY <1>1, <2>1, <2>2, ConcludeInv DEF out
<1> QED BY <1>2, <1>3

LEMMA WriteToolInv ==
  ASSUME TypeOK, NEW c \in Calls, CallInv(c), WriteTool(c)
  PROVE  CallInv(c)'
<1> DEFINE a == reply[c]
<1>1. /\ \A b \in BOOLEAN : OkFlag(b).tag = "ok" /\ OkFlag(b).flag = b
      /\ Pending.tag = "pending"
  BY DEF OkFlag, Pending, Outcome
<1>2. a \in Replies /\ a.data.flag \in BOOLEAN /\ (~a.data.flag) \in BOOLEAN
  BY DEF TypeOK, Replies, Data
<1>3. /\ ClientResult(a).ok => ClientResult(a).data = a.data
      /\ RawResult(a).ok => RawResult(a).data = a.data
  BY <1>2, OkResults
<1>4. /\ \A t \in {"unfollow_user", "unlike_tweet", "undo_retweet_tweet", "remove_member"} :
           ~FlagWhenDone(t)
      /\ \A t \in WriteTools \ {"unfollow_user", "unlike_tweet", "undo_retweet_tweet",
                                "remove_member"} : FlagWhenDone(t)
      /\ \A t \in {"undo_retweet_tweet", "remove_member"} : ~FlagOfDone(t)
      /\ \A t \in WriteTools \ {"undo_retweet_tweet", "remove_member"} : FlagOfDone(t)
  BY DEF FlagWhenDone, FlagOfDone
<1>5. CASE FollowUser(c)
  BY <1>1, <1>2, <1>3, <1>4, <1>5, ClientWrites DEF FollowUser, Creates, WriteTools
<1>6. CASE UnfollowUser(c)
  <2> DEFINE ok == OkFlag(~ClientResult(reply[c]).data.flag)
  <2>1. ClientResult(a).ok => ok.tag = "ok" /\ ok.flag = (~a.data.flag)
    BY <1>1, <1>2, <1>3
  <2>2. Conclude(c, "unfollow_user", Through(ClientResult(reply[c]), ok))
    BY <1>6 DEF UnfollowUser
  <2>3. /\ "unfollow_user" \in WriteTools \ Creates
        /\ (ok.flag = FlagOfDone("unfollow_user")) <=> (ok.flag = TRUE)
        /\ (a.data.flag = FlagWhenDone("unfollow_user")) <=> (a.data.flag = FALSE)
    BY DEF WriteTools, Creates, FlagOfDone, FlagWhenDone
  <2>4. ClientResult(a).ok =>
          ((ok.flag = FlagOfDone("unfollow_user")) <=> (a.data.flag = FlagWhenDone("unfollow_user")))
    BY <1>2, <2>1, <2>3
  <2> HIDE DEF ok
  <2> QED BY <2>1, <2>2, <2>3, <2>4, ClientWrites
<1>7. CASE LikeTweet(c)
  BY <1>1, <1>2, <1>3, <1>4, <1>7, RawWrites DEF LikeTweet, Creates, WriteTools
<1>8. CASE UnlikeTweet(c)
  <2> DEFINE ok == OkFlag(~ClientResult(reply[c]).data.flag)
  <2>1. ClientResult(a).ok => ok.tag = "ok" /\ ok.flag = (~a.data.flag)
    BY <1>1, <1>2, <1>3
  <2>2. Conclude(c, "unlike_tweet", Through(ClientResult(reply[c]), ok))
    BY <1>8 DEF UnlikeTweet
  <2>3. /\ "unlike_tweet" \in WriteTools \ Creates
        /\ (ok.flag = FlagOfDone("unlike_tweet")) <=> (ok.flag = TRUE)
        /\ (a.data.flag = FlagWhenDone("unlike_tweet")) <=> (a.data.flag = FALSE)
    BY DEF WriteTools, Creates, FlagOfDone, FlagWhenDone
  <2>4. ClientResult(a).ok =>
          ((ok.flag = FlagOfDone("unlike_tweet")) <=> (a.data.flag = FlagWhenDone("unlike_tweet")))
    BY <1>2, <2>1, <2>3
  <2> HIDE DEF ok
  <2> QED BY <2>1, <2>2, <2>3, <2>4, ClientWrites
<1>9. CASE RetweetTweet(c)
  BY <1>1, <1>2, <1>3, <1>4, <1>9, ClientWrites DEF RetweetTweet, Creates, WriteTools
<1>10. CASE UndoRetweetTweet(c)
  <2> DEFINE ok == OkFlag(ClientResult(reply[c]).data.flag)
  <2>1. ClientResult(a).ok => ok.tag = "ok" /\ ok.flag = (a.data.flag)
    BY <1>1, <1>2, <1>3
  <2>2. Conclude(c, "undo_retweet_tweet", Through(ClientResult(reply[c]), ok))
    BY <1>10 DEF UndoRetweetTweet
  <2>3. /\ "undo_retweet_tweet" \in WriteTools \ Creates
        /\ (ok.flag = FlagOfDone("undo_retweet_tweet")) <=> (ok.flag = FALSE)
        /\ (a.data.flag = FlagWhenDone("undo_retweet_tweet")) <=> (a.data.flag = FALSE)
    BY DEF WriteTools, Creates, FlagOfDone, FlagWhenDone
  <2>4. ClientResult(a).ok =>
          ((ok.flag = FlagOfDone("undo_retweet_tweet")) <=> (a.data.flag = FlagWhenDone("undo_retweet_tweet")))
    BY <1>2, <2>1, <2>3
  <2> HIDE DEF ok
  <2> QED BY <2>1, <2>2, <2>3, <2>4, ClientWrites
<1>11. CASE PostTweet(c)
  BY <1>1, <1>2, <1>3, <1>4, <1>11, RawWrites DEF PostTweet, Creates, WriteTools
<1>12. CASE DeleteTweet(c)
  BY <1>1, <1>2, <1>3, <1>4, <1>12, ClientWrites DEF DeleteTweet, Creates, WriteTools
<1>13. CASE CreateList(c)
  BY <1>1, <1>2, <1>3, <1>4, <1>13, RawWrites DEF CreateList, Creates, WriteTools
<1>14. CASE UpdateList(c)
  <2> DEFINE ok == OkFlag(RawResult(reply[c]).data.flag)
  <2>1. RawResult(a).ok => ok.tag = "ok" /\ ok.flag = a.data.flag
    BY <1>1, <1>2, <1>3
  <2>2. Conclude(c, "update_list", Through(RawResult(reply[c]), ok))
    BY <1>14 DEF UpdateList
  <2>3. /\ "update_list" \in WriteTools \ Creates
        /\ (ok.flag = FlagOfDone("update_list")) <=> (ok.flag = TRUE)
        /\ (a.data.flag = FlagWhenDone("update_list")) <=> (a.data.flag = TRUE)
    BY DEF WriteTools, Creates, FlagOfDone, FlagWhenDone
  <2>4. RawResult(a).ok =>
          ((ok.flag = FlagOfDone("update_list")) <=> (a.data.flag = FlagWhenDone("update_list")))
    BY <1>2, <2>1, <2>3
  <2> HIDE DEF ok
  <2> QED BY <2>1, <2>2, <2>3, <2>4, RawWrites
<1>15. CASE DeleteList(c)
  <2> DEFINE ok == OkFlag(ClientResult(reply[c]).data.flag)
  <2>1. ClientResult(a).ok => ok.tag = "ok" /\ ok.flag = (a.data.flag)
    BY <1>1, <1>2, <1>3
  <2>2. Conclude(c, "delete_list", Through(ClientResult(reply[c]), ok))
    BY <1>15 DEF DeleteList
  <2>3. /\ "delete_list" \in WriteTools \ Creates
        /\ (ok.flag = FlagOfDone("delete_list")) <=> (ok.flag = TRUE)
        /\ (a.data.flag = FlagWhenDone("delete_list")) <=> (a.data.flag = TRUE)
    BY DEF WriteTools, Creates, FlagOfDone, FlagWhenDone
  <2>4. ClientResult(a).ok =>
          ((ok.flag = FlagOfDone("delete_list")) <=> (a.data.flag = FlagWhenDone("delete_list")))
    BY <1>2, <2>1, <2>3
  <2> HIDE DEF ok
  <2> QED BY <2>1, <2>2, <2>3, <2>4, ClientWrites
<1>16. CASE AddMember(c)
  <2> DEFINE ok == IF reply[c].fits THEN OkFlag(RawResult(reply[c]).data.flag) ELSE RawError
  <2>1. RawResult(a).ok => ok = RawError \/ (a.fits /\ ok.tag = "ok" /\ ok.flag = a.data.flag)
    BY <1>1, <1>2, <1>3
  <2>2. Conclude(c, "add_member", Through(RawResult(reply[c]), ok))
    BY <1>16 DEF AddMember
  <2>3. /\ "add_member" \in WriteTools \ Creates
        /\ (ok.flag = FlagOfDone("add_member")) <=> (ok.flag = TRUE)
        /\ (a.data.flag = FlagWhenDone("add_member")) <=> (a.data.flag = TRUE)
    BY DEF WriteTools, Creates, FlagOfDone, FlagWhenDone
  <2>4. RawResult(a).ok /\ ok # RawError =>
          ((ok.flag = FlagOfDone("add_member")) <=> (a.data.flag = FlagWhenDone("add_member")))
    BY <1>2, <2>1, <2>3
  <2> HIDE DEF ok
  <2> QED BY <2>1, <2>2, <2>3, <2>4, RawWrites
<1>17. CASE RemoveMember(c)
  <2> DEFINE ok == IF reply[c].fits THEN OkFlag(RawResult(reply[c]).data.flag) ELSE RawError
  <2>1. RawResult(a).ok => ok = RawError \/ (a.fits /\ ok.tag = "ok" /\ ok.flag = a.data.flag)
    BY <1>1, <1>2, <1>3
  <2>2. Conclude(c, "remove_member", Through(RawResult(reply[c]), ok))
    BY <1>17 DEF RemoveMember
  <2>3. /\ "remove_member" \in WriteTools \ Creates
        /\ (ok.flag = FlagOfDone("remove_member")) <=> (ok.flag = FALSE)
        /\ (a.data.flag = FlagWhenDone("remove_member")) <=> (a.data.flag = FALSE)
    BY DEF WriteTools, Creates, FlagOfDone, FlagWhenDone
  <2>4. RawResult(a).ok /\ ok # RawError =>
          ((ok.flag = FlagOfDone("remove_member")) <=> (a.data.flag = FlagWhenDone("remove_member")))
    BY <1>2, <2>1, <2>3
  <2> HIDE DEF ok
  <2> QED BY <2>1, <2>2, <2>3, <2>4, RawWrites
<1>18. CASE SendDirectMessage(c)
  BY <1>1, <1>2, <1>3, <1>4, <1>18, ClientWrites DEF SendDirectMessage, Creates, WriteTools
<1>19. CASE CreateGroupConversation(c)
  BY <1>1, <1>2, <1>3, <1>4, <1>19, ClientWrites DEF CreateGroupConversation, Creates, WriteTools
<1>20. CASE SendMessageToGroupConversation(c)
  BY <1>1, <1>2, <1>3, <1>4, <1>20, ClientWrites DEF SendMessageToGroupConversation, Creates, WriteTools
<1> QED BY <1>5, <1>6, <1>7, <1>8, <1>9, <1>10, <1>11, <1>12, <1>13, <1>14, <1>15, <1>16, <1>17, <1>18, <1>19, <1>20 DEF WriteTool

LEMMA ReadToolInv ==
  ASSUME TypeOK, NEW c \in Calls, CallInv(c), ReadTool(c)
  PROVE  CallInv(c)'
<1>1. CASE GetTweet(c)
  BY <1>1, Reads DEF GetTweet, ReadTools, SingleReads, BatchReads, CollectionReads, MessageReads
<1>2. CASE GetUserById(c)
  BY <1>2, Reads DEF GetUserById, ReadTools, SingleReads, BatchReads, CollectionReads, MessageReads
<1>3. CASE GetUserByUsername(c)
  BY <1>3, Reads DEF GetUserByUsername, ReadTools, SingleReads, BatchReads, CollectionReads, MessageReads
<1>4. CASE GetList(c)
  BY <1>4, Reads DEF GetList, ReadTools, SingleReads, BatchReads, CollectionReads, MessageReads
<1>5. CASE GetTweets(c)
  BY <1>5, Reads DEF GetTweets, ReadTools, SingleReads, BatchReads, CollectionReads, MessageReads
<1>6. CASE GetUsersById(c)
  BY <1>6, Reads DEF GetUsersById, ReadTools, SingleReads, BatchReads, CollectionReads, MessageReads
<1>7. CASE GetUsersByUsername(c)
  BY <1>7, Reads DEF GetUsersByUsername, ReadTools, SingleReads, BatchReads, CollectionReads, MessageReads
<1>8. CASE GetUserTweets(c)
  BY <1>8, Reads DEF GetUserTweets, ReadTools, SingleReads, BatchReads, CollectionReads, MessageReads
<1>9. CASE GetMentionedTweets(c)
  BY <1>9, Reads DEF GetMentionedTweets, ReadTools, SingleReads, BatchReads, CollectionReads, MessageReads
<1>10. CASE GetRecentSearchTweets(c)
  BY <1>10, Reads DEF GetRecentSearchTweets, ReadTools, SingleReads, BatchReads, CollectionReads, MessageReads
<1>11. CASE GetRecentTweetCount(c)
  BY <1>11, Reads DEF GetRecentTweetCount, ReadTools, SingleReads, BatchReads, CollectionReads, MessageReads
<1>12. CASE GetListMembers(c)
  BY <1>12, Reads DEF GetListMembers, ReadTools, SingleReads, BatchReads, CollectionReads, MessageReads
<1>13. CASE GetListTweets(c)
  BY <1>13, Reads DEF GetListTweets, ReadTools, SingleReads, BatchReads, CollectionReads, MessageReads
<1>14. CASE GetUserLists(c)
  BY <1>14, Reads DEF GetUserLists, ReadTools, SingleReads, BatchReads, CollectionReads, MessageReads
<1>15. CASE GetConversationMessages(c)
  BY <1>15, Reads DEF GetConversationMessages, ReadTools, SingleReads, BatchReads, CollectionReads, MessageReads
<1>16. CASE GetConversationMessagesById(c)
  BY <1>16, Reads DEF GetConversationMessagesById, ReadTools, SingleReads, BatchReads, CollectionReads, MessageReads
<1> QED BY <1>1, <1>2, <1>3, <1>4, <1>5, <1>6, <1>7, <1>8, <1>9, <1>10, <1>11, <1>12, <1>13, <1>14, <1>15, <1>16 DEF ReadTool

\* The invariant, if a workflow takes only kinds for retryable that settle the
\* request.
LEMMA Invariant ==
  ASSUME RetryKinds \cap UnsettledKinds = {}
  PROVE  Spec => [](TypeOK /\ \A c \in Calls : CallInv(c))
<1> DEFINE Inv == TypeOK /\ \A c \in Calls : CallInv(c)
<1>1. Init => \A c \in Calls : CallInv(c)
  BY DEF Init, CallInv, OnceInv, FlagInv, ShownInv, OutcomeInv, NamesInv,
         SingleReads, BatchReads
<1>2. ASSUME Inv, [Next]_vars, NEW q \in Calls
      PROVE  CallInv(q)'
  <2>1. CASE UNCHANGED vars
    BY <1>2, <2>1, Frame DEF vars
  <2>2. CASE Others
    BY <1>2, <2>2, Frame DEF Others, input
  <2>3. ASSUME NEW c \in Calls, Workflow(c) \/ Twitter(c) \/ WriteTool(c) \/ ReadTool(c)
        PROVE  CallInv(q)'
    <3>1. CASE q = c
      BY <1>2, <2>3, <3>1, WorkflowInv, TwitterInv, WriteToolInv, ReadToolInv
    <3>2. CASE q # c
      BY <1>2, <2>3, <3>2, OtherCalls
    <3> QED BY <3>1, <3>2
  <2> QED BY <1>2, <2>1, <2>2, <2>3 DEF Next
<1>3. (\A c \in Calls : CallInv(c)) /\ TypeOK /\ [Next]_vars => (\A c \in Calls : CallInv(c))'
  BY <1>2
<1> QED BY <1>1, <1>3, TypeCorrect, PTL DEF Spec

\* Under the same assumption a request is carried out at most once, whatever is
\* lost, cut off or answered late, and however often the workflow calls.
THEOREM OnceOnly ==
  ASSUME RetryKinds \cap UnsettledKinds = {}
  PROVE  Spec => []AtMostOnce
<1>1. TypeOK /\ (\A c \in Calls : CallInv(c)) => AtMostOnce
  BY DEF CallInv, OnceInv, AtMostOnce
<1> QED BY <1>1, Invariant, PTL

\* Ok and its flag say what was done, for each of the sixteen tools that write.
THEOREM Truthful ==
  ASSUME RetryKinds \cap UnsettledKinds = {}
  PROVE  Spec => []OkTellsTruth
<1>1. TypeOK /\ (\A c \in Calls : CallInv(c)) => OkTellsTruth
  BY DEF CallInv, OutcomeInv, OkTellsTruth
<1> QED BY <1>1, Invariant, PTL

\* Several ids are answered wholly or not at all, whatever others delete.
THEOREM Complete ==
  ASSUME RetryKinds \cap UnsettledKinds = {}
  PROVE  Spec => []BatchIsComplete
<1>1. TypeOK /\ (\A c \in Calls : CallInv(c)) => BatchIsComplete
  BY DEF CallInv, OutcomeInv, BatchIsComplete
<1> QED BY <1>1, Invariant, PTL

\* not_found is said of what was missing, in whichever way Twitter said it.
THEOREM Honest ==
  ASSUME RetryKinds \cap UnsettledKinds = {}
  PROVE  Spec => []NotFoundIsHonest
<1>1. TypeOK /\ (\A c \in Calls : CallInv(c)) => NotFoundIsHonest
  BY DEF CallInv, OutcomeInv, NotFoundIsHonest
<1> QED BY <1>1, Invariant, PTL
=============================================================================
