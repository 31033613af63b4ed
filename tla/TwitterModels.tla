---------------------------- MODULE TwitterModels ----------------------------
(***************************************************************************)
(* What the read tools of social-twitter can ask Twitter for and what they *)
(* can carry of its answers: the enumerations of their inputs and the      *)
(* structs of their outputs, by the names that serde gives the fields.     *)
(* Serde reads an object of the answer into a struct if it has all the     *)
(* fields that the struct needs, and drops what the struct does not take.  *)
(* Objects inside a field are left out.                                    *)
(***************************************************************************)

Struct(needs, takes) == [needs |-> needs, takes |-> needs \cup takes]

Decodes(fields, struct) == struct.needs \subseteq fields
Decoded(fields, struct) == fields \cap struct.takes

-----------------------------------------------------------------------------
(* What a caller can name (tweet, list and direct_message models.rs).      *)

TweetField ==
  {"article", "attachments", "author_id", "card_uri", "community_id",
   "context_annotations", "conversation_id", "created_at", "display_text_range",
   "edit_controls", "edit_history_tweet_ids", "entities", "geo", "id",
   "in_reply_to_user_id", "lang", "media_metadata", "non_public_metrics",
   "note_tweet", "organic_metrics", "possibly_sensitive", "promoted_metrics",
   "public_metrics", "referenced_tweets", "reply_settings", "scopes", "source",
   "text", "withheld"}

ExpansionField ==
  {"article.cover_media", "article.media_entities", "attachments.media_keys",
   "attachments.media_source_tweet", "attachments.poll_ids", "author_id",
   "edit_history_tweet_ids", "entities.mentions.username", "geo.place_id",
   "in_reply_to_user_id", "entities.note.mentions.username", "referenced_tweets.id",
   "referenced_tweets.id.attachments.media_keys", "referenced_tweets.id.author_id"}

MediaField ==
  {"alt_text", "duration_ms", "height", "media_key", "non_public_metrics",
   "organic_metrics", "preview_image_url", "promoted_metrics", "public_metrics",
   "type", "url", "variants", "width"}

PollField == {"duration_minutes", "end_datetime", "id", "options", "voting_status"}

UserField ==
  {"affiliation", "connection_status", "created_at", "description", "entities", "id",
   "is_identity_verified", "location", "most_recent_tweet_id", "name", "parody",
   "pinned_tweet_id", "profile_banner_url", "profile_image_url", "protected",
   "public_metrics", "receives_your_dm", "subscription", "subscription_type", "url",
   "username", "verified", "verified_followers_count", "verified_type", "withheld"}

PlaceField ==
  {"contained_within", "country", "country_code", "full_name", "geo", "id", "name",
   "place_type"}

ExcludeField == {"replies", "retweets"}

ListField ==
  {"created_at", "description", "follower_count", "id", "member_count", "name",
   "owner_id", "private"}

\* The only expansion of the list tools, which get_tweets takes too.
Expansion == {"owner_id"}

ListUserField == UserField \cup {"confirmed_email"}

DmEventField ==
  {"attachments", "created_at", "dm_conversation_id", "entities", "event_type", "id",
   "participant_ids", "referenced_tweets", "sender_id", "text"}

DmExpansionField ==
  {"attachments.media_keys", "participant_ids", "referenced_tweets.id", "sender_id"}

DmMediaField == MediaField
DmUserField == ListUserField
DmTweetField == TweetField
EventType == {"message_create", "participants_join", "participants_leave"}

-----------------------------------------------------------------------------
(* What the structs hold.                                                  *)

Tweet ==
  Struct({"id", "text"},
    {"username"} \cup
    (TweetField \ {"article", "card_uri", "display_text_range", "media_metadata"}))

TweetsMedia == Struct({"type", "media_key"}, {"height", "width"})
TweetsPlace ==
  Struct({"full_name", "id"}, {"contained_within", "country", "country_code", "geo"})
TweetsPoll == Struct(PollField, {})

\* protected is optional in the other structs for a user.
TweetsUser ==
  Struct({"id", "name", "protected", "username"},
    {"created_at", "description", "entities", "location", "public_metrics",
     "profile_image_url", "verified"})

ListTweet == Struct(Tweet.needs, Tweet.takes)

ListsUser ==
  Struct({"id", "name", "username"},
    {"created_at", "description", "location", "profile_image_url", "protected",
     "public_metrics", "verified"})

ListData == Struct({"id", "name"}, ListField)

UserData ==
  Struct({"id", "name", "username"},
    UserField \ {"is_identity_verified", "parody", "subscription",
                 "verified_followers_count"})

DmEvent == Struct({"id", "event_type"}, DmEventField)
DmMedia == Struct({"type", "media_key"}, {"height", "width"})
DmUser == Struct({"id"}, {"name", "username"})
DmTweet == Struct({"id"}, {})

TweetCount == Struct({"start", "end", "tweet_count"}, {})

=============================================================================
