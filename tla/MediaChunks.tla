----------------------------- MODULE MediaChunks -----------------------------
(***************************************************************************)
(* How upload_media.rs cuts a media into segments: the chunk size it       *)
(* chooses, the number of chunks that makes, and what each chunk holds.    *)
(* All sizes are in bytes, with the constants of the source.               *)
(***************************************************************************)
EXTENDS Integers

KB == 1024
MB == 1024 * KB

MAX_CHUNK_SIZE == 5 * MB
MIN_CHUNK_SIZE == 128 * KB
CHUNK_SIZE_ALIGNMENT == 128 * KB

\* The media types and categories that calculate_optimal_chunk_size tells
\* apart; "other" stands for the rest of MediaType and of MediaCategory.
MediaType ==
  {"image/jpeg", "image/gif", "image/png", "image/webp",
   "video/mp4", "video/webm", "video/mp2t", "other"}
MediaCategory == {"tweet_gif", "tweet_video", "dm_video", "amplify_video", "other"}

ChunkedAsImage == {"image/jpeg", "image/gif", "image/png", "image/webp"}

ChunkedAsGif(type, category) == type = "image/gif" \/ category = "tweet_gif"

ChunkedAsVideo(type, category) ==
  \/ type \in {"video/mp4", "video/webm", "video/mp2t"}
  \/ category \in {"tweet_video", "dm_video", "amplify_video"}

ideal_chunk_count(size) ==
  IF size < 10 * MB THEN 8 ELSE IF size < 50 * MB THEN 15 ELSE 25

Clamp(x, low, high) == IF x < low THEN low ELSE IF x > high THEN high ELSE x

\* The chunk size for the types with no rule of their own.
aligned_chunk_size(size) ==
  (Clamp(size \div ideal_chunk_count(size), MIN_CHUNK_SIZE, MAX_CHUNK_SIZE)
     \div CHUNK_SIZE_ALIGNMENT) * CHUNK_SIZE_ALIGNMENT

\* Mutant of calculate_optimal_chunk_size: the cap for images is forgotten.
calculate_optimal_chunk_size_uncapped(size, type, category) ==
  IF size <= MAX_CHUNK_SIZE THEN size
  ELSE IF type \in ChunkedAsImage THEN size \div 4
  ELSE IF ChunkedAsGif(type, category) THEN 3 * MB
  ELSE IF ChunkedAsVideo(type, category)
  THEN IF size > 20 * MB THEN MAX_CHUNK_SIZE ELSE 4 * MB
  ELSE aligned_chunk_size(size)

calculate_optimal_chunk_size(size, type, category) ==
  IF size <= MAX_CHUNK_SIZE THEN size
  ELSE IF type \in ChunkedAsImage
  THEN IF size \div 4 < 2 * MB THEN size \div 4 ELSE 2 * MB
  ELSE IF ChunkedAsGif(type, category) THEN 3 * MB
  ELSE IF ChunkedAsVideo(type, category)
  THEN IF size > 20 * MB THEN MAX_CHUNK_SIZE ELSE 4 * MB
  ELSE aligned_chunk_size(size)

\* media_data.len().div_ceil(chunk)
total_chunks(size, chunk) == (size + chunk - 1) \div chunk

\* Segment i of media_data.chunks(chunk): the bytes from .from up to before .to.
Segment(size, chunk, i) ==
  [from |-> i * chunk, to |-> IF (i + 1) * chunk < size THEN (i + 1) * chunk ELSE size]
==============================================================================
