--------------------------- MODULE MCMediaUpload ---------------------------
(***************************************************************************)
(* Inputs for model checking MediaUpload.                                  *)
(***************************************************************************)
EXTENDS MediaUpload

\* A media of no, one, two, three and four segments, with a last segment that is
\* full or not, and one of more than the limit; optimistic or not.
ProtocolInputs ==
  [size : 0 .. 7 \cup {53}, type : {"other"}, category : {"other"}, chunk_size : {2},
   optimistic : BOOLEAN]

\* The sizes at which calculate_optimal_chunk_size changes its mind, and those
\* around the limit of 26 segments.  The range of the size announced ends between the
\* last two.
Sizes ==
  {1, 5 * MB, 5 * MB + 1, 8 * MB, 8 * MB + 1, 10 * MB - 1, 10 * MB, 20 * MB,
   20 * MB + 1, 50 * MB - 1, 50 * MB, 52 * MB, 52 * MB + 1}

ChunkInputs ==
  [size : Sizes, type : MediaType, category : MediaCategory, chunk_size : {0},
   optimistic : {TRUE}]

CheckedInputs == ProtocolInputs \cup ChunkInputs
============================================================================
