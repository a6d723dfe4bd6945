\* Two videos that share one worker, and a post of images; two pieces each, one
\* segment beside the playlist.
CONSTANTS
  Posts = {v1, v2, i1}
  Videos = {v1, v2}
  Pieces = {n1, n2}
  Segments = {s1}
  Workers = 1
SPECIFICATION FairSpec
INVARIANTS StorageIsSound StreamsArePlayable
PROPERTIES EveryVideoIsStreamed EveryPageIsAnswered
\* All posts are shared.
CHECK_DEADLOCK FALSE
