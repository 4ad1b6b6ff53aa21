SPECIFICATION Spec
CONSTANTS
  c1 = c1
  c2 = c2
  c3 = c3
  c4 = c4
  y1 = y1
  y2 = y2
  docA = docA
  docB = docB
  None = None
  Years = {y1, y2}
  Chunk <- MCChunk
  Replies <- MCReplies
  FusionK = 60
  CandidateFloor = 3
  MaxTokens = 4
  MaxPerDocument = 1
  MaxPhrases = 4
  Limits = {1, 2, 3}
  CandidateLimit = 2
INVARIANTS
  AnswersAreGrounded
  RiskyAnswersAreDated
  FusionRespectsRankings
  ContextIsMaximal
  LayersAgree
\* The request ends.
CHECK_DEADLOCK FALSE
