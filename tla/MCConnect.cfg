SPECIFICATION FairSpec
CONSTANTS
  Names = {"jump", "host"}
  Algs = {"ed"}
  KeyIds = {1, 2}
  Callers = {w1, w2}
  Route <- MCRoute
  KnownFiles <- MCKnownFiles
  LearnTo = "app"
  FirstFiles <- MCFirstFiles
  MaxConns = 2
INVARIANTS
  TimedOutIsSilent
  PromptsApart
  LearnedIsKnown
  OneKeyEach
PROPERTY
  HopsEnd
CHECK_DEADLOCK FALSE
