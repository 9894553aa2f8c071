CONSTANTS
  p1 = p1
  p2 = p2
  Theme = {"dark", "light"}
  Row = {"r1", "r2"}
  RowVerb = {"delete"}
  Resource = {"pods"}
  MaxKeys = 4
  MaxInbox = 2
  MaxSwitches = 1
  Seed <- MCSeed
  Namespace = "seam"
  Extras <- MCExtras
  Customs <- MCCustoms
  SectionOf <- MCSectionOf
  Queries = {{}, {"pods", "c1"}}
  Heights = {2, 3}
  Opened = {"pods"}
  Uid = {"a", "b"}
  Samples <- MCSamples
  Sizes = {1, 2}
  MaxOpens = 1
  MaxLines = 2
  Chunk = 1
  Batch = 2
  MaxWritten = 5
  MaxLogKeys = 5
  Workload = {"w"}
  PodName = {p1, p2}
  Service = {"s"}
  NodeName = {"n"}
  Verb = {"delete", "drain", "scale", "restart", "forward"}
  MaxAsks = 3
  MaxPrompts = 2
  KeyName = {"g", "r", "d"}
  Browse = {"table", "logs"}
  Text = {"filter"}
  Bound <- MCBound
  AcceptKeys = {"d"}
  MaxPresses = 3
  Painted <- MCPainted
  Own = "light"
  MaxPicks = 2
  MaxAnswers = 2
SPECIFICATION ScreenSpec
SYMMETRY Symmetry
INVARIANTS
  TypeOK
  PreviewLeavesNoTrace
  PicksAreWhatWasShown
  RowsHaveReasons
  RowsAreTheLiveOnes
  ShownIsARebuild
  OnlyWhatWasAskedFor
  ActsOnWhatWasNamed
  SequencesAreTrue
PROPERTIES
  CursorsKeepTheirPlace
  WarnsIfIgnored
CHECK_DEADLOCK FALSE
