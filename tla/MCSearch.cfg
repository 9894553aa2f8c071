CONSTANTS
  Object = {"a", "b"}
  Text = {"q"}
  Score = {1, 2}
  MaxKeys = 4
  MaxHits = 2
  MaxInbox = 3
SPECIFICATION FairSpec
INVARIANTS TypeOK HitsAreOfTheQueryIfPrompt SelectionLands
PROPERTIES CursorKeepsItsHit SearchesEnd
CHECK_DEADLOCK FALSE
