SPECIFICATION FairSpec
CONSTANTS
  Messages = {"m", "n"}
  None = None
  MaxRevisions = 1
  MaxClicks = 3
  MaxRounds = 2
INVARIANTS StraysAreBrief
PROPERTIES PagesInOrder LoopsEnd
CHECK_DEADLOCK FALSE
