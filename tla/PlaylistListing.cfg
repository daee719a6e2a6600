SPECIFICATION FairSpec
CONSTANTS
  None = None
  Entries = {1, 2, 3}
  NoText = "all"
  Texts = {"all", "two", "none", "short"}
  ShortTexts = {"short"}
  Matches <- MCMatches
  PerPage = 1
  MaxAsks = 4
  MaxDrags = 2
  MaxOthers = 1
  MaxFaults = 1
CHECK_DEADLOCK FALSE
INVARIANTS TypeOK PagesJoin DragsStick SaysNoneRightly
PROPERTIES LoadingEnds
