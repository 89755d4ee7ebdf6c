CONSTANTS
  Ekey = {"a", "b"}
  Touch = {"t"}
  PriorFiles <- MCPriorFiles
  PriorWeight = 3
  MinSupport = 2
  IdleLimit = 2
  Limit = 2
  WinLevel = 2
  Bounds <- MCBounds
  Frame = {"start", "moved", "grown"}
  FirstFrame = "start"
  Keys = {"up", "down"}
  Clicks = {"click", "other"}
  Signature <- MCSignature
  Seeds <- MCSeeds
  Offers <- MCOffers
  RecipeTries = 1
  MostRecipes = 2
  Budget <- MCBudget
  TopLevel = 2
  NoAction = "none"
  MaxPlays = 2
  MaxActions = 3
SPECIFICATION AgentsSpec
CHECK_DEADLOCK FALSE
INVARIANTS SupportIsAccounted KeptCreditsDiffer OnlyFreshEvidencePenalizes LearnedIsSeen
PROPERTIES GameEnds
