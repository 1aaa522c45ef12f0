SPECIFICATION FairSpec
CONSTANTS
  Blank = ""
  Name <- Names
  Lower <- LowerCase
  Prefixed <- OfWorkspace
  User = {"ua", "ub"}
  Token = {"own", "process"}
  Message <- Messages
  Registry <- LocalBots
  Roster <- Rosters
  Unavailable = Unavailable
  Settings <- Environments
  Proposal <- Graphs
  NoMessage = NoMessage
  NoGraph = NoGraph
  MaxMessages = 2
INVARIANTS
  SubmissionInv
  RequestsCarryOwnCredentials
  WorkGoesToNamedBots
  PlansAreLaidOut
PROPERTIES
  EveryMessageLeaves
