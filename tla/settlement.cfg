SPECIFICATION Spec
CONSTANTS
  y = y
  Y = Y
  n = n
  z = z
  alice = alice
  bob = bob
  g1 = g1
  g2 = g2
  LowerCase <- MCLowerCase
  EmptyText <- MCEmptyText
  Labels <- MCLabels
  OutcomeLists <- MCBothLists
  Votes <- MCVotes
  Nonces <- MCOneNonce
  NonceLengths = {1}
  ShortCommitment = ShortCommitment
  Users = {alice, bob}
  Groups = {g1, g2}
  Questions = {question}
  Deadlines = {1}
  MaxMarkets = 2
  MaxTime = 1
  MaxHeight = 2
  IntMax = 3
  Adjustments = {2}
  MaxScore = 2
  Slash = Slash
  AddressLength = 5
  MaxMarketId = 120
CHECK_DEADLOCK FALSE
VIEW ButCreators
SYMMETRY Interchangeable
INVARIANTS
  ScansAreExact
  TypeOK
  RevealsOpenCommits
  OnlyAfterDeadline
PROPERTIES
  VotesAreFinal
  ConsensusIsHeaviest
  ScoresFollowVotes
  HoldsElections
