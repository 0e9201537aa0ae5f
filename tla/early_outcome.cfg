SPECIFICATION FairSpec
CONSTANTS
  y = y
  Y = Y
  n = n
  z = z
  alice = alice
  bob = bob
  g1 = g1
  g2 = g2
  LowerCase <- MCLowerCase
  EmptyText <- MCEmptyText
  Labels <- MCLabels
  OutcomeLists <- MCOutcomeLists
  Votes <- MCVotes
  Nonces <- MCNonces
  NonceLengths = {1}
  ShortCommitment = ShortCommitment
  Users = {alice, bob}
  Groups = {g1}
  Questions = {question}
  Deadlines = {1}
  MaxMarkets = 1
  MaxTime = 2
  MaxHeight = 2
  IntMax = 100
  Adjustments = {2}
  MaxScore = 2
  Slash = Slash
  AddressLength = 3
  MaxMarketId = 12
CHECK_DEADLOCK FALSE
PROPERTIES
  FinalizationWaits
