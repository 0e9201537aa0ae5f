SPECIFICATION Spec
CONSTANTS
  y = y
  n = n
  z = z
  g1 = g1
  g2 = g2
  Users = {alice}
  Groups = {g1, g2}
  LowerCase <- MCLowerCase
  EmptyText <- MCEmptyText
  Labels <- MCLabels
  OutcomeLists <- MCOutcomeLists
  Questions = {question}
  Deadlines = {1, 2}
  MaxMarkets = 2
  MaxTime = 2
  MaxHeight = 3
  Prices = {1}
  InvalidPrice = InvalidPrice
  Amounts = {1}
  Denoms = {usd}
  OutcomeIndexes = {0, 2}
  MaxOrders = 1
  Votes <- MCVotes
  Nonces <- MCNonces
  NonceLengths = {1}
  ShortCommitment = ShortCommitment
  IntMax = 3
  Adjustments <- MCPenalties
  MaxScore = 2
CHECK_DEADLOCK FALSE
SYMMETRY Interchangeable
INVARIANTS
  OrdersHaveMarkets
  RevealsStayBound
  ScoresAreEarned
PROPERTIES
  VotesOutliveTheChain
