SPECIFICATION FairSpec
CONSTANTS
  alice = alice
  bob = bob
  yes = yes
  no = no
  EmptyText = EmptyText
  InvalidPrice = InvalidPrice
  NoTx = NoTx
  Users = {alice, bob}
  Groups = {group}
  Labels = {yes, no}
  Questions = {question}
  OutcomeLists <- MCOutcomeLists
  Deadlines = {0, 1}
  MaxMarkets = 1
  MaxTime = 1
  MaxHeight = 1
  Prices <- MCPrices
  Amounts <- MCAmounts
  Denoms = {usd}
  OutcomeIndexes = {0, 1, 2}
  MaxOrders = 2
CHECK_DEADLOCK FALSE
INVARIANTS
  FillStatus
  TradesHonourLimits
PROPERTIES
  BookIsolation
  PostTerminates
