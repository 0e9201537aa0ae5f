SPECIFICATION Spec
CONSTANTS
  alice = alice
  bob = bob
  yes = yes
  no = no
  EmptyText = EmptyText
  InvalidPrice = InvalidPrice
  NoTx = NoTx
  Users = {alice}
  Groups = {group}
  Labels = {yes, no}
  Questions = {question}
  OutcomeLists <- MCOutcomeLists
  Deadlines = {1}
  MaxMarkets = 1
  MaxTime = 1
  MaxHeight = 2
  Prices <- MCPrices
  Amounts = {1, 2}
  Denoms = {usd}
  OutcomeIndexes = {0}
  MaxOrders = 3
CHECK_DEADLOCK FALSE
INVARIANTS
  TradingClosesAtDeadline
