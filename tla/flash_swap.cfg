\* Every list of accounts and instructions of a small transaction.
SPECIFICATION Spec
CONSTANTS
  Transactions <- SmallTransactions
  AmountIn = 2
  Leftovers = {0, 1}
INVARIANT EqualAccountsPass
