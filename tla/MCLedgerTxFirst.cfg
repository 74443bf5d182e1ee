SPECIFICATION Spec
CONSTANTS
  t1 = t1
  t2 = t2
  t3 = t3
  none = none
  NoTx = none
  Txns <- MCTxns
  Keys <- MCKeys
  Requests <- MCRequests
  Provisioned = {}
  Opening <- NoOpening
CHECK_DEADLOCK FALSE
INVARIANTS BalanceMatchesLedger
