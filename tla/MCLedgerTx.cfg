SPECIFICATION FairSpec
CONSTANTS
  t1 = t1
  t2 = t2
  t3 = t3
  none = none
  NoTx = none
  Txns <- MCTxns
  Keys <- MCKeys
  Requests <- MCRequests
  Provisioned = {"shop", "transit"}
  Opening <- MCOpening
INVARIANTS TypeOK NoNegativeStock ProvisionedBalanceExact NeverOverstated
PROPERTIES HeldBalanceIsStable Serializable EveryRequestEnds
CHECK_DEADLOCK FALSE
