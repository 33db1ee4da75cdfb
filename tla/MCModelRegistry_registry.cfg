\* overlapping reloads and a retrain over a migrated table
CONSTANTS
  a1 = a1
  a2 = a2
  a3 = a3
  p1 = p1
  old1 = old1
  old2 = old2
  Reloads = {a1, a2, a3}
  Retrains = {p1}
  Legacy = {old1, old2}
  Age <- MCAge
  AtStart = AtStart
  None = None
SPECIFICATION FairSpec
INVARIANTS TypeOK ExactlyOneActive EngineRegistered NoneStuck
PROPERTIES RegistryImplemented TransactionsEnd
CHECK_DEADLOCK FALSE
