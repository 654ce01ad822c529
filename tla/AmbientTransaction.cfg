SPECIFICATION FairSpec
CONSTANTS
  Databases = {core, tenant}
  Queries = {q1, s1}
  Savepoints = {s1}
  Unheeded = {s1}
  Loose = {s1}
  None = None
INVARIANTS TypeOK NeverOkOverRollback ActionReachesEveryTransaction
PROPERTIES OnlyTheStrandedOutlive ImplementsUnitOfWork
