SPECIFICATION FairSpec
CONSTANTS
  Runs = {1, 2}
  Companies <- MCCompanies
  CompanyOf <- MCCompanyOf
  Reviewable = {2}
  Workers = {w1, w2}
  Clients = {c1}
  Verbs = {"review", "retry"}
  Mishaps = {"crash", "unreachable"}
  MaxMishaps = 1
  None = None
INVARIANTS TypeOK OneWorkerPerRun ReviewedBeforeWalk
PROPERTIES ImplementsRunQueue EveryRunIsAnswered
