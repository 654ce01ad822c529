SPECIFICATION Spec
CONSTANTS
  Runs = {1}
  Companies <- MCCompanies
  CompanyOf <- MCCompanyOf
  Reviewable = {1}
  Workers = {w1, w2}
  Clients = {c1, c2}
  Verbs = {"review", "retry", "cancel"}
  Mishaps = {"crash", "unrecorded", "slow"}
  MaxMishaps = 1
  None = None
INVARIANTS SweepsSeeEveryClaim ValuesBeforeWalk
