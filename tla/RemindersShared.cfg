SPECIFICATION Spec
CONSTANTS
  c1 = c1
  c2 = c2
  Companies = {c1, c2}
  Users = {u1}
  Home <- MCHome
  Database <- OneDatabase
  Schedulers = {s1}
  Requests = {}
  Days = {1}
  SendDays = {1}
  MaxCrashes = 0
  Fragile = {}
  None = None
PROPERTIES ServedWhileTheDayLasts
