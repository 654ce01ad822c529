SPECIFICATION Spec
CONSTANTS
  c1 = c1
  c2 = c2
  Companies = {c1, c2}
  Users = {u1, u2}
  Home <- MCHome
  Database <- OwnDatabases
  Schedulers = {s1}
  Requests = {r1}
  Days = {1, 2}
  SendDays = {1}
  MaxCrashes = 1
  Fragile = {c1}
  None = None
INVARIANTS TypeOK MailedOnce SentAreRecorded
PROPERTIES EveryoneTried ServedWhileTheDayLasts
