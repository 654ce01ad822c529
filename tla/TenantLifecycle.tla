--------------------------- MODULE TenantLifecycle ---------------------------
(***************************************************************************)
(* src/services/tenant-provisioning.service.ts: how the database of one    *)
(* company is provisioned, moved and decommissioned, with the requests     *)
(* that suspend and resume it, and the company's own writes.               *)
(*                                                                         *)
(* A request runs in the ambient transaction of its response: what it      *)
(* wrote to the registry is its own until it answers. What it does on a    *)
(* server (roles, databases) is done at once, and so is every statement of *)
(* the provisioning it leaves running behind it and of the move script.    *)
(* Everything is named after the company, so a server holds at most one    *)
(* role and one database of it.                                            *)
(***************************************************************************)
EXTENDS Naturals, FiniteSets

CONSTANTS
  Rows,      \* tenant_databases ids, in the order they are handed out
  Servers,   \* db_servers that accept placements
  Core,      \* the core database, as the place of a shared-target row
  Requests,  \* concurrent requests of an administrator
  Scripts,   \* concurrent tenant:move processes
  Verbs,     \* what a request may ask for
  Writes,    \* what the company's own requests write
  MaxFaults, \* bound on failures, crashes and rollbacks
  None

Jobs == Requests \cup Scripts
Places == Servers \cup {Core}
Live == {"active", "suspended", "decommissioning"}
Building == {"provisioning", "failed"}
Statuses == Live \cup Building \cup {"absent", "retired"}

ASSUME LifecycleAssumption ==
  /\ Rows \subseteq Nat /\ IsFiniteSet(Rows)
  /\ Core \notin Servers /\ None \notin Places /\ None \notin Rows
  /\ Requests \cap Scripts = {}
  /\ Verbs \subseteq {"provision", "suspend", "resume", "decommission"}
  /\ MaxFaults \in Nat

VARIABLES
  status, place,       \* the registry: what is committed
  company,             \* the row of companies exists
  pending,             \* what a request wrote and has not committed
  role,                \* a server's login role: the row whose password it has
  login,               \* ... and whether it may still log in
  database,            \* a server's database
  parked,              \* one was renamed away
  data,                \* the writes a place holds
  via,                 \* the row through which a write was routed
  acked, late,         \* history: those answered; those of them that came late
  at, src, tgt,        \* where a job is, the rows it works on
  saw,                 \* the status it read
  faults

registry == <<status, place, company>>
server == <<role, login, database, parked>>
job == <<at, src, tgt, saw>>
calls == <<via, acked, late>>
vars == <<registry, pending, server, data, calls, job, faults>>

NoChange == [row |-> None, to |-> "absent"]
Steps == {"idle", "preparing", "role", "database", "migrate", "activating",
          "failing", "suspending", "targeting", "wiping", "copying",
          "verifying", "restoring", "flipping", "retiring", "parking",
          "revoking", "purging"}
Decommissioning == {"retiring", "parking", "revoking", "purging"}

TypeOK ==
  /\ status \in [Rows -> Statuses]
  /\ place \in [Rows -> Places \cup {None}]
  /\ company \in BOOLEAN
  /\ pending \in [Jobs -> [row : Rows \cup {None},
                        to : Statuses \cup {"purged"}]]
  /\ role \in [Servers -> Rows \cup {None}]
  /\ login \in [Servers -> BOOLEAN]
  /\ database \in [Servers -> {"none", "made", "ready"}]
  /\ parked \in [Servers -> BOOLEAN]
  /\ data \in [Places -> SUBSET Writes]
  /\ via \in [Writes -> Rows \cup {None}]
  /\ acked \in SUBSET Writes /\ late \in SUBSET acked
  /\ at \in [Jobs -> Steps]
  /\ src \in [Jobs -> Rows \cup {None}]
  /\ tgt \in [Jobs -> Rows \cup {None}]
  /\ saw \in [Jobs -> Statuses]
  /\ faults \in 0 .. MaxFaults

(* A company nobody provisioned yet, or one registerShared put on core.    *)
Init ==
  /\ \/ status = [r \in Rows |-> "absent"] /\ place = [r \in Rows |-> None]
     \/ \E r \in Rows :
          /\ \A q \in Rows : r <= q
          /\ status = [q \in Rows |-> IF q = r THEN "active" ELSE "absent"]
          /\ place = [q \in Rows |-> IF q = r THEN Core ELSE None]
  /\ company = TRUE
  /\ pending = [j \in Jobs |-> NoChange]
  /\ role = [s \in Servers |-> None]
  /\ login = [s \in Servers |-> TRUE]
  /\ database = [s \in Servers |-> "none"]
  /\ parked = [s \in Servers |-> FALSE]
  /\ data = [p \in Places |-> {}]
  /\ via = [w \in Writes |-> None]
  /\ acked = {} /\ late = {}
  /\ at = [j \in Jobs |-> "idle"]
  /\ src = [j \in Jobs |-> None]
  /\ tgt = [j \in Jobs |-> None]
  /\ saw = [j \in Jobs |-> "absent"]
  /\ faults = 0

-----------------------------------------------------------------------------
(* The registry. A statement sees what is committed and what its own       *)
(* request wrote. An update waits for another request's only if it would   *)
(* change the committed row: a row it does not match is passed over.       *)

Purged(j) == pending[j].to = "purged"

View(j, r) == IF pending[j].row = r THEN pending[j].to ELSE status[r]

Locked(j, r) == \E k \in Jobs \ {j} : pending[k].row = r \/ Purged(k)

(* transition() outside a request: a compare-and-set whose result nobody   *)
(* but the script's suspension looks at.                                   *)
Transition(j, r, from, to) ==
  /\ status[r] = from => ~Locked(j, r)
  /\ status' = IF status[r] = from THEN [status EXCEPT ![r] = to] ELSE status

(* The same inside one.                                                    *)
TransitionInRequest(j, r, from, to) ==
  /\ View(j, r) = from => ~Locked(j, r)
  /\ pending' = IF View(j, r) = from
                  THEN [pending EXCEPT ![j] = [row |-> r, to |-> to]]
                  ELSE pending

LiveRows == {r \in Rows : status[r] \in Live}
BuildingRows == {r \in Rows : status[r] \in Building}

(* The serial's next value: an insert that is rolled back uses it up.      *)
IsNext(r) == place[r] = None /\ \A q \in Rows : place[q] = None => r <= q

(* The two unique indexes on what an insert adds: one building row of a    *)
(* company, one row for a database.                                        *)
MayInsert(s) == /\ company /\ BuildingRows = {}
                /\ \A q \in Rows : status[q] # "absent" => place[q] # s

(* It waits for whoever has inserted or purged and not committed.          *)
InsertWaits(j) ==
  \E k \in Jobs \ {j} : \/ Purged(k)
                        \/ \E r \in Rows : /\ pending[k].row = r
                                           /\ status[r] = "absent"

Go(j, step) == at' = [at EXCEPT ![j] = step]

Done(j) == /\ Go(j, "idle")
           /\ src' = [src EXCEPT ![j] = None]
           /\ tgt' = [tgt EXCEPT ![j] = None]
           /\ saw' = [saw EXCEPT ![j] = "absent"]

Ready(j) == at[j] = "idle" /\ pending[j] = NoChange

(* findNameCollision.                                                      *)
Collides(s) == database[s] # "none" \/ role[s] # None

(* Whoever presents the credential of r gets into its database.            *)
Connects(r) ==
  \/ place[r] = Core
  \/ /\ place[r] \in Servers /\ database[place[r]] # "none"
     /\ role[place[r]] = r /\ login[place[r]]

Fault == faults < MaxFaults /\ faults' = faults + 1

-----------------------------------------------------------------------------
(* The response of a request: it commits, or it rolls back because the     *)
(* commit fails or the client went away.                                   *)

(* Mutant of Answer: the row gets the outcome as it stands.                *)
AnswerVerbatim(j) ==
  /\ pending[j] # NoChange /\ at[j] \notin Decommissioning
  /\ status' = [r \in Rows |-> IF r = pending[j].row THEN pending[j].to
                                                    ELSE status[r]]
  /\ company' = (company /\ ~Purged(j))
  /\ pending' = [pending EXCEPT ![j] = NoChange]
  /\ UNCHANGED <<place, server, data, calls, job, faults>>

Answer(j) ==
  /\ pending[j] # NoChange /\ at[j] \notin Decommissioning
  /\ status' = [r \in Rows |->
                  IF Purged(j)
                    THEN IF r = pending[j].row \/ status[r] \in Building
                           THEN "absent" ELSE status[r]
                    ELSE IF r = pending[j].row THEN pending[j].to ELSE status[r]]
  /\ company' = (company /\ ~Purged(j))
  /\ pending' = [pending EXCEPT ![j] = NoChange]
  /\ UNCHANGED <<place, server, data, calls, job, faults>>

RollBack(j) ==
  /\ pending[j] # NoChange /\ at[j] \notin Decommissioning
  /\ Fault
  /\ pending' = [pending EXCEPT ![j] = NoChange]
  /\ UNCHANGED <<registry, server, data, calls, job>>

(* POST .../suspend and .../resume.                                        *)
Switch(j, verb) ==
  LET from == IF verb = "suspend" THEN "active" ELSE "suspended"
      to == IF verb = "suspend" THEN "suspended" ELSE "active"
  IN /\ Ready(j)
     /\ \E r \in LiveRows : /\ status[r] = from
                             /\ TransitionInRequest(j, r, from, to)
     /\ UNCHANGED <<registry, server, data, calls, job, faults>>

-----------------------------------------------------------------------------
(* beginProvisioning: a company without a live row gets a building one, or *)
(* resumes the one it has.                                                 *)

BeginProvisioning(j) ==
  /\ Ready(j) /\ company /\ LiveRows = {}
  /\ IF BuildingRows # {}
       THEN \E b \in BuildingRows : /\ tgt' = [tgt EXCEPT ![j] = b]
                                     /\ saw' = [saw EXCEPT ![j] = status[b]]
       ELSE UNCHANGED <<tgt, saw>>
  /\ Go(j, "preparing")
  /\ UNCHANGED <<registry, pending, server, data, calls, src, faults>>

(* A failed row is put back, whatever became of it; one that was already   *)
(* provisioning is run as it is.                                           *)
ResumeBuilding(j) ==
  /\ at[j] = "preparing" /\ tgt[j] # None
  /\ IF saw[j] = "failed"
       THEN TransitionInRequest(j, tgt[j], "failed", "provisioning")
       ELSE UNCHANGED pending
  /\ IF saw[j] = "failed" /\ status[tgt[j]] = "absent"
       THEN Done(j)
       ELSE Go(j, "role") /\ UNCHANGED <<src, tgt, saw>>
  /\ UNCHANGED <<registry, server, data, calls, faults>>

(* A name that is taken leaves a failed row and no run; a row that exists  *)
(* by now refuses the insert and the request.                              *)
CreateRow(j, s) ==
  /\ at[j] = "preparing" /\ tgt[j] = None /\ ~InsertWaits(j)
  /\ IF ~MayInsert(s)
       THEN Done(j) /\ UNCHANGED <<place, pending>>
       ELSE \E r \in Rows :
              /\ IsNext(r)
              /\ place' = [place EXCEPT ![r] = s]
              /\ pending' = [pending EXCEPT ![j] =
                   [row |-> r, to |-> IF Collides(s) THEN "failed"
                                                     ELSE "provisioning"]]
              /\ IF Collides(s)
                   THEN Done(j)
                   ELSE /\ tgt' = [tgt EXCEPT ![j] = r]
                        /\ Go(j, "role")
                        /\ UNCHANGED <<src, saw>>
  /\ UNCHANGED <<status, company, server, data, calls, faults>>

-----------------------------------------------------------------------------
(* The steps on the server, which a request leaves running behind it and   *)
(* the script awaits. Each looks whether it is done already.               *)

EnsureRole(j) ==
  /\ at[j] = "role"
  /\ LET s == place[tgt[j]] IN
       IF role[s] = None
         THEN /\ role' = [role EXCEPT ![s] = tgt[j]]
              /\ login' = [login EXCEPT ![s] = TRUE]
         ELSE UNCHANGED <<role, login>>
  /\ Go(j, "database")
  /\ UNCHANGED <<registry, pending, database, parked, data, calls, src, tgt,
                 saw, faults>>

EnsureDatabase(j) ==
  /\ at[j] = "database"
  /\ LET s == place[tgt[j]] IN
       IF database[s] = "none"
         THEN /\ database' = [database EXCEPT ![s] = "made"]
              /\ data' = [data EXCEPT ![s] = {}]
         ELSE UNCHANGED <<database, data>>
  /\ Go(j, "migrate")
  /\ UNCHANGED <<registry, pending, role, login, parked, calls, src, tgt,
                 saw, faults>>

(* Mutant of Migrate: an error is swallowed.                               *)
MigrateOrNot(j) ==
  /\ at[j] = "migrate"
  /\ IF Connects(tgt[j])
       THEN database' = [database EXCEPT ![place[tgt[j]]] = "ready"]
       ELSE UNCHANGED database
  /\ Go(j, IF j \in Scripts THEN "wiping" ELSE "activating")
  /\ UNCHANGED <<registry, pending, role, login, parked, data, calls, src, tgt,
                 saw, faults>>

(* Migrations and seeds run with the row's own credential.                 *)
Migrate(j) ==
  /\ at[j] = "migrate"
  /\ IF Connects(tgt[j])
       THEN /\ database' = [database EXCEPT ![place[tgt[j]]] = "ready"]
            /\ Go(j, IF j \in Scripts THEN "wiping" ELSE "activating")
       ELSE Go(j, "failing") /\ UNCHANGED database
  /\ UNCHANGED <<registry, pending, role, login, parked, data, calls, src, tgt,
                 saw, faults>>

StepFails(j) ==
  /\ at[j] \in {"role", "database", "migrate"}
  /\ Fault
  /\ Go(j, "failing")
  /\ UNCHANGED <<registry, pending, server, data, calls, src, tgt, saw>>

(* A company has one live row: where it has another, the update throws.    *)
Activate(j) ==
  /\ at[j] = "activating"
  /\ \A r \in LiveRows : ~Locked(j, r)
  /\ IF status[tgt[j]] = "provisioning" /\ LiveRows # {}
       THEN Go(j, "failing") /\ UNCHANGED <<status, src, tgt, saw>>
       ELSE Transition(j, tgt[j], "provisioning", "active") /\ Done(j)
  /\ UNCHANGED <<place, company, pending, server, data, calls, faults>>

(* The row says so; the script then gives the company its source back.     *)
MarkFailed(j) ==
  /\ at[j] = "failing"
  /\ Transition(j, tgt[j], "provisioning", "failed")
  /\ IF j \in Scripts THEN Go(j, "restoring") /\ UNCHANGED <<src, tgt, saw>>
                       ELSE Done(j)
  /\ UNCHANGED <<place, company, pending, server, data, calls, faults>>

-----------------------------------------------------------------------------
(* move, up to the steps above.                                            *)

(* Bound: no move is begun that could not have a row of its own.           *)
BeginMove(j) ==
  /\ Ready(j) /\ company
  /\ \E r \in LiveRows :
       /\ \/ status[r] = "active" /\ \E q \in Rows : place[q] = None
          \/ status[r] = "suspended"
       /\ src' = [src EXCEPT ![j] = r]
       /\ Go(j, IF status[r] = "active" THEN "suspending" ELSE "targeting")
  /\ UNCHANGED <<registry, pending, server, data, calls, tgt, saw, faults>>

Suspend(j) ==
  /\ at[j] = "suspending"
  /\ Transition(j, src[j], "active", "suspended")
  /\ IF status[src[j]] = "active"
       THEN Go(j, "targeting") /\ UNCHANGED <<src, tgt, saw>>
       ELSE Done(j)
  /\ UNCHANGED <<place, company, pending, server, data, calls, faults>>

(* Mutant of TakeTarget: any row of the company on that server will do.    *)
TakeAnyRow(j, s) ==
  /\ at[j] = "targeting"
  /\ \E b \in BuildingRows \cup LiveRows :
       /\ place[b] = s
       /\ tgt' = [tgt EXCEPT ![j] = b]
       /\ Go(j, "role")
  /\ UNCHANGED <<registry, pending, server, data, calls, src, saw, faults>>

(* Another server's target refuses the move and leaves the source as it is. *)
TakeTarget(j, s) ==
  /\ at[j] = "targeting"
  /\ \E b \in BuildingRows :
       IF place[b] # s
         THEN Done(j) /\ UNCHANGED status
         ELSE /\ IF status[b] = "failed"
                   THEN Transition(j, b, "failed", "provisioning")
                   ELSE UNCHANGED status
              /\ tgt' = [tgt EXCEPT ![j] = b]
              /\ Go(j, "role")
              /\ UNCHANGED <<src, saw>>
  /\ UNCHANGED <<place, company, pending, server, data, calls, faults>>

CreateTarget(j, s) ==
  /\ at[j] = "targeting" /\ BuildingRows = {} /\ ~InsertWaits(j)
  /\ IF Collides(s)
       THEN Go(j, "restoring") /\ UNCHANGED <<status, place, tgt, src, saw>>
       ELSE IF ~MayInsert(s)
       THEN Done(j) /\ UNCHANGED <<status, place>>
       ELSE \E r \in Rows : /\ IsNext(r)
                            /\ place' = [place EXCEPT ![r] = s]
                            /\ status' = [status EXCEPT ![r] = "provisioning"]
                            /\ tgt' = [tgt EXCEPT ![j] = r]
                            /\ Go(j, "role")
                            /\ UNCHANGED <<src, saw>>
  /\ UNCHANGED <<company, pending, server, data, calls, faults>>

Restore(j) ==
  /\ at[j] = "restoring"
  /\ Transition(j, src[j], "suspended", "active")
  /\ Done(j)
  /\ UNCHANGED <<place, company, pending, server, data, calls, faults>>

-----------------------------------------------------------------------------
(* move, after them: wipe, copy, compare counts, flip.                     *)

Wipe(j) ==
  /\ at[j] = "wiping" /\ Connects(src[j]) /\ Connects(tgt[j])
  /\ data' = [data EXCEPT ![place[tgt[j]]] = {}]
  /\ Go(j, "copying")
  /\ UNCHANGED <<registry, pending, server, calls, src, tgt, saw, faults>>

Copy(j) ==
  /\ at[j] = "copying" /\ Connects(src[j]) /\ Connects(tgt[j])
  /\ data' = [data EXCEPT ![place[tgt[j]]] = @ \cup data[place[src[j]]]]
  /\ Go(j, "verifying")
  /\ UNCHANGED <<registry, pending, server, calls, src, tgt, saw, faults>>

(* Only counts are compared: what came, went or changed since the copy may *)
(* leave them equal.                                                       *)
Verify(j) ==
  /\ at[j] = "verifying" /\ Connects(src[j]) /\ Connects(tgt[j])
  /\ \/ Go(j, "flipping")
     \/ Go(j, "failing") /\ data[place[src[j]]] # data[place[tgt[j]]]
  /\ UNCHANGED <<registry, pending, server, data, calls, src, tgt, saw, faults>>

(* Mutant of Flip: by id alone, as if nobody resumed the source.           *)
FlipUnconditionally(j) ==
  /\ at[j] = "flipping" /\ ~Locked(j, src[j]) /\ ~Locked(j, tgt[j])
  /\ status' = [status EXCEPT ![src[j]] = "retired", ![tgt[j]] = "active"]
  /\ Done(j)
  /\ UNCHANGED <<place, company, pending, server, data, calls, faults>>

(* One transaction: both rows change or neither does.                      *)
Flip(j) ==
  /\ at[j] = "flipping"
  /\ LET both == status[src[j]] = "suspended" /\ status[tgt[j]] = "provisioning"
     IN /\ both => ~Locked(j, src[j]) /\ ~Locked(j, tgt[j])
        /\ status' = IF both
             THEN [status EXCEPT ![src[j]] = "retired", ![tgt[j]] = "active"]
             ELSE status
  /\ Done(j)
  /\ UNCHANGED <<place, company, pending, server, data, calls, faults>>

(* The script throws or is killed, or it cannot enter a database.          *)
Die(j) ==
  /\ at[j] # "idle"
  /\ IF at[j] \in {"wiping", "copying", "verifying"}
         /\ ~(Connects(src[j]) /\ Connects(tgt[j]))
       THEN UNCHANGED faults ELSE Fault
  /\ Done(j)
  /\ UNCHANGED <<registry, pending, server, data, calls>>

-----------------------------------------------------------------------------
(* DELETE /companies/:uuid: decommissionTenantDatabase, or the purge alone *)
(* for a company without a live row.                                       *)

BeginDelete(j) ==
  /\ Ready(j) /\ company
  /\ IF LiveRows = {}
       THEN Go(j, "purging") /\ UNCHANGED <<src, saw>>
       ELSE \E r \in LiveRows :
              /\ src' = [src EXCEPT ![j] = r]
              /\ saw' = [saw EXCEPT ![j] = status[r]]
              /\ Go(j, "retiring")
  /\ UNCHANGED <<registry, pending, server, data, calls, tgt, faults>>

(* The result is not looked at.                                            *)
Retire(j) ==
  /\ at[j] = "retiring"
  /\ IF saw[j] # "decommissioning"
       THEN TransitionInRequest(j, src[j], saw[j], "decommissioning")
       ELSE UNCHANGED pending
  /\ Go(j, IF place[src[j]] = Core THEN "purging" ELSE "parking")
  /\ UNCHANGED <<registry, server, data, calls, src, tgt, saw, faults>>

(* Renamed away; nothing to do if an earlier attempt did.                  *)
Park(j) ==
  /\ at[j] = "parking"
  /\ LET s == place[src[j]] IN
       /\ database' = [database EXCEPT ![s] = "none"]
       /\ parked' = [parked EXCEPT ![s] = @ \/ database[s] # "none"]
  /\ Go(j, "revoking")
  /\ UNCHANGED <<registry, pending, role, login, data, calls, src, tgt, saw,
                 faults>>

Revoke(j) ==
  /\ at[j] = "revoking"
  /\ login' = [login EXCEPT ![place[src[j]]] = FALSE]
  /\ Go(j, "purging")
  /\ UNCHANGED <<registry, pending, role, database, parked, data, calls, src,
                 tgt, saw, faults>>

(* The building rows, the row if it is decommissioning, and the company    *)
(* are deleted; any other row of the company restricts that.               *)
Purge(j) ==
  /\ at[j] = "purging"
  /\ \A k \in Jobs \ {j} : pending[k] = NoChange
  /\ LET rest == {r \in Rows : View(j, r) \notin Building \cup {"absent"}}
         gone == {r \in rest : r = src[j] /\ View(j, r) = "decommissioning"}
     IN pending' = [pending EXCEPT ![j] =
          IF rest = gone THEN [row |-> src[j], to |-> "purged"] ELSE NoChange]
  /\ Done(j)
  /\ UNCHANGED <<registry, server, data, calls, faults>>

(* A step throws: 500, and what the request wrote is rolled back.          *)
RequestFails(j) ==
  /\ at[j] \in Decommissioning \cup {"preparing"}
  /\ Fault
  /\ pending' = [pending EXCEPT ![j] = NoChange]
  /\ Done(j)
  /\ UNCHANGED <<registry, server, data, calls>>

-----------------------------------------------------------------------------
(* The API process dies, with everything it was doing.                     *)
Restart ==
  /\ Fault
  /\ \E j \in Requests : ~Ready(j)
  /\ pending' = [j \in Jobs |-> NoChange]
  /\ at' = [j \in Jobs |-> IF j \in Requests THEN "idle" ELSE at[j]]
  /\ src' = [j \in Jobs |-> IF j \in Requests THEN None ELSE src[j]]
  /\ tgt' = [j \in Jobs |-> IF j \in Requests THEN None ELSE tgt[j]]
  /\ saw' = [j \in Jobs |-> IF j \in Requests THEN "absent" ELSE saw[j]]
  /\ UNCHANGED <<registry, server, data, calls>>

(* A request of the company is routed while the row is in service: its own *)
(* lookup, or the one whose cached answer it is given.                     *)
Route(r, w) ==
  /\ status[r] = "active" /\ via[w] = None /\ w \notin acked
  /\ via' = [via EXCEPT ![w] = r]
  /\ UNCHANGED <<registry, pending, server, data, acked, late, job, faults>>

(* History: the row is out of service, and its database has been copied    *)
(* or is left behind, so nothing carries over what is written to it now.   *)
Left(r) ==
  /\ status[r] # "active"
  /\ \/ status[r] \notin Live
     \/ \E j \in Scripts : src[j] = r /\ at[j] \in {"verifying", "flipping"}

(* What it writes is committed in that row's database and answered,        *)
(* whatever became of the row: its handle, and the cached answer of        *)
(* another process, outlive a suspension and a flip.                       *)
Serve(r, w) ==
  /\ via[w] = r /\ Connects(r)
  /\ data' = [data EXCEPT ![place[r]] = @ \cup {w}]
  /\ via' = [via EXCEPT ![w] = None]
  /\ acked' = acked \cup {w}
  /\ late' = IF Left(r) THEN late \cup {w} ELSE late
  /\ UNCHANGED <<registry, pending, server, job, faults>>

-----------------------------------------------------------------------------
RequestBegins(j) ==
  \/ "provision" \in Verbs /\ BeginProvisioning(j)
  \/ \E verb \in Verbs \cap {"suspend", "resume"} : Switch(j, verb)
  \/ "decommission" \in Verbs /\ BeginDelete(j)

RunStep(j) ==
  \/ EnsureRole(j) \/ EnsureDatabase(j) \/ Migrate(j) \/ StepFails(j)
  \/ MarkFailed(j)

Provisioning(j) ==
  \/ ResumeBuilding(j) \/ (\E s \in Servers : CreateRow(j, s)) \/ Activate(j)

Deleting(j) == Retire(j) \/ Park(j) \/ Revoke(j) \/ Purge(j)

Moving(j) ==
  \/ BeginMove(j) \/ Suspend(j)
  \/ \E s \in Servers : TakeTarget(j, s) \/ CreateTarget(j, s)
  \/ Restore(j) \/ Wipe(j) \/ Copy(j) \/ Verify(j) \/ Flip(j) \/ Die(j)

Next ==
  \/ \E j \in Requests : \/ RequestBegins(j) \/ Provisioning(j) \/ Deleting(j)
                         \/ Answer(j) \/ RollBack(j) \/ RequestFails(j)
  \/ \E j \in Scripts : Moving(j)
  \/ \E j \in Jobs : RunStep(j)
  \/ Restart
  \/ \E r \in Rows, w \in Writes : Route(r, w) \/ Serve(r, w)

Spec == Init /\ [][Next]_vars

-----------------------------------------------------------------------------
(* Properties.                                                             *)

(* The database a row names, unless a decommission renamed it away.        *)
InPlace(r) == place[r] \in Servers => ~parked[place[r]]

(* A row becomes active only when its database is migrated and its         *)
(* credential opens it, and stays so whatever late, doubled or rolled back *)
(* provisioning runs do to the same names                                  *)
(* (tenant-provisioning.service.ts:640-670).                               *)
LiveHasDatabase ==
  \A r \in Rows :
    status[r] = "active" /\ place[r] \in Servers /\ InPlace(r)
    => /\ database[place[r]] = "ready"
       /\ role[place[r]] = r /\ login[place[r]]

(* Whatever the company was answered for is in the database it works in,   *)
(* across a move that crashed anywhere, was run again, or whose source was *)
(* resumed under it (tenant-provisioning.service.ts:1155-1345), as long as  *)
(* no decommission took a database from under it. That includes what a     *)
(* request routed before the suspension writes after it, up to the copy.   *)
(* It leaves out the late writes, which the code does lose: the move waits *)
(* for no request in flight, its invalidateTenantCache reaches its own     *)
(* process only, and what an API process writes by a handle or a cached    *)
(* entry once the copy has read the source stays there after the flip,     *)
(* unless the counts betray it. It also takes one script at a time, and    *)
(* nobody who suspends a source resumed during the move again (Verbs).     *)
NoWriteLost ==
  \A r \in Rows : status[r] = "active" /\ (\A s \in Servers : ~parked[s])
                  => acked \ late \subseteq data[place[r]]

(* "A fault before that leaves `decommissioning`, and a rerun completes"   *)
(* (tenant-provisioning.service.ts:707-709): no row is back in service with *)
(* its database renamed away.                                              *)
FaultLeavesDecommissioning ==
  \A r \in Rows :
    /\ status[r] \in {"active", "suspended"} /\ ~InPlace(r)
    => \E j \in Requests : \/ src[j] = r /\ at[j] \in Decommissioning
                          \/ pending[j].row = r

(* "The target belongs to this one company alone, so clearing it first is  *)
(* always safe" (tenant-provisioning.service.ts:985-989): while one script *)
(* moves the company, no retry, late run or resume of it makes a move wipe *)
(* the tables of a live row.                                               *)
WipesSpareLive ==
  [][\A j \in Scripts : Wipe(j) => status[tgt[j]] \notin Live]_vars
=============================================================================
