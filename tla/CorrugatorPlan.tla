--------------------------- MODULE CorrugatorPlan ---------------------------
(***************************************************************************)
(* src/services/corrugator/plan.service.ts: the life of one corrugator     *)
(* plan - its lines, its combinations, its allocation ledger - under        *)
(* concurrent requests, background solves and restarts.                     *)
(*                                                                         *)
(* Every request runs in one ambient transaction (READ COMMITTED) that the *)
(* response commits, so a status read by a guard is a committed one and may*)
(* be old when the request writes; what a request wrote is in `pending`    *)
(* until Respond. Rows another transaction has locked make a statement     *)
(* wait; `held` is who has locked what. A solve runs in a worker thread and *)
(* reports through a transaction of its own.                               *)
(***************************************************************************)
EXTENDS Naturals, FiniteSets

CONSTANTS
  Orders,       \* production orders that may be lines of the plan
  Clients,      \* concurrent requests
  Runs,         \* solve tokens: the bound on how many solves are started
  Cap,          \* CORRUGATOR_MAX_CONCURRENT_SOLVES
  MaxCrashes,   \* bound on process restarts
  Hand,         \* the author of a combination nobody solved
  None

Statuses == {"draft", "solving", "solved", "failed", "registered"}

(* A run of the corrugator: who made it, and the orders its lanes cut.     *)
Combinations == [by : Runs \cup {Hand}, uses : SUBSET Orders]

Editing == {"add", "update", "remove", "configure"}
Adjusting == {"insert", "adjust"}
Kinds == Editing \cup Adjusting
           \cup {"delete", "solve", "cancel", "register", "unregister"}

ASSUME PlanAssumption ==
  /\ IsFiniteSet(Clients) /\ IsFiniteSet(Runs)
  /\ Cap \in Nat /\ MaxCrashes \in Nat
  /\ Hand \notin Runs /\ None \notin Runs \cup Orders \cup Clients
  /\ None \notin Kinds \cup Statuses \cup {"deleted", "ok", "error", "cancelled"}

VARIABLES
  status,       \* corrugator_plans.status, or "deleted"
  token,        \* its solveToken
  solveStatus,  \* its solveStatus
  lines,        \* corrugator_plan_orders
  combos,       \* corrugator_plan_combinations with their items
  allocated,    \* the lines whose allocatedSheets is not null
  pc, kind,     \* where a request is, and what it is
  seen,         \* the status a line edit's guard read
  target,       \* the order it edits
  run,          \* the token it starts a solve under
  pending,      \* what its transaction has written
  held,         \* the rows its transaction has locked
  closed,       \* its client went away: rolled back, the handler runs on
  solver,       \* of a run's worker
  report,       \* the outcome it settled with
  given,        \* the lines it was given
  active,       \* activeSolves.get(plan)
  sweep,        \* the boot sweep
  crashes

rowVars == <<status, token, solveStatus, lines, combos, allocated>>
clientVars == <<pc, kind, seen, target, run, pending, held, closed>>
solverVars == <<solver, report, given, active>>
vars == <<rowVars, clientVars, solverVars, sweep, crashes>>

Nothing == [status |-> None, dropped |-> {}, added |-> {}, allocated |-> {}]

(* What can be locked: a line, a combination, the plan's row (Plan), the   *)
(* reference a foreign key takes to it (KEY SHARE), the exclusive lock of  *)
(* FOR UPDATE and DELETE, and the position the next line gets.             *)
Plan == [lock |-> "row"]
Reference == [lock |-> "reference"]
Exclusive == [lock |-> "exclusive"]
Position == [lock |-> "position"]
Rows == Orders \cup Combinations \cup {Plan, Reference, Exclusive, Position}

(* An order is not one of the plan's own locks. *)
ASSUME LocksAssumption == Orders \cap {Plan, Reference, Exclusive, Position} = {}

TypeOK ==
  /\ status \in Statuses \cup {"deleted"}
  /\ token \in Runs \cup {None}
  /\ solveStatus \in {None, "ok", "error", "cancelled"}
  /\ lines \subseteq Orders
  /\ combos \subseteq Combinations
  /\ allocated \subseteq Orders
  /\ pc \in [Clients -> {"idle", "read", "dropping", "invalidating", "clearing",
                         "flipped", "stopping", "spreading", "answering"}]
  /\ kind \in [Clients -> Kinds \cup {None}]
  /\ seen \in [Clients -> Statuses \cup {None}]
  /\ target \in [Clients -> Orders \cup {None}]
  /\ run \in [Clients -> Runs \cup {None}]
  /\ pending \in [Clients -> [status : Statuses \cup {"deleted", None},
                              dropped : SUBSET Combinations,
                              added : SUBSET Combinations,
                              allocated : SUBSET Orders]]
  /\ held \in [Clients -> SUBSET Rows]
  /\ closed \in [Clients -> BOOLEAN]
  /\ solver \in [Runs -> {"unused", "working", "reporting", "over"}]
  /\ report \in [Runs -> {None, "ok", "error", "cancelled"}]
  /\ given \in [Runs -> SUBSET Orders]
  /\ active \in Runs \cup {None}
  /\ sweep \in {"idle", "reading", "writing"}
  /\ crashes \in 0..MaxCrashes

(* A plan createPlan has just committed. *)
Init ==
  /\ status = "draft" /\ token = None /\ solveStatus = None
  /\ lines \in (SUBSET Orders) \ {{}}
  /\ combos = {} /\ allocated = {}
  /\ pc = [c \in Clients |-> "idle"]
  /\ kind = [c \in Clients |-> None]
  /\ seen = [c \in Clients |-> None]
  /\ target = [c \in Clients |-> None]
  /\ run = [c \in Clients |-> None]
  /\ pending = [c \in Clients |-> Nothing]
  /\ held = [c \in Clients |-> {}]
  /\ closed = [c \in Clients |-> FALSE]
  /\ solver = [r \in Runs |-> "unused"]
  /\ report = [r \in Runs |-> None]
  /\ given = [r \in Runs |-> {}]
  /\ active = None
  /\ sweep = "idle" /\ crashes = 0

-----------------------------------------------------------------------------
(* Row locks.                                                              *)

Conflict(x, y) ==
  \/ x = y /\ x # Reference
  \/ {x, y} = {Reference, Exclusive}

(* The rows the next statement of c locks. A conditional UPDATE whose WHERE*)
(* the committed row does not satisfy locks nothing; deleting a line takes *)
(* its items with it (ON DELETE CASCADE).                                  *)
Wants(c) ==
  CASE pc[c] = "read" /\ kind[c] = "add" -> {target[c], Reference, Position}
    [] pc[c] = "read" /\ kind[c] = "update" -> {target[c]}
    [] pc[c] = "read" /\ kind[c] = "remove" ->
         {target[c]} \cup {k \in combos : target[c] \in k.uses}
    [] pc[c] = "read" /\ kind[c] = "solve" ->
         IF status \in {"draft", "solved", "failed"} THEN {Plan} ELSE {}
    [] pc[c] = "read" /\ kind[c] = "cancel" ->
         IF status = "solving" THEN {Plan} ELSE {}
    [] pc[c] = "read" /\ kind[c] = "unregister" ->
         IF status = "registered" THEN {Plan} ELSE {}
    [] pc[c] = "read" /\ kind[c] \in {"register", "delete"} -> {Plan, Exclusive}
    [] pc[c] = "read" /\ kind[c] = "insert" -> {Reference}
    [] pc[c] \in {"dropping", "clearing"} -> combos
    [] pc[c] = "invalidating" -> {Plan}
    [] pc[c] = "spreading" -> lines \cup (IF kind[c] = "delete" THEN combos ELSE {})
    [] OTHER -> {}

Waits(c, d) ==
  \/ \E x \in Wants(c), y \in held[d] : Conflict(x, y)
  \/ /\ pc[c] = "read" /\ kind[c] = "remove"
     /\ \E k \in pending[d].added : target[c] \in k.uses
Free(c) == \A d \in Clients \ {c} : ~Waits(c, d)

Lock(c) == held' = [held EXCEPT ![c] = @ \cup Wants(c)]

Goto(c, step) == pc' = [pc EXCEPT ![c] = step]

(* The request is over and its transaction with it.                        *)
End(c) ==
  /\ Goto(c, "idle")
  /\ kind' = [kind EXCEPT ![c] = None]
  /\ seen' = [seen EXCEPT ![c] = None]
  /\ target' = [target EXCEPT ![c] = None]
  /\ run' = [run EXCEPT ![c] = None]
  /\ pending' = [pending EXCEPT ![c] = Nothing]
  /\ held' = [held EXCEPT ![c] = {}]
  /\ closed' = [closed EXCEPT ![c] = FALSE]

Refuse(c) == End(c) /\ UNCHANGED rowVars

Write(c, field, value) == pending' = [pending EXCEPT ![c][field] = value]

requestVars == <<kind, seen, target, run, closed>>

-----------------------------------------------------------------------------
(* Requests.                                                               *)

Working == {r \in Runs : solver[r] = "working"}

(* What each handler checks on the plan it reads before it writes          *)
(* (statusGuard, requireSolved, and what deletePlan and startSolve check). *)
Admits(k) ==
  CASE k \in Editing -> status \notin {"registered", "solving"}
    [] k \in Adjusting -> status = "solved"
    [] k = "delete" -> status # "registered"
    [] k = "solve" -> lines # {} /\ Cardinality(Working) < Cap
    [] OTHER -> TRUE

Begin(c, k, o) ==
  /\ pc[c] = "idle"
  /\ status # "deleted"
  /\ Admits(k)
  /\ Goto(c, "read")
  /\ kind' = [kind EXCEPT ![c] = k]
  /\ seen' = [seen EXCEPT ![c] = IF k \in Editing THEN status ELSE None]
  /\ target' = [target EXCEPT ![c] = IF k \in {"add", "update", "remove"} THEN o ELSE None]
  /\ UNCHANGED <<rowVars, run, pending, held, closed, solverVars, sweep, crashes>>

(* The write of a line edit, then invalidateIfNeeded as of the status read.*)
Stale(c) == seen[c] \in {"solved", "failed"}

WriteLine(c) ==
  /\ pc[c] = "read" /\ kind[c] \in {"add", "update", "remove"}
  /\ Free(c)
  /\ IF status = "deleted" \/ (target[c] \in lines) = (kind[c] = "add")
       THEN Refuse(c)
       ELSE /\ Lock(c)
            /\ Goto(c, IF Stale(c) THEN "dropping" ELSE "answering")
            /\ UNCHANGED <<rowVars, requestVars, pending>>
  /\ UNCHANGED <<solverVars, sweep, crashes>>

Configure(c) ==
  /\ pc[c] = "read" /\ kind[c] = "configure"
  /\ Goto(c, IF Stale(c) THEN "dropping" ELSE "invalidating")
  /\ UNCHANGED <<rowVars, requestVars, pending, held, solverVars, sweep, crashes>>

(* deleteAllForPlan: the combinations committed so far.                    *)
DropCombinations(c) ==
  /\ pc[c] = "dropping"
  /\ Free(c)
  /\ Lock(c)
  /\ Write(c, "dropped", combos)
  /\ Goto(c, "invalidating")
  /\ UNCHANGED <<rowVars, requestVars, solverVars, sweep, crashes>>

Invalidate(c) ==
  /\ pc[c] = "invalidating"
  /\ Free(c)
  /\ Lock(c)
  /\ IF Stale(c) /\ status # "deleted"
       THEN Write(c, "status", "draft") ELSE UNCHANGED pending
  /\ Goto(c, "answering")
  /\ UNCHANGED <<rowVars, requestVars, solverVars, sweep, crashes>>

(* addCombination, and updateCombination or deleteItem, or deleteCombination*)
(* when nothing is left. The plan's row is not locked and not read again.  *)
Insert(c) ==
  /\ pc[c] = "read" /\ kind[c] = "insert"
  /\ Free(c)
  /\ \E U \in (SUBSET lines) \ {{}} :
       /\ \A d \in Clients \ {c} :
            kind[d] = "remove" /\ held[d] # {} => target[d] \notin U
       /\ Write(c, "added", {[by |-> Hand, uses |-> U]})
  /\ Lock(c)
  /\ Goto(c, "answering")
  /\ UNCHANGED <<rowVars, requestVars, solverVars, sweep, crashes>>

Adjust(c) ==
  /\ pc[c] = "read" /\ kind[c] = "adjust"
  /\ \E k \in combos :
       /\ \A d \in Clients \ {c} : k \notin held[d]
       /\ \E left \in {{}} \cup {{[by |-> Hand, uses |-> U]} : U \in (SUBSET k.uses) \ {{}}} :
            pending' = [pending EXCEPT ![c].dropped = {k}, ![c].added = left]
       /\ held' = [held EXCEPT ![c] = {k}]
  /\ Goto(c, "answering")
  /\ UNCHANGED <<rowVars, requestVars, solverVars, sweep, crashes>>

(* The combination, or every line it could use, is gone: 404 or 400.       *)
NothingToAdjust(c) ==
  /\ pc[c] = "read"
  /\ \/ kind[c] = "insert" /\ lines = {}
     \/ kind[c] = "adjust" /\ combos = {}
  /\ Refuse(c)
  /\ UNCHANGED <<solverVars, sweep, crashes>>

(* startSolve: UPDATE ... WHERE status in (draft, solved, failed), under a *)
(* token of its own; then the old combinations go and the lines are read.  *)
Flip(c) ==
  /\ pc[c] = "read" /\ kind[c] = "solve"
  /\ Free(c)
  /\ IF Wants(c) = {} THEN Refuse(c)
     ELSE /\ \E r \in Runs :
               /\ solver[r] = "unused" /\ \A d \in Clients : run[d] # r
               /\ run' = [run EXCEPT ![c] = r]
          /\ Lock(c)
          /\ Write(c, "status", "solving")
          /\ Goto(c, "clearing")
          /\ UNCHANGED <<rowVars, kind, seen, target, closed>>
  /\ UNCHANGED <<solverVars, sweep, crashes>>

Clear(c) ==
  /\ pc[c] = "clearing"
  /\ Free(c)
  /\ Lock(c)
  /\ Write(c, "dropped", combos)
  /\ given' = [given EXCEPT ![run[c]] = lines]
  /\ Goto(c, "flipped")
  /\ UNCHANGED <<rowVars, requestVars, solver, report, active, sweep, crashes>>

(* The worker starts before the response commits the flip.                 *)
StartEngine(c) ==
  /\ pc[c] = "flipped"
  /\ solver' = [solver EXCEPT ![run[c]] = "working"]
  /\ active' = run[c]
  /\ IF closed[c] THEN End(c)
     ELSE Goto(c, "answering") /\ UNCHANGED <<requestVars, pending, held>>
  /\ UNCHANGED <<rowVars, report, given, sweep, crashes>>

(* cancelSolve: UPDATE ... WHERE status = solving, then the worker stops.  *)
Cancel(c) ==
  /\ pc[c] = "read" /\ kind[c] = "cancel"
  /\ Free(c)
  /\ IF Wants(c) = {} THEN Refuse(c)
     ELSE /\ Lock(c)
          /\ Write(c, "status", "draft")
          /\ Goto(c, "stopping")
          /\ UNCHANGED <<rowVars, requestVars>>
  /\ UNCHANGED <<solverVars, sweep, crashes>>

Stop(c) ==
  /\ pc[c] = "stopping"
  /\ IF active # None /\ solver[active] = "working"
       THEN /\ solver' = [solver EXCEPT ![active] = "reporting"]
            /\ report' = [report EXCEPT ![active] = "cancelled"]
       ELSE UNCHANGED <<solver, report>>
  /\ active' = None
  /\ IF closed[c] THEN End(c)
     ELSE Goto(c, "answering") /\ UNCHANGED <<requestVars, pending, held>>
  /\ UNCHANGED <<rowVars, given, sweep, crashes>>

(* Mutants of Take: register without its last status check, and reading    *)
(* the plan without FOR UPDATE.                                            *)
TakeUnsolved(c) ==
  /\ pc[c] = "read" /\ kind[c] \in {"register", "delete"}
  /\ Free(c)
  /\ IF status \in {"deleted", "registered", "solving"}
       THEN Refuse(c)
       ELSE /\ Lock(c)
            /\ Write(c, "status", IF kind[c] = "register" THEN "registered" ELSE "deleted")
            /\ Goto(c, "spreading")
            /\ UNCHANGED <<rowVars, requestVars>>
  /\ UNCHANGED <<solverVars, sweep, crashes>>

TakeUnlocked(c) ==
  /\ pc[c] = "read" /\ kind[c] \in {"register", "delete"}
  /\ IF status = "deleted" \/ (kind[c] = "register" /\ status # "solved")
       THEN Refuse(c)
       ELSE /\ Write(c, "status", IF kind[c] = "register" THEN "registered" ELSE "deleted")
            /\ Goto(c, "spreading")
            /\ UNCHANGED <<rowVars, requestVars, held>>
  /\ UNCHANGED <<solverVars, sweep, crashes>>

(* register takes the plan FOR UPDATE and checks it again; production      *)
(* orders that stopped being eligible, changed pendings or an over-        *)
(* allocation refuse it (Deny). deletePlan deletes the row it read.        *)
Take(c) ==
  /\ pc[c] = "read" /\ kind[c] \in {"register", "delete"}
  /\ Free(c)
  /\ IF status = "deleted" \/ (kind[c] = "register" /\ status # "solved")
       THEN Refuse(c)
       ELSE /\ Lock(c)
            /\ Write(c, "status", IF kind[c] = "register" THEN "registered" ELSE "deleted")
            /\ Goto(c, "spreading")
            /\ UNCHANGED <<rowVars, requestVars>>
  /\ UNCHANGED <<solverVars, sweep, crashes>>

Release(c) ==
  /\ pc[c] = "read" /\ kind[c] = "unregister"
  /\ Free(c)
  /\ IF Wants(c) = {} THEN Refuse(c)
     ELSE /\ Lock(c)
          /\ Write(c, "status", "solved")
          /\ Goto(c, "spreading")
          /\ UNCHANGED <<rowVars, requestVars>>
  /\ UNCHANGED <<solverVars, sweep, crashes>>

Deny(c) ==
  /\ pc[c] = "spreading" /\ kind[c] = "register"
  /\ Refuse(c)
  /\ UNCHANGED <<solverVars, sweep, crashes>>

(* setAllocation on every line; allocatedSheets = null on every line; the  *)
(* cascade of the delete.                                                  *)
Spread(c) ==
  /\ pc[c] = "spreading"
  /\ Free(c)
  /\ Lock(c)
  /\ Write(c, "allocated", IF kind[c] = "register" THEN lines ELSE {})
  /\ Goto(c, "answering")
  /\ UNCHANGED <<rowVars, requestVars, solverVars, sweep, crashes>>

(* The response below 400: COMMIT.                                         *)
Respond(c) ==
  /\ pc[c] = "answering"
  /\ LET w == pending[c]
         after == CASE kind[c] = "add" -> lines \cup {target[c]}
                    [] kind[c] = "remove" -> lines \ {target[c]}
                    [] kind[c] = "delete" -> {}
                    [] OTHER -> lines
         kept == IF kind[c] = "delete" THEN {} ELSE (combos \ w.dropped) \cup w.added
     IN
       /\ status' = IF w.status = None THEN status ELSE w.status
       /\ lines' = after
       /\ combos' = {[k EXCEPT !.uses = @ \cap after] : k \in kept}
       /\ allocated' = IF kind[c] \in {"register", "unregister"}
                         THEN w.allocated ELSE allocated \cap after
       /\ token' = IF kind[c] = "solve" THEN run[c] ELSE token
       /\ solveStatus' = CASE kind[c] = "solve" -> None
                           [] kind[c] = "cancel" -> "cancelled"
                           [] OTHER -> solveStatus
  /\ End(c)
  /\ UNCHANGED <<solverVars, sweep, crashes>>

(* The client went away first, or a statement failed: ROLLBACK. A handler  *)
(* that has a worker to start or to stop still does.                       *)
Close(c) ==
  /\ pc[c] \notin {"idle", "read"} /\ ~closed[c]
  /\ IF pc[c] \in {"flipped", "stopping"}
       THEN /\ closed' = [closed EXCEPT ![c] = TRUE]
            /\ pending' = [pending EXCEPT ![c] = Nothing]
            /\ held' = [held EXCEPT ![c] = {}]
            /\ UNCHANGED <<pc, kind, seen, target, run>>
       ELSE End(c)
  /\ UNCHANGED <<rowVars, solverVars, sweep, crashes>>

(* PostgreSQL breaks a cycle of waits by failing one of its transactions.  *)
Deadlock(c) ==
  /\ \E S \in SUBSET Clients :
       c \in S /\ \A d \in S : \E e \in S \ {d} : Waits(d, e)
  /\ Refuse(c)
  /\ UNCHANGED <<solverVars, sweep, crashes>>

-----------------------------------------------------------------------------
(* Solves.                                                                 *)

(* The worker settles once; the map forgets it if it is still its own.     *)
Settle(r) ==
  /\ solver[r] = "working"
  /\ solver' = [solver EXCEPT ![r] = "reporting"]
  /\ report' \in {[report EXCEPT ![r] = o] : o \in {"ok", "error"}}
  /\ active' = IF active = r THEN None ELSE active
  /\ UNCHANGED <<rowVars, clientVars, given, sweep, crashes>>

(* Mutant of Over: the worker is remembered as no state at all.            *)
OverForgotten(r) ==
  /\ solver' = [solver EXCEPT ![r] = "none"]
  /\ UNCHANGED <<clientVars, report, given, active, sweep, crashes>>

(* completeSolve is through with the run's outcome.                        *)
Over(r) ==
  /\ solver' = [solver EXCEPT ![r] = "over"]
  /\ report' = [report EXCEPT ![r] = None]
  /\ given' = [given EXCEPT ![r] = {}]
  /\ UNCHANGED <<clientVars, active, sweep, crashes>>

(* Mutants of Awaited: whatever run the plan waits for; whatever became of *)
(* the plan since.                                                         *)
AwaitedFromAny(r) == status = "solving"
AwaitedForEver(r) == token = r /\ status # "deleted"

(* The plan is still solving under the run's own token.                    *)
Awaited(r) == status = "solving" /\ token = r

(* completeSolve: UPDATE ... WHERE status = solving and token = r, then the*)
(* combinations, in one transaction. An outcome naming a line that is gone *)
(* throws, and the status is rolled back with the rest.                    *)
Complete(r) ==
  /\ solver[r] = "reporting"
  /\ \/ ~Awaited(r) /\ UNCHANGED rowVars
     \/ /\ Awaited(r) /\ report[r] # "ok"
        /\ \A c \in Clients : Plan \notin held[c]
        /\ status' = "failed" /\ solveStatus' = report[r]
        /\ UNCHANGED <<token, lines, combos, allocated>>
     \/ /\ Awaited(r) /\ report[r] = "ok"
        /\ \A c \in Clients : Plan \notin held[c]
        /\ \E U \in SUBSET given[r] :
             /\ \A c \in Clients : kind[c] = "remove" /\ held[c] # {} => target[c] \notin U
             /\ IF U \subseteq lines
                  THEN /\ status' = "solved" /\ solveStatus' = "ok"
                       /\ combos' = combos \cup
                            (IF U = {} THEN {} ELSE {[by |-> r, uses |-> U]})
                       /\ UNCHANGED <<token, lines, allocated>>
                  ELSE UNCHANGED rowVars
  /\ Over(r)

-----------------------------------------------------------------------------
(* Restarts.                                                               *)

(* Open transactions roll back; no worker reports any more.                *)
Crash ==
  /\ crashes < MaxCrashes
  /\ crashes' = crashes + 1
  /\ pc' = [c \in Clients |-> "idle"]
  /\ kind' = [c \in Clients |-> None]
  /\ seen' = [c \in Clients |-> None]
  /\ target' = [c \in Clients |-> None]
  /\ run' = [c \in Clients |-> None]
  /\ pending' = [c \in Clients |-> Nothing]
  /\ held' = [c \in Clients |-> {}]
  /\ closed' = [c \in Clients |-> FALSE]
  /\ solver' = [r \in Runs |-> IF solver[r] = "unused" THEN "unused" ELSE "over"]
  /\ report' = [r \in Runs |-> None]
  /\ given' = [r \in Runs |-> {}]
  /\ active' = None
  /\ sweep' = "reading"
  /\ UNCHANGED rowVars

(* sweepStaleSolvesForCompany, beside the first requests: a plan found     *)
(* solving for longer than staleMs is failed, by its id alone.             *)
SweepRead ==
  /\ sweep = "reading"
  /\ \/ sweep' = "idle"
     \/ status = "solving" /\ sweep' = "writing"
  /\ UNCHANGED <<rowVars, clientVars, solverVars, crashes>>

SweepWrite ==
  /\ sweep = "writing"
  /\ \A c \in Clients : Plan \notin held[c]
  /\ sweep' = "idle"
  /\ IF status = "deleted" THEN UNCHANGED <<status, solveStatus>>
     ELSE status' = "failed" /\ solveStatus' = "error"
  /\ UNCHANGED <<token, lines, combos, allocated, clientVars, solverVars, crashes>>

-----------------------------------------------------------------------------
Step(c) ==
  \/ WriteLine(c) \/ Configure(c) \/ DropCombinations(c) \/ Invalidate(c)
  \/ Insert(c) \/ Adjust(c) \/ NothingToAdjust(c)
  \/ Flip(c) \/ Clear(c) \/ StartEngine(c) \/ Cancel(c) \/ Stop(c)
  \/ Take(c) \/ Release(c) \/ Spread(c) \/ Respond(c) \/ Deadlock(c)

Next ==
  \/ \E c \in Clients, k \in Kinds, o \in Orders : Begin(c, k, o)
  \/ \E c \in Clients : Step(c) \/ Deny(c) \/ Close(c)
  \/ \E r \in Runs : Settle(r) \/ Complete(r)
  \/ Crash \/ SweepRead \/ SweepWrite

Spec == Init /\ [][Next]_vars

-----------------------------------------------------------------------------
(* Properties.                                                             *)

(* Fencing by solveToken: whatever was cancelled, rolled back, re-solved or*)
(* restarted meanwhile, a combination nobody made by hand is one of the run*)
(* the plan last started; a late outcome of an earlier run is never mixed  *)
(* in (plan.service.ts:1634-1646).                                         *)
FencedOutcomes == \A k \in combos : k.by \in Runs => k.by = token

(* A cancel that was answered is final: the worker it raced with cannot    *)
(* turn the plan into a solved one afterwards (plan.service.ts:1694-1711). *)
CancelIsFinal == [][solveStatus = "cancelled" => solveStatus' # "ok"]_vars

(* No path of stale edits, lost clients, sweeps and restarts leads a plan  *)
(* to solved or registered other than a run that reported success for it   *)
(* (plan.service.ts:2187-2216, 2357-2373).                                 *)
RegisteredWasSolved ==
  status \in {"solved", "registered"} => solveStatus = "ok"

(* When a registration commits, every line committed by then holds an      *)
(* allocation, although lines are added and removed by requests that       *)
(* checked the plan before it was locked (plan.service.ts:2187-2352).      *)
RegisterCoversEveryLine ==
  [][status # "registered" /\ status' = "registered" => allocated' = lines']_vars
-----------------------------------------------------------------------------
(* The plan that the rows are to everyone outside their transactions.      *)

engineOf(r) == IF solver[r] = "reporting" THEN "working" ELSE solver[r]

Life == INSTANCE PlanLife WITH engine <- [r \in Runs |-> engineOf(r)]

(* Requests and runs are serializable to this extent: whatever they read   *)
(* that is old by then, whoever waits, is closed, deadlocks or is restarted*)
(* in between, each commits what one indivisible request could have done to*)
(* the plan as it then is - a solve starts from a plan that may be solved, *)
(* a cancel ends one that is solving, a registration allocates the lines   *)
(* there are, and no request revives a deleted plan                        *)
(* (plan.service.ts:1212-2373).                                            *)
ImplementsPlanLife == Life!Spec
=============================================================================
