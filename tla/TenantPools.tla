---------------------------- MODULE TenantPools ----------------------------
(***************************************************************************)
(* src/database/tenant-pools.ts: the lazily opened, budgeted, LRU-evicted  *)
(* knex instance per tenant database, and the 60 s registry cache in front *)
(* of `tenant_databases`, as one Node process runs them.                   *)
(*                                                                         *)
(* A request is an interleaving of the synchronous stretches between its   *)
(* awaits: every `await` of acquireTenant is a place where another request *)
(* or a registry writer can run, and every action below is one stretch.    *)
(* A tenant stands for its company and that company's one row; which row   *)
(* is live, and how it came to be, is the business of TenantLifecycle.     *)
(***************************************************************************)
EXTENDS Naturals, FiniteSets, Sequences, SequencesExt

CONSTANTS
  Tenants,      \* companies with a tenant_databases row
  Shared,       \* those whose row names the core database itself (isSharedTarget)
  Servers,      \* db_servers
  ServerOf,     \* the row's serverId
  PoolMax,      \* the row's poolMax
  LargestPool,  \* none of them is larger
  Budget,       \* the server's connectionBudget
  Requests,     \* in-flight requests and jobs: the callers of acquireTenant
  Pools,        \* knex instances: the bound on how many exist at a time
  Writers,      \* callers of TenantDatabaseDAO.transition
  Managed,      \* the companies whose rows they write here; the rest stay active
  Modes,        \* how a writer runs: a subset of AllModes
  None,         \* no pool, no cache entry, no tenant, no writer
  Core          \* the core instance, handed out for a shared target

(* "request": an HTTP handler, inside the request's ambient transaction;   *)
(* "job": this process, autocommitted (runProvisioningSteps after its 202);*)
(* "script": another process, which reaches neither map of this one.       *)
AllModes == {"request", "job", "script"}

Live == {"active", "suspended", "decommissioning"}
Building == {"provisioning", "failed"}
Statuses == Live \cup Building \cup {"none"}

ASSUME TenantsAssumption ==
  /\ IsFiniteSet(Tenants)
  /\ Shared \subseteq Tenants /\ Managed \subseteq Tenants
  /\ ServerOf \in [Tenants -> Servers]
  /\ LargestPool \in Nat
  /\ PoolMax \in [Tenants -> 1 .. LargestPool]
  /\ Budget \in [Servers -> Nat]
  /\ Modes \subseteq AllModes

ASSUME RequestsAssumption == IsFiniteSet(Requests) /\ Requests # {}

ASSUME BoundsAssumption == IsFiniteSet(Writers) /\ IsFiniteSet(Pools)

ASSUME SentinelAssumption ==
  /\ None \notin Tenants \cup Pools \cup Writers \cup Statuses
  /\ Core \notin Pools
  /\ Core # None

VARIABLES
  status,       \* status[t]: the committed status of the company's row
  lock,         \* lock[t]: the writer whose uncommitted UPDATE holds the row
  cache,        \* registryCache: the status a live entry answers, or None
  open,         \* openInstances: the pool of a tenant, or None
  older,        \* <<t, u>>: open instance t was used less recently than u
  poolTenant,   \* the tenant a pool's connection string reaches
  poolState,    \* of a knex instance
  used,         \* requests with a connection checked out of the pool
  pc,           \* where a request is
  tenant,       \* the company it acquires
  row,          \* the row status its lookup has read, until it is cached
  victims,      \* what its sweep or its ensureBudget still has to evict
  awaiting,     \* the pool whose destroy() it awaits
  handle,       \* the instance it opened or was handed
  op            \* what each writer is doing

requestVars == <<pc, tenant, row, victims, awaiting, handle>>
poolVars == <<open, older, poolTenant, poolState, used>>
vars == <<status, lock, cache, open, older, poolTenant, poolState, used,
          pc, tenant, row, victims, awaiting, handle, op>>

Steps == {"idle", "sweeping", "reading", "readingBuilding", "filling",
          "resolved", "makingRoom", "opening", "checking", "serving"}

(* TenantDatabaseDAO.TENANT_DATABASE_TRANSITIONS. *)
Transitions ==
  {<<"provisioning", "active">>, <<"provisioning", "failed">>,
   <<"failed", "provisioning">>, <<"active", "suspended">>,
   <<"suspended", "active">>, <<"active", "decommissioning">>,
   <<"suspended", "decommissioning">>}

Idle == [step |-> "idle", tenant |-> None, from |-> "none", to |-> "none",
         mode |-> "none", pool |-> None]

Ops == [step : {"idle", "casting", "updated", "draining"},
        tenant : Tenants \cup {None}, from : Statuses, to : Statuses,
        mode : AllModes \cup {"none", "closed"}, pool : Pools \cup {None}]

TypeOK ==
  /\ status \in [Tenants -> Statuses]
  /\ lock \in [Tenants -> Writers \cup {None}]
  /\ cache \in [Tenants -> Statuses \cup {None}]
  /\ open \in [Tenants -> Pools \cup {None}]
  /\ older \subseteq Tenants \X Tenants
  /\ poolTenant \in [Pools -> Tenants \cup {None}]
  /\ poolState \in [Pools -> {"open", "destroying", "gone"}]
  /\ used \in [Pools -> SUBSET Requests]
  /\ pc \in [Requests -> Steps]
  /\ tenant \in [Requests -> Tenants \cup {None}]
  /\ row \in [Requests -> Statuses \cup {None}]
  /\ victims \in [Requests -> Seq(Tenants)]
  /\ awaiting \in [Requests -> Pools \cup {None}]
  /\ handle \in [Requests -> Pools \cup {None, Core}]
  /\ op \in [Writers -> Ops]
  /\ \A r \in Requests : /\ pc[r] # "idle" => tenant[r] \in Tenants
                         /\ pc[r] = "checking" => handle[r] \in Pools
  /\ \A w \in Writers : op[w].step # "idle" => op[w].tenant \in Tenants

Init ==
  /\ status \in [Tenants -> {"none", "provisioning", "active"}]
  /\ \A t \in Tenants \ Managed : status[t] = "active"
  /\ lock = [t \in Tenants |-> None]
  /\ cache = [t \in Tenants |-> None]
  /\ open = [t \in Tenants |-> None]
  /\ older = {}
  /\ poolTenant = [p \in Pools |-> None]
  /\ poolState = [p \in Pools |-> "gone"]
  /\ used = [p \in Pools |-> {}]
  /\ pc = [r \in Requests |-> "idle"]
  /\ tenant = [r \in Requests |-> None]
  /\ row = [r \in Requests |-> None]
  /\ victims = [r \in Requests |-> <<>>]
  /\ awaiting = [r \in Requests |-> None]
  /\ handle = [r \in Requests |-> None]
  /\ op = [w \in Writers |-> Idle]

-----------------------------------------------------------------------------
(* The maps. *)

OpenTenants == {t \in Tenants : open[t] # None}

(* tenantStats(t).used = 0 for an open instance. *)
IsIdle(t) == open[t] # None /\ used[open[t]] = {}

OpenOn(s) == {t \in OpenTenants : ServerOf[t] = s}

(* The sum of a function from a finite set to pool sizes: the connections  *)
(* themselves, counted.                                                    *)
Total(f) == Cardinality({c \in (DOMAIN f) \X (1 .. LargestPool) : c[2] <= f[c[1]]})

(* usedBudget() of ensureBudget: what the entries of openInstances may take*)
(* together. An instance that has left the map, or never was in it, holds  *)
(* connections too and is counted nowhere (ConnectionsOn below counts it). *)
UsedBudget(s) == Total([t \in OpenOn(s) |-> PoolMax[t]])

(* Mutant of Fits: the pool about to be opened is not counted.             *)
FitsBefore(t) == UsedBudget(ServerOf[t]) <= Budget[ServerOf[t]]

(* What is open and the new pool stay within the server's budget.          *)
Fits(t) == UsedBudget(ServerOf[t]) + PoolMax[t] <= Budget[ServerOf[t]]

(* lastUsedAt = now(), or a new entry: t becomes the most recently used. *)
Touch(t) ==
  older' = {pair \in older : pair[1] # t} \cup ((OpenTenants \ {t}) \X {t})

(* Mutants of Evict: the entry stays until a destroy nobody awaits; the    *)
(* instance is forgotten without being destroyed.                          *)
EvictKeepingEntry(t) ==
  /\ poolState' = [poolState EXCEPT ![open[t]] = "destroying"]
  /\ UNCHANGED <<open, older, poolTenant, used>>


(* evictTenant: the entry leaves the map before destroy() is awaited. *)
Evict(t) ==
  /\ open' = [open EXCEPT ![t] = None]
  /\ older' = {pair \in older : pair[1] # t /\ pair[2] # t}
  /\ poolState' = [poolState EXCEPT ![open[t]] = "destroying"]
  /\ UNCHANGED <<poolTenant, used>>

(* The two orders in which a loop visits what it listed before its first   *)
(* await: sweepIdle in map order, ensureBudget least recently used first.  *)
AnyOrder(S) == SetToSeqs(S)
OldestFirst(S) ==
  {s \in SetToSeqs(S) : \A i, j \in DOMAIN s : i < j => <<s[j], s[i]>> \notin older}

(* A knex instance nobody holds or awaits any more: its name is free.      *)
Fresh(p) ==
  /\ poolState[p] = "gone"
  /\ \A r \in Requests : handle[r] # p /\ awaiting[r] # p
  /\ \A w \in Writers : op[w].pool # p

Settled(p) == p # None => poolState[p] = "gone"

-----------------------------------------------------------------------------
(* acquireTenant, one action per stretch between two awaits.               *)

Goto(r, step) == pc' = [pc EXCEPT ![r] = step]

(* Every answer that is not "ok": the request holds nothing. *)
Refuse(r) ==
  /\ Goto(r, "idle")
  /\ tenant' = [tenant EXCEPT ![r] = None]
  /\ row' = [row EXCEPT ![r] = None]
  /\ victims' = [victims EXCEPT ![r] = <<>>]
  /\ handle' = [handle EXCEPT ![r] = None]

(* One turn of an eviction loop: evictTenant of the first tenant listed, a *)
(* no-op when its entry has left the map since.                            *)
EvictFirst(r, list) ==
  /\ victims' = [victims EXCEPT ![r] = Tail(list)]
  /\ LET t == Head(list) IN
       IF open[t] = None
         THEN awaiting' = [awaiting EXCEPT ![r] = None] /\ UNCHANGED poolVars
         ELSE awaiting' = [awaiting EXCEPT ![r] = open[t]] /\ Evict(t)

(* acquireTenant(companyId), up to the first await of sweepIdle. Its list: *)
(* instances with no connection out and lastUsedAt over TENANT_POOL_IDLE_MS*)
(* ago. Time is not modelled: any set of idle instances that leaves out    *)
(* none used earlier.                                                      *)
Acquire(r, t) ==
  /\ pc[r] = "idle"
  /\ \E S \in SUBSET {u \in Tenants : IsIdle(u)} :
       /\ \A pair \in older : pair[2] \in S /\ IsIdle(pair[1]) => pair[1] \in S
       /\ IF S = {} THEN UNCHANGED <<victims, awaiting, poolVars>>
          ELSE \E list \in AnyOrder(S) : EvictFirst(r, list)
  /\ Goto(r, "sweeping")
  /\ tenant' = [tenant EXCEPT ![r] = t]
  /\ UNCHANGED <<status, lock, cache, row, handle, op>>

(* The next turn, once destroy() resolved: by now the tenant may be in use *)
(* again. ensureBudget's loop breaks as soon as the new pool fits.         *)
EvictNext(r) ==
  /\ pc[r] \in {"sweeping", "makingRoom"}
  /\ Settled(awaiting[r])
  /\ victims[r] # <<>>
  /\ pc[r] = "makingRoom" => ~Fits(tenant[r])
  /\ EvictFirst(r, victims[r])
  /\ UNCHANGED <<status, lock, cache, pc, tenant, row, handle, op>>

(* What acquireTenant does with the status its lookup returned.            *)
Dispatch(r, s) ==
  IF s = "active"
    THEN /\ Goto(r, "resolved")
         /\ row' = [row EXCEPT ![r] = None]
         /\ UNCHANGED <<tenant, victims, handle>>
    ELSE Refuse(r)

(* lookupRegistry: an entry within its TTL answers, otherwise read the row.*)
LookUp(r) ==
  /\ pc[r] = "sweeping"
  /\ victims[r] = <<>>
  /\ Settled(awaiting[r])
  /\ awaiting' = [awaiting EXCEPT ![r] = None]
  /\ IF cache[tenant[r]] # None
       THEN Dispatch(r, cache[tenant[r]])
       ELSE Goto(r, "reading") /\ UNCHANGED <<tenant, row, victims, handle>>
  /\ UNCHANGED <<status, lock, cache, poolVars, op>>

(* getLiveByCompanyId sees committed rows; with none live, a second query. *)
ReadLive(r) ==
  /\ pc[r] = "reading"
  /\ IF status[tenant[r]] \in Live
       THEN Goto(r, "filling") /\ row' = [row EXCEPT ![r] = status[tenant[r]]]
       ELSE Goto(r, "readingBuilding") /\ row' = [row EXCEPT ![r] = "none"]
  /\ UNCHANGED <<status, lock, cache, poolVars, tenant, victims, awaiting,
                 handle, op>>

ReadBuilding(r) ==
  /\ pc[r] = "readingBuilding"
  /\ Goto(r, "filling")
  /\ IF status[tenant[r]] \in Building
       THEN row' = [row EXCEPT ![r] = status[tenant[r]]]
       ELSE UNCHANGED row
  /\ UNCHANGED <<status, lock, cache, poolVars, tenant, victims, awaiting,
                 handle, op>>

(* registryCache.set, whatever was invalidated while the queries ran.      *)
FillCache(r) ==
  /\ pc[r] = "filling"
  /\ cache' = [cache EXCEPT ![tenant[r]] = row[r]]
  /\ Dispatch(r, row[r])
  /\ UNCHANGED <<status, lock, poolVars, awaiting, op>>

(* After serverFor: the core instance for a shared target, the open        *)
(* instance if there is one, otherwise ensureBudget up to its first await. *)
Resolve(r) ==
  /\ pc[r] = "resolved"
  /\ LET t == tenant[r]
         idle == {u \in OpenOn(ServerOf[t]) : IsIdle(u)}
     IN
       \/ /\ t \in Shared
          /\ Goto(r, "serving")
          /\ handle' = [handle EXCEPT ![r] = Core]
          /\ UNCHANGED <<victims, awaiting, poolVars>>
       \/ /\ t \notin Shared /\ open[t] # None
          /\ Goto(r, "serving")
          /\ handle' = [handle EXCEPT ![r] = open[t]]
          /\ Touch(t)
          /\ UNCHANGED <<victims, awaiting, open, poolTenant, poolState, used>>
       \/ /\ t \notin Shared /\ open[t] = None /\ Fits(t)
          /\ Goto(r, "opening")
          /\ UNCHANGED <<victims, awaiting, handle, poolVars>>
       \/ /\ t \notin Shared /\ open[t] = None /\ ~Fits(t)
          /\ Goto(r, "makingRoom")
          /\ IF idle = {} THEN UNCHANGED <<victims, awaiting, poolVars>>
             ELSE \E list \in OldestFirst(idle) : EvictFirst(r, list)
          /\ UNCHANGED handle
  /\ UNCHANGED <<status, lock, cache, tenant, row, op>>

(* ensureBudget after its loop: "ok" only if the pool fits now.            *)
RoomMade(r) ==
  /\ pc[r] = "makingRoom"
  /\ Settled(awaiting[r])
  /\ victims[r] = <<>> \/ Fits(tenant[r])
  /\ awaiting' = [awaiting EXCEPT ![r] = None]
  /\ IF Fits(tenant[r])
       THEN /\ Goto(r, "opening")
            /\ victims' = [victims EXCEPT ![r] = <<>>]
            /\ UNCHANGED <<tenant, row, handle>>
       ELSE Refuse(r)
  /\ UNCHANGED <<status, lock, cache, poolVars, op>>

(* openTenantInstance: a new knex instance, in no map yet, whose pin and   *)
(* migration head are read before it is handed back.                       *)
Connect(r, p) ==
  /\ pc[r] = "opening"
  /\ Fresh(p)
  /\ Goto(r, "checking")
  /\ handle' = [handle EXCEPT ![r] = p]
  /\ poolTenant' = [poolTenant EXCEPT ![p] = tenant[r]]
  /\ poolState' = [poolState EXCEPT ![p] = "open"]
  /\ UNCHANGED <<status, lock, cache, open, older, used, tenant, row, victims,
                 awaiting, op>>

(* Mutant of Publish: openInstances keyed by server instead of by row.     *)
PublishForServer(r) ==
  /\ pc[r] = "checking"
  /\ open' = [t \in Tenants |-> IF ServerOf[t] = ServerOf[tenant[r]]
                                  THEN handle[r] ELSE open[t]]
  /\ Touch(tenant[r])
  /\ Goto(r, "serving")
  /\ UNCHANGED <<status, lock, cache, poolTenant, poolState, used, tenant, row,
                 victims, awaiting, handle, op>>

(* The checks held: openInstances.set, over whatever entry is there.       *)
Publish(r) ==
  /\ pc[r] = "checking"
  /\ open' = [open EXCEPT ![tenant[r]] = handle[r]]
  /\ Touch(tenant[r])
  /\ Goto(r, "serving")
  /\ UNCHANGED <<status, lock, cache, poolTenant, poolState, used, tenant, row,
                 victims, awaiting, handle, op>>

(* The instance is behind, or its pin is another company's, or it could    *)
(* not be reached: destroyed, never cached.                                *)
OpenFails(r) ==
  /\ pc[r] \in {"opening", "checking"}
  /\ Refuse(r)
  /\ poolState' = [p \in Pools |-> IF p = handle[r] THEN "gone" ELSE poolState[p]]
  /\ poolTenant' = [p \in Pools |-> IF p = handle[r] THEN None ELSE poolTenant[p]]
  /\ UNCHANGED <<status, lock, cache, open, older, used, awaiting, op>>

-----------------------------------------------------------------------------
(* A served request and the pool it was handed (knex and tarn).            *)

(* A query takes a connection while the pool has one and is not destroyed. *)
CheckOut(r) ==
  /\ pc[r] = "serving"
  /\ LET p == handle[r] IN
       /\ p # Core
       /\ poolState[p] = "open"
       /\ r \notin used[p]
       /\ Cardinality(used[p]) < PoolMax[poolTenant[p]]
       /\ used' = [used EXCEPT ![p] = @ \cup {r}]
  /\ UNCHANGED <<status, lock, cache, open, older, poolTenant, poolState,
                 requestVars, op>>

CheckIn(r) ==
  /\ handle[r] \in Pools
  /\ r \in used[handle[r]]
  /\ used' = [used EXCEPT ![handle[r]] = @ \ {r}]
  /\ UNCHANGED <<status, lock, cache, open, older, poolTenant, poolState,
                 requestVars, op>>

(* Mutant of Finish: the request's context is cleared while it runs on.     *)
FinishKeepingStep(r) ==
  /\ pc[r] = "serving"
  /\ tenant' = [tenant EXCEPT ![r] = None]
  /\ UNCHANGED <<status, lock, cache, poolVars, pc, row, victims, awaiting,
                 handle, op>>

(* The response is sent, or the handler failed on a destroyed pool.        *)
Finish(r) ==
  /\ pc[r] = "serving"
  /\ handle[r] \in Pools => r \notin used[handle[r]]
  /\ Refuse(r)
  /\ UNCHANGED <<status, lock, cache, poolVars, awaiting, op>>

(* destroy() resolves once every connection is back.                       *)
Destroyed(p) ==
  /\ poolState[p] = "destroying"
  /\ used[p] = {}
  /\ poolState' = [poolState EXCEPT ![p] = "gone"]
  /\ poolTenant' = [poolTenant EXCEPT ![p] = None]
  /\ UNCHANGED <<status, lock, cache, open, older, used, requestVars, op>>

-----------------------------------------------------------------------------
(* The registry's writers.                                                 *)

(* TenantDatabaseController and the provisioning service read the row and  *)
(* refuse unless it holds `from`.                                          *)
BeginTransition(w, t, from, to, mode) ==
  /\ op[w].step = "idle"
  /\ status[t] = from
  /\ op' = [op EXCEPT ![w] = [step |-> "casting", tenant |-> t, from |-> from,
                              to |-> to, mode |-> mode, pool |-> None]]
  /\ UNCHANGED <<status, lock, cache, poolVars, requestVars>>

(* UPDATE ... WHERE status = from. Inside a request's transaction the new  *)
(* status stays invisible, behind the row lock; zero rows is a 409.        *)
CompareAndSet(w) ==
  /\ op[w].step = "casting"
  /\ LET t == op[w].tenant IN
       /\ lock[t] = None
       /\ IF status[t] # op[w].from
            THEN op' = [op EXCEPT ![w] = Idle] /\ UNCHANGED <<status, lock>>
            ELSE /\ op' = [op EXCEPT ![w] =
                            IF @.mode = "script" THEN Idle
                            ELSE [@ EXCEPT !.step = "updated"]]
                 /\ IF op[w].mode = "request"
                      THEN lock' = [lock EXCEPT ![t] = w] /\ UNCHANGED status
                      ELSE status' = [status EXCEPT ![t] = op[w].to] /\ UNCHANGED lock
  /\ UNCHANGED <<cache, poolVars, requestVars>>

(* Back from the UPDATE: invalidateTenantCache, then evictTenant for a     *)
(* status that no longer serves. The transaction is still open.            *)
Invalidate(w) ==
  /\ op[w].step = "updated"
  /\ LET t == op[w].tenant IN
       /\ cache' = [cache EXCEPT ![t] = None]
       /\ IF op[w].to \in {"suspended", "decommissioning"} /\ open[t] # None
            THEN op' = [op EXCEPT ![w].step = "draining", ![w].pool = open[t]] /\ Evict(t)
            ELSE op' = [op EXCEPT ![w].step = "draining"] /\ UNCHANGED poolVars
  /\ UNCHANGED <<status, lock, requestVars>>

(* evictTenant returned: the response commits the request's transaction.   *)
Respond(w) ==
  /\ op[w].step = "draining"
  /\ Settled(op[w].pool)
  /\ IF op[w].mode = "request"
       THEN /\ status' = [status EXCEPT ![op[w].tenant] = op[w].to]
            /\ lock' = [lock EXCEPT ![op[w].tenant] = None]
       ELSE UNCHANGED <<status, lock>>
  /\ op' = [op EXCEPT ![w] = Idle]
  /\ UNCHANGED <<cache, poolVars, requestVars>>

(* The client went away first: rolled back; the handler runs on.           *)
Close(w) ==
  /\ op[w].mode = "request"
  /\ op[w].step \in {"updated", "draining"}
  /\ lock' = [lock EXCEPT ![op[w].tenant] = None]
  /\ op' = [op EXCEPT ![w].mode = "closed"]
  /\ UNCHANGED <<status, cache, poolVars, requestVars>>

(* TenantDatabaseDAO.create, which invalidates nothing, and the row delete *)
(* that ends a decommission. Both only commit.                             *)
CreateRow(t) ==
  /\ status[t] = "none"
  /\ status' = [status EXCEPT ![t] = "provisioning"]
  /\ UNCHANGED <<lock, cache, poolVars, requestVars, op>>

DeleteRow(t) ==
  /\ status[t] = "decommissioning"
  /\ lock[t] = None
  /\ status' = [status EXCEPT ![t] = "none"]
  /\ UNCHANGED <<lock, cache, poolVars, requestVars, op>>

(* Mutant of Expire: an entry that lets requests through never expires.    *)
ExpireRefusals(t) ==
  /\ cache[t] \notin {None, "active"}
  /\ cache' = [cache EXCEPT ![t] = None]
  /\ UNCHANGED <<status, lock, poolVars, requestVars, op>>

(* REGISTRY_TTL_MS passed.                                                 *)
Expire(t) ==
  /\ cache[t] # None
  /\ cache' = [cache EXCEPT ![t] = None]
  /\ UNCHANGED <<status, lock, poolVars, requestVars, op>>

-----------------------------------------------------------------------------
Request(r) ==
  \/ EvictNext(r) \/ LookUp(r) \/ ReadLive(r) \/ ReadBuilding(r)
  \/ FillCache(r) \/ Resolve(r) \/ RoomMade(r)
  \/ \E p \in Pools : Connect(r, p)
  \/ Publish(r) \/ OpenFails(r) \/ CheckIn(r) \/ Finish(r)

Writer(w) == CompareAndSet(w) \/ Invalidate(w) \/ Respond(w)

Next ==
  \/ \E r \in Requests : Request(r) \/ CheckOut(r) \/ \E t \in Tenants : Acquire(r, t)
  \/ \E p \in Pools : Destroyed(p)
  \/ \E w \in Writers : Writer(w) \/ Close(w)
  \/ \E w \in Writers, t \in Managed, change \in Transitions, mode \in Modes :
       BeginTransition(w, t, change[1], change[2], mode)
  \/ \E t \in Managed : CreateRow(t) \/ DeleteRow(t)
  \/ \E t \in Tenants : Expire(t)

Spec == Init /\ [][Next]_vars

(* What the code's scheduling grants: an await is eventually resumed (every*)
(* statement and every destroy is bounded by a driver timeout), a handler  *)
(* ends, a TTL passes. No new request, writer or query is ever promised.   *)
Fairness ==
  /\ \A r \in Requests : WF_vars(Request(r))
  /\ \A p \in Pools : WF_vars(Destroyed(p))
  /\ \A w \in Writers : WF_vars(Writer(w))
  /\ \A t \in Tenants : WF_vars(Expire(t))

FairSpec == Spec /\ Fairness

-----------------------------------------------------------------------------
(* Properties.                                                             *)

(* Tenant isolation: whatever was opened, evicted and reopened meanwhile,  *)
(* the instance a request holds is one that was opened for the company it  *)
(* acquired, and only a shared target is handed the core instance          *)
(* (tenant-pools.ts:405-463).                                              *)
HandleIsolation ==
  \A r \in Requests :
    /\ handle[r] \in Pools /\ poolState[handle[r]] # "gone"
         => poolTenant[handle[r]] = tenant[r]
    /\ handle[r] = Core => tenant[r] \in Shared

(* An instance whose destroy() has begun can never be found in             *)
(* openInstances again, by any later request, so nobody is handed a dying  *)
(* pool as "existing"; and no two tenants ever share an entry's instance   *)
(* (evictTenant deletes before it destroys, tenant-pools.ts:361-363).      *)
NoDyingPoolReachable ==
  \A t \in Tenants :
    open[t] # None => poolState[open[t]] = "open" /\ poolTenant[open[t]] = t

(* What the pools on a server may really take: every instance that exists, *)
(* in the map or not, being checked, handed out and replaced since, evicted*)
(* and still draining, or abandoned.                                       *)
InstancesOn(s) == {p \in Pools : /\ poolState[p] # "gone"
                                 /\ ServerOf[poolTenant[p]] = s}
ConnectionsOn(s) == Total([p \in InstancesOn(s) |-> PoolMax[poolTenant[p]]])

(* What requests have been granted room for and not created yet.           *)
OpeningOn(s) == {r \in Requests : pc[r] = "opening" /\ ServerOf[tenant[r]] = s}
OpeningBudget(s) == Total([r \in OpeningOn(s) |-> PoolMax[tenant[r]]])

(* Instances a second openInstances.set replaced (tenant-pools.ts:454) and *)
(* whose last request has ended: in no map, so no sweep, no eviction and no*)
(* shutdown ever destroys them.                                            *)
Abandoned(p) == /\ poolState[p] = "open"
                /\ \A t \in Tenants : open[t] # p
                /\ \A r \in Requests : handle[r] # p
AbandonedOn(s) == {p \in InstancesOn(s) : Abandoned(p)}

(* How far the budget can be missed. ensureBudget counts the entries of    *)
(* openInstances before an await and openInstances.set runs after it, so   *)
(* concurrent acquires may each count the same free room, two may open the *)
(* same company's pool twice, and an evicted pool drains uncounted. What   *)
(* exists on a server together with what is being opened there exceeds its *)
(* budget by at most the largest pool for each other request, each writer  *)
(* (either may await one eviction) and each abandoned instance. Those last *)
(* the code never destroys and never bounds: nothing here says how many    *)
(* there are (tenant-pools.ts:314-346, 356-372, 437-454).                  *)
OvershootBounded ==
  \A s \in Servers :
    ConnectionsOn(s) + OpeningBudget(s)
      <= Budget[s] + (Cardinality(Requests) - 1 + Cardinality(Writers)
                        + Cardinality(AbandonedOn(s))) * LargestPool

(* A stale entry outlives the change it missed by one TTL at most: once a  *)
(* company's status stays what it is, its cache entry ends up agreeing     *)
(* with it for good, however fills, invalidations and commits interleaved. *)
CacheConverges ==
  \A t \in Tenants, s \in Statuses :
    <>[](status[t] = s) => <>[](cache[t] \in {None, s})

=============================================================================
