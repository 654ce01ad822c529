------------------------- MODULE TenantPoolsProofs -------------------------
(***************************************************************************)
(* For any number of companies, servers, requests, pools and registry      *)
(* writers: the types of TenantPools, and that no interleaving of          *)
(* acquires, evictions and registry writes hands a request another         *)
(* company's instance or leaves a dying instance reachable.                *)
(***************************************************************************)
EXTENDS TenantPools, FiniteSetTheorems, TLAPS

(* Why HandleIsolation is not inductive alone: an instance still being     *)
(* checked is in no map and in no other request's hands, which is what     *)
(* makes it safe to publish and safe to destroy.                           *)
Unshared ==
  \A r \in Requests : pc[r] = "checking" =>
    /\ poolState[handle[r]] = "open"
    /\ \A t \in Tenants : open[t] # handle[r]
    /\ \A q \in Requests \ {r} : handle[q] # handle[r]

(* Only a request that is checking or serving holds an instance.           *)
Holders ==
  \A r \in Requests : handle[r] # None => pc[r] \in {"checking", "serving"}

Safe == NoDyingPoolReachable /\ HandleIsolation /\ Unshared /\ Holders

IInv == TypeOK /\ Safe

(* What most steps do to the requests: each is left as it is, or ends the  *)
(* step holding nothing and checking nothing.                              *)
Lets ==
  \A q \in Requests :
    \/ pc'[q] = pc[q] /\ tenant'[q] = tenant[q] /\ handle'[q] = handle[q]
    \/ handle'[q] = None /\ pc'[q] # "checking"

USE TenantsAssumption, RequestsAssumption, SentinelAssumption

(* Any order of a set of tenants is a sequence of tenants. *)
LEMMA OrderIsSequence ==
  ASSUME NEW S \in SUBSET Tenants, NEW list \in SetToSeqs(S)
  PROVE  list \in Seq(Tenants) /\ (S # {} => list # <<>>)
<1>1. IsFiniteSet(S)
  BY FS_Subset
<1>2. Cardinality(S) \in Nat
  BY <1>1, FS_CardinalityType
<1>3. list \in [1..Cardinality(S) -> S]
  BY DEF SetToSeqs
<1>4. list \in Seq(Tenants)
  <2>1. list \in [1..Cardinality(S) -> Tenants]
    BY <1>3
  <2> QED BY <1>2, <2>1
<1>5. ASSUME S # {} PROVE list # <<>>
  <2>1. Cardinality(S) # 0
    BY <1>1, <1>5, FS_EmptySet
  <2>2. 1 \in DOMAIN list
    BY <1>2, <1>3, <2>1
  <2>3. DOMAIN << >> = {}
    OBVIOUS
  <2> QED BY <2>2, <2>3
<1> QED BY <1>4, <1>5

(* One eviction turn keeps the types, whatever list it works through.      *)
LEMMA EvictFirstTypes ==
  ASSUME TypeOK, NEW r \in Requests, NEW list \in Seq(Tenants), list # <<>>,
         EvictFirst(r, list)
  PROVE  /\ open' \in [Tenants -> Pools \cup {None}]
         /\ older' \subseteq Tenants \X Tenants
         /\ poolTenant' \in [Pools -> Tenants \cup {None}]
         /\ poolState' \in [Pools -> {"open", "destroying", "gone"}]
         /\ used' \in [Pools -> SUBSET Requests]
         /\ victims' \in [Requests -> Seq(Tenants)]
         /\ awaiting' \in [Requests -> Pools \cup {None}]
<1> DEFINE t == Head(list)
<1>1. t \in Tenants /\ Tail(list) \in Seq(Tenants)
  OBVIOUS
<1> HIDE DEF t
<1>2. victims' \in [Requests -> Seq(Tenants)]
  BY <1>1 DEF EvictFirst, TypeOK
<1>3. CASE open[t] = None
  <2>1. awaiting' = [awaiting EXCEPT ![r] = None] /\ UNCHANGED poolVars
    BY <1>3 DEF EvictFirst, t
  <2> QED BY <1>2, <2>1 DEF TypeOK, poolVars
<1>4. CASE open[t] # None
  <2>1. awaiting' = [awaiting EXCEPT ![r] = open[t]] /\ Evict(t)
    BY <1>4 DEF EvictFirst, t
  <2> QED BY <1>1, <1>2, <1>4, <2>1 DEF Evict, TypeOK
<1> QED BY <1>3, <1>4

(* A refused request is idle and holds nothing, so every type is kept.     *)
LEMMA RefuseTypes ==
  ASSUME TypeOK, NEW r \in Requests, Refuse(r)
  PROVE  /\ pc' \in [Requests -> Steps]
         /\ tenant' \in [Requests -> Tenants \cup {None}]
         /\ row' \in [Requests -> Statuses \cup {None}]
         /\ victims' \in [Requests -> Seq(Tenants)]
         /\ handle' \in [Requests -> Pools \cup {None, Core}]
         /\ \A q \in Requests : /\ pc'[q] # "idle" => tenant'[q] \in Tenants
                                /\ pc'[q] = "checking" => handle'[q] \in Pools
<1>1. pc' \in [Requests -> Steps]
  BY DEF Refuse, Goto, TypeOK, Steps
<1>2. /\ tenant' \in [Requests -> Tenants \cup {None}]
      /\ row' \in [Requests -> Statuses \cup {None}]
      /\ handle' \in [Requests -> Pools \cup {None, Core}]
  BY DEF Refuse, TypeOK
<1>3. victims' \in [Requests -> Seq(Tenants)]
  <2>1. <<>> \in Seq(Tenants)
    OBVIOUS
  <2> QED BY <2>1 DEF Refuse, TypeOK
<1>4. \A q \in Requests : /\ pc'[q] # "idle" => tenant'[q] \in Tenants
                          /\ pc'[q] = "checking" => handle'[q] \in Pools
  <2> SUFFICES ASSUME NEW q \in Requests
               PROVE  /\ pc'[q] # "idle" => tenant'[q] \in Tenants
                      /\ pc'[q] = "checking" => handle'[q] \in Pools
    OBVIOUS
  <2>1. CASE q = r
    <3>1. pc'[r] = "idle"
      BY DEF Refuse, Goto, TypeOK
    <3> QED BY <2>1, <3>1
  <2>2. CASE q # r
    <3>1. pc'[q] = pc[q] /\ tenant'[q] = tenant[q] /\ handle'[q] = handle[q]
      BY <2>2 DEF Refuse, Goto, TypeOK
    <3> QED BY <3>1 DEF TypeOK
  <2> QED BY <2>1, <2>2
<1> QED BY <1>1, <1>2, <1>3, <1>4

(* Whatever the registry answered, the types are kept.                     *)
LEMMA DispatchTypes ==
  ASSUME TypeOK, NEW r \in Requests, NEW s, Dispatch(r, s), pc[r] \in {"sweeping", "filling"}
  PROVE  /\ pc' \in [Requests -> Steps]
         /\ tenant' \in [Requests -> Tenants \cup {None}]
         /\ row' \in [Requests -> Statuses \cup {None}]
         /\ victims' \in [Requests -> Seq(Tenants)]
         /\ handle' \in [Requests -> Pools \cup {None, Core}]
         /\ \A q \in Requests : /\ pc'[q] # "idle" => tenant'[q] \in Tenants
                                /\ pc'[q] = "checking" => handle'[q] \in Pools
<1>1. CASE s = "active"
  <2>1. /\ pc' = [pc EXCEPT ![r] = "resolved"]
        /\ row' = [row EXCEPT ![r] = None]
        /\ UNCHANGED <<tenant, victims, handle>>
    BY <1>1 DEF Dispatch, Goto
  <2> QED BY <2>1 DEF TypeOK, Steps
<1>2. CASE s # "active"
  <2>1. Refuse(r)
    BY <1>2 DEF Dispatch
  <2> QED BY <2>1, RefuseTypes
<1> QED BY <1>1, <1>2

(* The initial states have their types. *)
LEMMA InitTypes == Init => TypeOK
BY DEF Init, TypeOK, Ops, Idle, Steps, Statuses, Live, Building, AllModes

(* Every step of acquireTenant, of a pool and of a writer keeps them.      *)
LEMMA NextTypes == TypeOK /\ [Next]_vars => TypeOK'
<1> SUFFICES ASSUME TypeOK, [Next]_vars PROVE TypeOK'
  OBVIOUS
<1> USE DEF Goto, requestVars, poolVars, Steps
<1>1. ASSUME NEW r \in Requests, NEW t \in Tenants, Acquire(r, t) PROVE TypeOK'
  <2>1. PICK S \in SUBSET {u \in Tenants : IsIdle(u)} :
          IF S = {} THEN UNCHANGED <<victims, awaiting, poolVars>>
          ELSE \E list \in AnyOrder(S) : EvictFirst(r, list)
    BY <1>1 DEF Acquire
  <2>2. CASE S = {}
    BY <1>1, <2>1, <2>2 DEF Acquire, TypeOK
  <2>3. CASE S # {}
    <3>1. PICK list \in SetToSeqs(S) : EvictFirst(r, list)
      BY <2>1, <2>3 DEF AnyOrder
    <3>2. list \in Seq(Tenants) /\ list # <<>>
      BY <2>3, <3>1, OrderIsSequence
    <3> QED BY <1>1, <3>1, <3>2, EvictFirstTypes DEF Acquire, TypeOK
  <2> QED BY <2>2, <2>3
<1>2. ASSUME NEW r \in Requests, EvictNext(r) PROVE TypeOK'
  <2>1. victims[r] \in Seq(Tenants) /\ victims[r] # <<>> /\ EvictFirst(r, victims[r])
    BY <1>2 DEF EvictNext, TypeOK
  <2> QED BY <1>2, <2>1, EvictFirstTypes DEF EvictNext, TypeOK
<1>3. ASSUME NEW r \in Requests, LookUp(r) PROVE TypeOK'
  <2>1. /\ pc[r] = "sweeping"
        /\ awaiting' \in [Requests -> Pools \cup {None}]
        /\ UNCHANGED <<status, lock, cache, poolVars, op>>
    BY <1>3 DEF LookUp, TypeOK
  <2>2. CASE cache[tenant[r]] # None
    <3>1. Dispatch(r, cache[tenant[r]])
      BY <1>3, <2>2 DEF LookUp
    <3> QED BY <2>1, <3>1, DispatchTypes DEF TypeOK
  <2>3. CASE cache[tenant[r]] = None
    <3>1. /\ pc' = [pc EXCEPT ![r] = "reading"]
          /\ UNCHANGED <<tenant, row, victims, handle>>
      BY <1>3, <2>3 DEF LookUp, Goto
    <3>2. pc' \in [Requests -> Steps] /\ tenant[r] \in Tenants
      BY <2>1, <3>1 DEF TypeOK, Steps
    <3>3. \A x \in Requests : /\ pc'[x] # "idle" => tenant[x] \in Tenants
                              /\ pc'[x] = "checking" => handle[x] \in Pools
      BY <3>1, <3>2 DEF TypeOK
    <3> QED BY <2>1, <3>1, <3>2, <3>3 DEF TypeOK, poolVars
  <2> QED BY <2>2, <2>3
<1>4. ASSUME NEW r \in Requests, ReadLive(r) PROVE TypeOK'
  <2>1. status[tenant[r]] \in Statuses \cup {None}
    BY <1>4 DEF ReadLive, TypeOK
  <2>a. row' \in [Requests -> Statuses \cup {None}]
    <3>1. "none" \in Statuses
      BY DEF Statuses
    <3>2. row' = row \/ \E s \in Statuses \cup {None} : row' = [row EXCEPT ![r] = s]
      BY <1>4, <2>1, <3>1 DEF ReadLive
    <3> QED BY <3>2 DEF TypeOK
  <2>b. pc' \in [Requests -> Steps]
    <3>1. \E s \in Steps : pc' = [pc EXCEPT ![r] = s]
      BY <1>4 DEF ReadLive, Goto, Steps
    <3> QED BY <3>1 DEF TypeOK
  <2>2. /\ row' \in [Requests -> Statuses \cup {None}]
        /\ pc' \in [Requests -> Steps]
    BY <2>a, <2>b
  <2>3. UNCHANGED <<status, lock, cache, tenant, handle, victims, awaiting, op, poolVars>>
    BY <1>4 DEF ReadLive
  <2>4. \A x \in Requests : pc'[x] # "idle" => pc[x] # "idle"
    BY <1>4 DEF ReadLive, TypeOK
  <2>5. \A x \in Requests : pc'[x] = "checking" => pc[x] = "checking"
    BY <1>4 DEF ReadLive, TypeOK
  <2>6. \A x \in Requests : /\ pc'[x] # "idle" => tenant'[x] \in Tenants
                            /\ pc'[x] = "checking" => handle'[x] \in Pools
    BY <2>3, <2>4, <2>5 DEF TypeOK
  <2> QED BY <2>2, <2>3, <2>6 DEF TypeOK, poolVars
<1>5. ASSUME NEW r \in Requests, ReadBuilding(r) PROVE TypeOK'
  <2>1. status[tenant[r]] \in Statuses \cup {None}
    BY <1>5 DEF ReadBuilding, TypeOK
  <2>a. row' \in [Requests -> Statuses \cup {None}]
    <3>1. "none" \in Statuses
      BY DEF Statuses
    <3>2. row' = row \/ \E s \in Statuses \cup {None} : row' = [row EXCEPT ![r] = s]
      BY <1>5, <2>1, <3>1 DEF ReadBuilding
    <3> QED BY <3>2 DEF TypeOK
  <2>b. pc' \in [Requests -> Steps]
    <3>1. \E s \in Steps : pc' = [pc EXCEPT ![r] = s]
      BY <1>5 DEF ReadBuilding, Goto, Steps
    <3> QED BY <3>1 DEF TypeOK
  <2>2. /\ row' \in [Requests -> Statuses \cup {None}]
        /\ pc' \in [Requests -> Steps]
    BY <2>a, <2>b
  <2>3. UNCHANGED <<status, lock, cache, tenant, handle, victims, awaiting, op, poolVars>>
    BY <1>5 DEF ReadBuilding
  <2>4. \A x \in Requests : pc'[x] # "idle" => pc[x] # "idle"
    BY <1>5 DEF ReadBuilding, TypeOK
  <2>5. \A x \in Requests : pc'[x] = "checking" => pc[x] = "checking"
    BY <1>5 DEF ReadBuilding, TypeOK
  <2>6. \A x \in Requests : /\ pc'[x] # "idle" => tenant'[x] \in Tenants
                            /\ pc'[x] = "checking" => handle'[x] \in Pools
    BY <2>3, <2>4, <2>5 DEF TypeOK
  <2> QED BY <2>2, <2>3, <2>6 DEF TypeOK, poolVars
<1>6. ASSUME NEW r \in Requests, FillCache(r) PROVE TypeOK'
  <2>1. tenant[r] \in Tenants /\ row[r] \in Statuses \cup {None}
    BY <1>6 DEF FillCache, TypeOK
  <2>2. /\ pc[r] = "filling"
        /\ cache' = [cache EXCEPT ![tenant[r]] = row[r]]
        /\ Dispatch(r, row[r])
        /\ UNCHANGED <<status, lock, poolVars, awaiting, op>>
    BY <1>6 DEF FillCache
  <2>3. cache' \in [Tenants -> Statuses \cup {None}]
    BY <2>1, <2>2 DEF TypeOK
  <2> QED BY <2>2, <2>3, DispatchTypes DEF TypeOK
<1>7. ASSUME NEW r \in Requests, Resolve(r) PROVE TypeOK'
  <2> DEFINE t == tenant[r]
             idle == {u \in OpenOn(ServerOf[t]) : IsIdle(u)}
  <2>1. t \in Tenants
    BY <1>7 DEF Resolve, TypeOK
  <2>2. CASE t \in Shared
    <3>1. /\ Goto(r, "serving")
          /\ handle' = [handle EXCEPT ![r] = Core]
          /\ UNCHANGED <<victims, awaiting, poolVars>>
          /\ UNCHANGED <<status, lock, cache, tenant, row, op>>
      BY <1>7, <2>2 DEF Resolve
    <3> QED BY <2>1, <3>1 DEF TypeOK
  <2>3. CASE t \notin Shared /\ open[t] # None
    <3>1. /\ pc[r] = "resolved" /\ Goto(r, "serving")
          /\ handle' = [handle EXCEPT ![r] = open[t]]
          /\ Touch(t)
          /\ UNCHANGED <<victims, awaiting, open, poolTenant, poolState, used>>
          /\ UNCHANGED <<status, lock, cache, tenant, row, op>>
      BY <1>7, <2>3 DEF Resolve
    <3>2. older' \subseteq Tenants \X Tenants
      BY <2>1, <3>1 DEF Touch, OpenTenants, TypeOK
    <3>3. open[t] \in Pools \cup {None}
      BY <2>1 DEF TypeOK
    <3>4. /\ handle' \in [Requests -> Pools \cup {None, Core}]
          /\ pc' \in [Requests -> Steps]
      BY <3>1, <3>3 DEF Goto, Steps, TypeOK
    <3>5. \A x \in Requests : /\ pc'[x] # "idle" => tenant'[x] \in Tenants
                              /\ pc'[x] = "checking" => handle'[x] \in Pools
      BY <2>1, <3>1 DEF Goto, TypeOK
    <3> QED BY <3>1, <3>2, <3>4, <3>5 DEF TypeOK
  <2>4. CASE t \notin Shared /\ open[t] = None /\ Fits(t)
    BY <1>7, <2>1, <2>4 DEF Resolve, TypeOK
  <2>5. CASE t \notin Shared /\ open[t] = None /\ ~Fits(t) /\ idle = {}
    <3>1. /\ pc' = [pc EXCEPT ![r] = "makingRoom"]
          /\ UNCHANGED <<victims, awaiting, handle, open, older, poolTenant, poolState, used>>
          /\ UNCHANGED <<status, lock, cache, tenant, row, op>>
      BY <1>7, <2>5 DEF Resolve, Goto, poolVars
    <3>2. pc' \in [Requests -> Steps] /\ pc'[r] = "makingRoom"
      BY <3>1 DEF TypeOK, Steps
    <3>3. \A x \in Requests : /\ pc'[x] # "idle" => tenant'[x] \in Tenants
                              /\ pc'[x] = "checking" => handle'[x] \in Pools
      BY <2>1, <3>1, <3>2 DEF TypeOK
    <3> QED BY <2>1, <3>1, <3>2, <3>3 DEF TypeOK
  <2>6. CASE t \notin Shared /\ open[t] = None /\ ~Fits(t) /\ idle # {}
    <3>1. PICK list \in SetToSeqs(idle) : EvictFirst(r, list)
      BY <1>7, <2>6 DEF Resolve, OldestFirst
    <3>2. idle \subseteq Tenants
      BY DEF OpenOn, OpenTenants
    <3>3. list \in Seq(Tenants) /\ list # <<>>
      BY <2>6, <3>1, <3>2, OrderIsSequence
    <3>4. /\ Goto(r, "makingRoom")
          /\ UNCHANGED <<handle, status, lock, cache, tenant, row, op>>
      BY <1>7, <2>6 DEF Resolve
    <3> HIDE DEF idle
    <3> QED BY <2>1, <3>1, <3>3, <3>4, EvictFirstTypes DEF TypeOK
  <2> QED BY <2>2, <2>3, <2>4, <2>5, <2>6
<1>8. ASSUME NEW r \in Requests, RoomMade(r) PROVE TypeOK'
  <2>1. /\ pc[r] = "makingRoom"
        /\ awaiting' \in [Requests -> Pools \cup {None}]
        /\ UNCHANGED <<status, lock, cache, poolVars, op>>
    BY <1>8 DEF RoomMade, TypeOK
  <2>2. CASE Fits(tenant[r])
    <3>1. /\ pc' = [pc EXCEPT ![r] = "opening"]
          /\ victims' = [victims EXCEPT ![r] = <<>>]
          /\ UNCHANGED <<tenant, row, handle>>
      BY <1>8, <2>2 DEF RoomMade
    <3>2. victims' \in [Requests -> Seq(Tenants)]
      <4>1. <<>> \in Seq(Tenants)
        OBVIOUS
      <4> QED BY <3>1, <4>1 DEF TypeOK
    <3> QED BY <2>1, <3>1, <3>2 DEF TypeOK
  <2>3. CASE ~Fits(tenant[r])
    <3>1. Refuse(r)
      BY <1>8, <2>3 DEF RoomMade
    <3> QED BY <2>1, <3>1, RefuseTypes DEF TypeOK
  <2> QED BY <2>2, <2>3
<1>9. ASSUME NEW r \in Requests, NEW p \in Pools, Connect(r, p) PROVE TypeOK'
  BY <1>9 DEF Connect, TypeOK
<1>10. ASSUME NEW r \in Requests, Publish(r) PROVE TypeOK'
  BY <1>10 DEF Publish, Touch, OpenTenants, TypeOK
<1>11. ASSUME NEW r \in Requests, OpenFails(r) PROVE TypeOK'
  BY <1>11 DEF OpenFails, Refuse, TypeOK
<1>12. ASSUME NEW r \in Requests, CheckOut(r) PROVE TypeOK'
  BY <1>12 DEF CheckOut, TypeOK
<1>13. ASSUME NEW r \in Requests, CheckIn(r) PROVE TypeOK'
  BY <1>13 DEF CheckIn, TypeOK
<1>14. ASSUME NEW r \in Requests, Finish(r) PROVE TypeOK'
  BY <1>14 DEF Finish, Refuse, TypeOK
<1>15. ASSUME NEW p \in Pools, Destroyed(p) PROVE TypeOK'
  BY <1>15 DEF Destroyed, TypeOK
<1>16. ASSUME NEW w \in Writers, NEW u \in Managed, NEW change \in Transitions,
              NEW mode \in Modes, BeginTransition(w, u, change[1], change[2], mode)
       PROVE  TypeOK'
  <2>1. change[1] \in Statuses /\ change[2] \in Statuses
    BY DEF Transitions, Statuses, Live, Building
  <2>2. u \in Tenants /\ mode \in AllModes \cup {"none", "closed"}
    OBVIOUS
  <2> QED BY <1>16, <2>1, <2>2 DEF BeginTransition, Ops, TypeOK
<1>17. ASSUME NEW w \in Writers, CompareAndSet(w) PROVE TypeOK'
  <2> DEFINE u == op[w].tenant
  <2>1. u \in Tenants /\ op[w] \in Ops /\ Idle \in Ops
    BY <1>17 DEF CompareAndSet, TypeOK, Ops, Idle, Statuses
  <2>2. op' \in [Writers -> Ops] /\ \A v \in Writers : op'[v].step # "idle" => op'[v].tenant \in Tenants
    <3>1. CASE status[u] # op[w].from \/ op[w].mode = "script"
      <4>1. op' = [op EXCEPT ![w] = Idle]
        BY <1>17, <3>1 DEF CompareAndSet
      <4>2. Idle.step = "idle"
        BY DEF Idle
      <4> QED BY <2>1, <4>1, <4>2 DEF TypeOK
    <3>3. CASE status[u] = op[w].from /\ op[w].mode # "script"
      <4>1. op' = [op EXCEPT ![w].step = "updated"]
        BY <1>17, <2>1, <3>3 DEF CompareAndSet, TypeOK, Ops
      <4> QED BY <2>1, <4>1 DEF TypeOK, Ops
    <3> QED BY <3>1, <3>3
  <2>3. status' \in [Tenants -> Statuses] /\ lock' \in [Tenants -> Writers \cup {None}]
    <3>1. \/ UNCHANGED <<status, lock>>
          \/ lock' = [lock EXCEPT ![u] = w] /\ UNCHANGED status
          \/ status' = [status EXCEPT ![u] = op[w].to] /\ UNCHANGED lock
      BY <1>17 DEF CompareAndSet
    <3>2. op[w].to \in Statuses
      BY <2>1 DEF Ops
    <3>3. status' \in [Tenants -> Statuses]
      BY <3>1, <3>2 DEF TypeOK
    <3>4. lock' \in [Tenants -> Writers \cup {None}]
      BY <3>1 DEF TypeOK
    <3> QED BY <3>3, <3>4
  <2> QED BY <1>17, <2>2, <2>3 DEF CompareAndSet, TypeOK
<1>18. ASSUME NEW w \in Writers, Invalidate(w) PROVE TypeOK'
  <2> DEFINE u == op[w].tenant
  <2>1. u \in Tenants /\ op[w] \in Ops
    BY <1>18 DEF Invalidate, TypeOK
  <2>2. CASE op[w].to \in {"suspended", "decommissioning"} /\ open[u] # None
    <3>1. /\ op' = [op EXCEPT ![w].step = "draining", ![w].pool = open[u]]
          /\ Evict(u)
          /\ cache' = [cache EXCEPT ![u] = None]
          /\ UNCHANGED <<status, lock, requestVars>>
      BY <1>18, <2>2 DEF Invalidate
    <3>2. open[u] \in Pools
      BY <2>1, <2>2 DEF TypeOK
    <3>3. op' \in [Writers -> Ops] /\ \A v \in Writers : op'[v].step # "idle" => op'[v].tenant \in Tenants
      BY <2>1, <3>1, <3>2 DEF TypeOK, Ops
    <3> QED BY <2>1, <3>1, <3>2, <3>3 DEF Evict, TypeOK
  <2>3. CASE ~(op[w].to \in {"suspended", "decommissioning"} /\ open[u] # None)
    <3>1. /\ op' = [op EXCEPT ![w].step = "draining"]
          /\ cache' = [cache EXCEPT ![u] = None]
          /\ UNCHANGED <<poolVars, status, lock, requestVars>>
      BY <1>18, <2>3 DEF Invalidate
    <3>2. op' \in [Writers -> Ops] /\ \A v \in Writers : op'[v].step # "idle" => op'[v].tenant \in Tenants
      BY <2>1, <3>1 DEF TypeOK, Ops
    <3> QED BY <2>1, <3>1, <3>2 DEF TypeOK
  <2> QED BY <2>2, <2>3
<1>19. ASSUME NEW w \in Writers, Respond(w) PROVE TypeOK'
  <2>1. op[w].tenant \in Tenants /\ op[w].to \in Statuses /\ Idle \in Ops
    BY <1>19 DEF Respond, TypeOK, Ops, Idle, Statuses
  <2>2. op' \in [Writers -> Ops] /\ \A v \in Writers : op'[v].step # "idle" => op'[v].tenant \in Tenants
    BY <1>19, <2>1 DEF Respond, TypeOK, Idle
  <2> QED BY <1>19, <2>1, <2>2 DEF Respond, TypeOK
<1>20. ASSUME NEW w \in Writers, Close(w) PROVE TypeOK'
  <2>1. op' \in [Writers -> Ops] /\ \A v \in Writers : op'[v].step # "idle" => op'[v].tenant \in Tenants
    <3>1. op' = [op EXCEPT ![w].mode = "closed"]
      BY <1>20 DEF Close
    <3>2. op[w] \in Ops
      BY DEF TypeOK
    <3> QED BY <3>1, <3>2 DEF TypeOK, Ops
  <2> QED BY <1>20, <2>1 DEF Close, TypeOK
<1>21. ASSUME NEW t \in Tenants, CreateRow(t) \/ DeleteRow(t) \/ Expire(t) PROVE TypeOK'
  <2>1. /\ status' \in [Tenants -> Statuses] /\ cache' \in [Tenants -> Statuses \cup {None}]
        /\ UNCHANGED <<lock, poolVars, requestVars, op>>
    <3>1. {"none", "provisioning"} \subseteq Statuses
      BY DEF Statuses, Building
    <3>2. CASE CreateRow(t)
      BY <3>1, <3>2 DEF CreateRow, TypeOK
    <3>3. CASE DeleteRow(t)
      BY <3>1, <3>3 DEF DeleteRow, TypeOK
    <3>4. CASE Expire(t)
      BY <3>4 DEF Expire, TypeOK
    <3> QED BY <1>21, <3>2, <3>3, <3>4
  <2> QED BY <2>1 DEF TypeOK
<1>22. CASE UNCHANGED vars
  BY <1>22 DEF vars, TypeOK
<1> QED
  BY <1>1, <1>2, <1>3, <1>4, <1>5, <1>6, <1>7, <1>8, <1>9, <1>10, <1>11, <1>12,
     <1>13, <1>14, <1>15, <1>16, <1>17, <1>18, <1>19, <1>20, <1>21, <1>22
     DEF Next, Request, Writer

(* TypeOK holds of every behaviour of the registry cache and the pools.    *)
THEOREM TypeInvariance == Spec => []TypeOK
BY InitTypes, NextTypes, PTL DEF Spec

(* Nothing is open or held at first. *)
LEMMA InitSafe == Init => Safe
BY DEF Init, Safe, NoDyingPoolReachable, HandleIsolation, Unshared, Holders

(* Letting go of instances, with the pools left alone, is safe.            *)
LEMMA LetsSafe ==
  ASSUME IInv, Lets, UNCHANGED <<open, poolTenant, poolState>>
  PROVE  Safe'
<1>1. NoDyingPoolReachable'
  BY DEF IInv, Safe, NoDyingPoolReachable
<1>2. HandleIsolation'
  BY DEF IInv, Safe, HandleIsolation, Lets
<1>3. Unshared'
  BY DEF IInv, TypeOK, Safe, Unshared, Lets
<1>4. Holders'
  BY DEF IInv, Safe, Holders, Lets
<1> QED BY <1>1, <1>2, <1>3, <1>4 DEF Safe

(* So is evicting a tenant: its instance was in the map for it alone and   *)
(* nobody is still checking it.                                            *)
LEMMA EvictSafe ==
  ASSUME IInv, Lets, NEW u \in Tenants, open[u] # None, Evict(u)
  PROVE  Safe'
<1>1. open[u] \in Pools /\ poolTenant[open[u]] = u /\ poolState[open[u]] = "open"
  BY DEF IInv, TypeOK, Safe, NoDyingPoolReachable
<1>2. /\ open' = [open EXCEPT ![u] = None]
      /\ poolState' = [poolState EXCEPT ![open[u]] = "destroying"]
      /\ poolTenant' = poolTenant
  BY DEF Evict
<1>3. NoDyingPoolReachable'
  BY <1>1, <1>2 DEF IInv, TypeOK, Safe, NoDyingPoolReachable
<1>4. HandleIsolation'
  <2>1. \A p \in Pools : poolState'[p] # "gone" => poolState[p] # "gone"
    BY <1>1, <1>2 DEF IInv, TypeOK
  <2> QED BY <1>2, <2>1 DEF IInv, Safe, HandleIsolation, Lets
<1>5. Unshared'
  <2> SUFFICES ASSUME NEW r \in Requests, pc'[r] = "checking"
               PROVE  /\ poolState'[handle'[r]] = "open"
                      /\ \A t \in Tenants : open'[t] # handle'[r]
                      /\ \A q \in Requests \ {r} : handle'[q] # handle'[r]
    BY DEF Unshared
  <2>1. pc[r] = "checking" /\ handle'[r] = handle[r] /\ handle[r] \in Pools
    BY DEF Lets, IInv, TypeOK
  <2>2. /\ poolState[handle[r]] = "open"
        /\ \A t \in Tenants : open[t] # handle[r]
        /\ \A q \in Requests \ {r} : handle[q] # handle[r]
    BY <2>1 DEF IInv, Safe, Unshared
  <2>3. poolState'[handle'[r]] = "open"
    BY <1>2, <2>1, <2>2 DEF IInv, TypeOK
  <2>4. \A t \in Tenants : open'[t] # handle'[r]
    BY <1>2, <2>1, <2>2 DEF IInv, TypeOK
  <2>5. \A q \in Requests \ {r} : handle'[q] # handle'[r]
    BY <2>1, <2>2 DEF Lets
  <2> QED BY <2>3, <2>4, <2>5
<1>6. Holders'
  BY DEF IInv, Safe, Holders, Lets
<1> QED BY <1>3, <1>4, <1>5, <1>6 DEF Safe

(* One turn of an eviction loop evicts one tenant or none.                 *)
LEMMA EvictFirstSafe ==
  ASSUME IInv, Lets, NEW r \in Requests, NEW list \in Seq(Tenants), list # <<>>,
         EvictFirst(r, list)
  PROVE  Safe'
<1> DEFINE t == Head(list)
<1>1. t \in Tenants
  OBVIOUS
<1> HIDE DEF t
<1>2. CASE open[t] = None
  BY <1>2, LetsSafe DEF EvictFirst, t, poolVars
<1>3. CASE open[t] # None
  <2>1. Evict(t)
    BY <1>3 DEF EvictFirst, t
  <2> QED BY <1>1, <1>3, <2>1, EvictSafe
<1> QED BY <1>2, <1>3

(* A refused request lets go. *)
LEMMA RefuseLets ==
  ASSUME TypeOK, NEW r \in Requests, Refuse(r)
  PROVE  Lets
BY DEF Refuse, Goto, TypeOK, Lets

(* So does one that goes on while it holds nothing yet.                    *)
LEMMA GotoLets ==
  ASSUME IInv, NEW r \in Requests, NEW step, step # "checking", Goto(r, step),
         pc[r] \notin {"checking", "serving"}, handle' = handle,
         \A q \in Requests \ {r} : tenant'[q] = tenant[q]
  PROVE  Lets
<1>1. handle[r] = None
  BY DEF IInv, Safe, Holders
<1> QED BY <1>1 DEF Goto, IInv, TypeOK, Lets

(* Whichever way the registry's answer is dispatched, the request lets go. *)
LEMMA DispatchLets ==
  ASSUME IInv, NEW r \in Requests, NEW s, Dispatch(r, s),
         pc[r] \in {"sweeping", "filling"}
  PROVE  Lets
<1>1. CASE s = "active"
  BY <1>1, GotoLets DEF Dispatch
<1>2. CASE s # "active"
  BY <1>2, RefuseLets DEF Dispatch, IInv
<1> QED BY <1>1, <1>2

(* A request is handed the core instance, or the entry of its own tenant:  *)
(* either is its own, and nobody is still checking it.                     *)
LEMMA HandedSafe ==
  ASSUME IInv, NEW r \in Requests, tenant[r] \in Tenants, pc[r] = "resolved",
         NEW h,
         \/ h = Core /\ tenant[r] \in Shared
         \/ h = open[tenant[r]] /\ h # None,
         pc' = [pc EXCEPT ![r] = "serving"], handle' = [handle EXCEPT ![r] = h],
         UNCHANGED <<open, poolTenant, poolState, tenant>>
  PROVE  Safe'
<1>1. \/ h = Core /\ tenant[r] \in Shared
      \/ h \in Pools /\ poolTenant[h] = tenant[r] /\ poolState[h] = "open"
  BY DEF IInv, TypeOK, Safe, NoDyingPoolReachable
<1>2. NoDyingPoolReachable'
  BY DEF IInv, Safe, NoDyingPoolReachable
<1>3. HandleIsolation'
  BY <1>1 DEF IInv, TypeOK, Safe, HandleIsolation
<1>4. Unshared'
  <2> SUFFICES ASSUME NEW q \in Requests, pc'[q] = "checking"
               PROVE  /\ poolState'[handle'[q]] = "open"
                      /\ \A t \in Tenants : open'[t] # handle'[q]
                      /\ \A x \in Requests \ {q} : handle'[x] # handle'[q]
    BY DEF Unshared
  <2>1. /\ q # r
        /\ pc[q] = "checking"
        /\ handle'[q] = handle[q] /\ handle[q] \in Pools
    BY DEF IInv, TypeOK
  <2>2. /\ poolState[handle[q]] = "open"
        /\ \A t \in Tenants : open[t] # handle[q]
        /\ \A x \in Requests \ {q} : handle[x] # handle[q]
    BY <2>1 DEF IInv, Safe, Unshared
  <2>3. h # handle[q]
    BY <2>1, <2>2
  <2>4. \A x \in Requests \ {q} : handle'[x] # handle'[q]
    BY <2>1, <2>2, <2>3 DEF IInv, TypeOK
  <2> QED BY <2>1, <2>2, <2>4
<1>5. Holders'
  BY DEF IInv, TypeOK, Safe, Holders
<1> QED BY <1>2, <1>3, <1>4, <1>5 DEF Safe

(* An instance just created is held by the request that created it alone.  *)
LEMMA ConnectSafe ==
  ASSUME IInv, NEW r \in Requests, NEW p \in Pools, Connect(r, p)
  PROVE  Safe'
<1>1. /\ poolState[p] = "gone"
      /\ \A q \in Requests : handle[q] # p
      /\ pc[r] = "opening"
      /\ pc' = [pc EXCEPT ![r] = "checking"]
      /\ handle' = [handle EXCEPT ![r] = p]
      /\ poolTenant' = [poolTenant EXCEPT ![p] = tenant[r]]
      /\ poolState' = [poolState EXCEPT ![p] = "open"]
      /\ UNCHANGED <<open, tenant>>
  BY DEF Connect, Fresh, Goto
<1>2. \A t \in Tenants : open[t] # p
  BY <1>1 DEF IInv, Safe, NoDyingPoolReachable
<1>3. NoDyingPoolReachable'
  BY <1>1, <1>2 DEF IInv, TypeOK, Safe, NoDyingPoolReachable
<1>4. HandleIsolation'
  BY <1>1 DEF IInv, TypeOK, Safe, HandleIsolation
<1>5. Unshared'
  <2> SUFFICES ASSUME NEW q \in Requests, pc'[q] = "checking"
               PROVE  /\ poolState'[handle'[q]] = "open"
                      /\ \A t \in Tenants : open'[t] # handle'[q]
                      /\ \A x \in Requests \ {q} : handle'[x] # handle'[q]
    BY DEF Unshared
  <2>1. CASE q = r
    <3>1. handle'[q] = p
      BY <1>1, <2>1 DEF IInv, TypeOK
    <3>2. \A x \in Requests \ {q} : handle'[x] = handle[x]
      BY <1>1, <2>1 DEF IInv, TypeOK
    <3> QED BY <1>1, <1>2, <3>1, <3>2 DEF IInv, TypeOK
  <2>2. CASE q # r
    <3>1. pc[q] = "checking" /\ handle'[q] = handle[q] /\ handle[q] \in Pools
      BY <1>1, <2>2 DEF IInv, TypeOK
    <3>2. /\ poolState[handle[q]] = "open"
          /\ \A t \in Tenants : open[t] # handle[q]
          /\ \A x \in Requests \ {q} : handle[x] # handle[q]
      BY <3>1 DEF IInv, Safe, Unshared
    <3>3. \A x \in Requests \ {q} : handle'[x] # handle'[q]
      BY <1>1, <3>1, <3>2 DEF IInv, TypeOK
    <3> QED BY <1>1, <3>1, <3>2, <3>3 DEF IInv, TypeOK
  <2> QED BY <2>1, <2>2
<1>6. Holders'
  BY <1>1 DEF IInv, TypeOK, Safe, Holders
<1> QED BY <1>3, <1>4, <1>5, <1>6 DEF Safe

(* An instance that passed its checks becomes its tenant's entry.          *)
LEMMA PublishSafe ==
  ASSUME IInv, NEW r \in Requests, Publish(r)
  PROVE  Safe'
<1>1. /\ pc[r] = "checking"
      /\ tenant[r] \in Tenants
      /\ handle[r] \in Pools
      /\ open' = [open EXCEPT ![tenant[r]] = handle[r]]
      /\ pc' = [pc EXCEPT ![r] = "serving"]
      /\ UNCHANGED <<handle, poolTenant, poolState, tenant>>
  BY DEF Publish, Goto, IInv, TypeOK
<1>2. /\ poolState[handle[r]] = "open"
      /\ \A q \in Requests \ {r} : handle[q] # handle[r]
  BY <1>1 DEF IInv, Safe, Unshared
<1>3. poolTenant[handle[r]] = tenant[r]
  BY <1>1, <1>2 DEF IInv, Safe, HandleIsolation
<1>4. NoDyingPoolReachable'
  BY <1>1, <1>2, <1>3 DEF IInv, TypeOK, Safe, NoDyingPoolReachable
<1>5. HandleIsolation'
  BY <1>1 DEF IInv, Safe, HandleIsolation
<1>6. Unshared'
  BY <1>1, <1>2 DEF IInv, TypeOK, Safe, Unshared
<1>7. Holders'
  BY <1>1 DEF IInv, TypeOK, Safe, Holders
<1> QED BY <1>4, <1>5, <1>6, <1>7 DEF Safe

(* An instance that failed them was nobody else's to lose.                 *)
LEMMA OpenFailsSafe ==
  ASSUME IInv, NEW r \in Requests, OpenFails(r)
  PROVE  Safe'
<1> DEFINE p == handle[r]
<1>1. /\ pc[r] \in {"opening", "checking"}
      /\ poolState' = [q \in Pools |-> IF q = p THEN "gone" ELSE poolState[q]]
      /\ poolTenant' = [q \in Pools |-> IF q = p THEN None ELSE poolTenant[q]]
      /\ open' = open
      /\ Refuse(r)
  BY DEF OpenFails
<1>2. Lets
  BY <1>1, RefuseLets DEF IInv
<1>3. /\ \A t \in Tenants : open[t] # None => open[t] # p
      /\ \A q \in Requests \ {r} : handle[q] \in Pools => handle[q] # p
  <2>1. CASE pc[r] = "checking"
    BY <2>1 DEF IInv, Safe, Unshared
  <2>2. CASE pc[r] = "opening"
    <3>1. p = None
      BY <2>2 DEF IInv, Safe, Holders
    <3> QED BY <3>1
  <2> QED BY <1>1, <2>1, <2>2
<1>4. handle'[r] = None /\ pc'[r] = "idle"
  BY <1>1 DEF Refuse, Goto, IInv, TypeOK
<1>5. \A q \in Requests \ {r} :
        pc'[q] = pc[q] /\ tenant'[q] = tenant[q] /\ handle'[q] = handle[q]
  BY <1>1 DEF Refuse, Goto, IInv, TypeOK
<1> HIDE DEF p
<1>6. NoDyingPoolReachable'
  BY <1>1, <1>3 DEF IInv, TypeOK, Safe, NoDyingPoolReachable
<1>7. HandleIsolation'
  BY <1>1, <1>3, <1>4, <1>5 DEF IInv, Safe, HandleIsolation
<1>8. Unshared'
  <2> SUFFICES ASSUME NEW q \in Requests, pc'[q] = "checking"
               PROVE  /\ poolState'[handle'[q]] = "open"
                      /\ \A t \in Tenants : open'[t] # handle'[q]
                      /\ \A x \in Requests \ {q} : handle'[x] # handle'[q]
    BY DEF Unshared
  <2>1. q # r /\ pc[q] = "checking" /\ handle'[q] = handle[q] /\ handle[q] \in Pools
    BY <1>4, <1>5 DEF IInv, TypeOK
  <2>2. /\ poolState[handle[q]] = "open"
        /\ \A t \in Tenants : open[t] # handle[q]
        /\ \A x \in Requests \ {q} : handle[x] # handle[q]
    BY <2>1 DEF IInv, Safe, Unshared
  <2>3. poolState'[handle'[q]] = "open"
    BY <1>1, <1>3, <2>1, <2>2
  <2>4. \A x \in Requests \ {q} : handle'[x] # handle'[q]
    BY <1>4, <1>5, <2>1, <2>2
  <2> QED BY <1>1, <2>1, <2>2, <2>3, <2>4
<1>9. Holders'
  BY <1>2 DEF IInv, Safe, Holders, Lets
<1> QED BY <1>6, <1>7, <1>8, <1>9 DEF Safe

(* An instance whose destroy() resolves is in no map and being checked by  *)
(* nobody: both are only ever true of an open one.                         *)
LEMMA DestroyedSafe ==
  ASSUME IInv, NEW p \in Pools, Destroyed(p)
  PROVE  Safe'
<1>1. /\ poolState[p] = "destroying"
      /\ poolState' = [poolState EXCEPT ![p] = "gone"]
      /\ poolTenant' = [poolTenant EXCEPT ![p] = None]
      /\ UNCHANGED <<open, pc, tenant, handle>>
  BY DEF Destroyed, requestVars
<1>2. NoDyingPoolReachable'
  BY <1>1 DEF IInv, TypeOK, Safe, NoDyingPoolReachable
<1>3. HandleIsolation'
  BY <1>1 DEF IInv, TypeOK, Safe, HandleIsolation
<1>4. Unshared'
  BY <1>1 DEF IInv, TypeOK, Safe, Unshared
<1>5. Holders'
  BY <1>1 DEF IInv, Safe, Holders
<1> QED BY <1>2, <1>3, <1>4, <1>5 DEF Safe

(* Every step keeps what makes HandleIsolation inductive.                  *)
LEMMA NextSafe == IInv /\ [Next]_vars => Safe'
<1> SUFFICES ASSUME IInv, [Next]_vars PROVE Safe'
  OBVIOUS
<1>t. TypeOK
  BY DEF IInv
<1> USE DEF requestVars, poolVars
<1>1. ASSUME NEW r \in Requests, NEW t \in Tenants, Acquire(r, t) PROVE Safe'
  <2>1. Lets
    BY <1>1, GotoLets DEF Acquire, IInv, TypeOK
  <2>2. PICK S \in SUBSET {u \in Tenants : IsIdle(u)} :
          IF S = {} THEN UNCHANGED <<victims, awaiting, poolVars>>
          ELSE \E list \in AnyOrder(S) : EvictFirst(r, list)
    BY <1>1 DEF Acquire
  <2>3. CASE S = {}
    BY <2>1, <2>2, <2>3, LetsSafe
  <2>4. CASE S # {}
    <3>1. PICK list \in SetToSeqs(S) : EvictFirst(r, list)
      BY <2>2, <2>4 DEF AnyOrder
    <3>2. list \in Seq(Tenants) /\ list # <<>>
      BY <2>4, <3>1, OrderIsSequence
    <3> QED BY <2>1, <3>1, <3>2, EvictFirstSafe
  <2> QED BY <2>3, <2>4
<1>2. ASSUME NEW r \in Requests, EvictNext(r) PROVE Safe'
  <2>1. victims[r] \in Seq(Tenants) /\ victims[r] # <<>> /\ EvictFirst(r, victims[r])
    BY <1>2, <1>t DEF EvictNext, TypeOK
  <2>2. Lets
    BY <1>2 DEF EvictNext, Lets
  <2> QED BY <2>1, <2>2, EvictFirstSafe
<1>3. ASSUME NEW r \in Requests, LookUp(r) PROVE Safe'
  <2>1. Lets
    <3>1. CASE cache[tenant[r]] # None
      BY <1>3, <3>1, DispatchLets DEF LookUp
    <3>2. CASE cache[tenant[r]] = None
      BY <1>3, <3>2, GotoLets DEF LookUp
    <3> QED BY <3>1, <3>2
  <2> QED BY <1>3, <2>1, LetsSafe DEF LookUp
<1>4. ASSUME NEW r \in Requests, ReadLive(r) PROVE Safe'
  <2>1. Lets
    BY <1>4, GotoLets DEF ReadLive
  <2> QED BY <1>4, <2>1, LetsSafe DEF ReadLive
<1>5. ASSUME NEW r \in Requests, ReadBuilding(r) PROVE Safe'
  <2>1. Lets
    BY <1>5, GotoLets DEF ReadBuilding
  <2> QED BY <1>5, <2>1, LetsSafe DEF ReadBuilding
<1>6. ASSUME NEW r \in Requests, FillCache(r) PROVE Safe'
  <2>1. Lets
    BY <1>6, DispatchLets DEF FillCache
  <2> QED BY <1>6, <2>1, LetsSafe DEF FillCache
<1>7. ASSUME NEW r \in Requests, Resolve(r) PROVE Safe'
  <2> DEFINE t == tenant[r]
             idle == {u \in OpenOn(ServerOf[t]) : IsIdle(u)}
  <2>1. t \in Tenants /\ pc[r] = "resolved" /\ UNCHANGED tenant
    BY <1>7, <1>t DEF Resolve, TypeOK
  <2>2. CASE t \in Shared
    <3>1. /\ pc' = [pc EXCEPT ![r] = "serving"]
          /\ handle' = [handle EXCEPT ![r] = Core]
          /\ UNCHANGED <<open, poolTenant, poolState>>
      BY <1>7, <2>2 DEF Resolve, Goto
    <3> QED BY <2>1, <2>2, <3>1, HandedSafe
  <2>3. CASE t \notin Shared /\ open[t] # None
    <3>1. /\ pc' = [pc EXCEPT ![r] = "serving"]
          /\ handle' = [handle EXCEPT ![r] = open[t]]
          /\ UNCHANGED <<open, poolTenant, poolState>>
      BY <1>7, <2>3 DEF Resolve, Goto
    <3> QED BY <2>1, <2>3, <3>1, HandedSafe
  <2>4. CASE t \notin Shared /\ open[t] = None /\ Fits(t)
    <3>1. Lets /\ UNCHANGED <<open, poolTenant, poolState>>
      BY <1>7, <2>1, <2>4, GotoLets DEF Resolve
    <3> QED BY <3>1, LetsSafe
  <2>5. CASE t \notin Shared /\ open[t] = None /\ ~Fits(t) /\ idle = {}
    <3>1. Lets /\ UNCHANGED <<open, poolTenant, poolState>>
      BY <1>7, <2>1, <2>5, GotoLets DEF Resolve
    <3> QED BY <3>1, LetsSafe
  <2>6. CASE t \notin Shared /\ open[t] = None /\ ~Fits(t) /\ idle # {}
    <3>1. PICK list \in SetToSeqs(idle) : EvictFirst(r, list)
      BY <1>7, <2>6 DEF Resolve, OldestFirst
    <3>2. idle \subseteq Tenants
      BY DEF OpenOn, OpenTenants
    <3>3. list \in Seq(Tenants) /\ list # <<>>
      BY <2>6, <3>1, <3>2, OrderIsSequence
    <3>4. Goto(r, "makingRoom") /\ handle' = handle
      BY <1>7, <2>6 DEF Resolve
    <3>5. Lets
      BY <2>1, <3>4, GotoLets
    <3> QED BY <3>1, <3>3, <3>5, EvictFirstSafe
  <2> QED BY <2>2, <2>3, <2>4, <2>5, <2>6
<1>8. ASSUME NEW r \in Requests, RoomMade(r) PROVE Safe'
  <2>1. Lets
    <3>1. CASE Fits(tenant[r])
      BY <1>8, <3>1, GotoLets DEF RoomMade
    <3>2. CASE ~Fits(tenant[r])
      BY <1>8, <1>t, <3>2, RefuseLets DEF RoomMade
    <3> QED BY <3>1, <3>2
  <2> QED BY <1>8, <2>1, LetsSafe DEF RoomMade
<1>14. ASSUME NEW r \in Requests, Finish(r) PROVE Safe'
  <2>1. Lets
    BY <1>14, <1>t, RefuseLets DEF Finish
  <2> QED BY <1>14, <2>1, LetsSafe DEF Finish
<1>15. ASSUME UNCHANGED <<open, poolTenant, poolState>>, UNCHANGED <<pc, tenant, handle>>
       PROVE  Safe'
  BY <1>15, LetsSafe DEF Lets
<1>16. ASSUME NEW w \in Writers, Invalidate(w) PROVE Safe'
  <2> DEFINE u == op[w].tenant
  <2>1. u \in Tenants
    BY <1>16, <1>t DEF Invalidate, TypeOK
  <2>2. Lets
    BY <1>16 DEF Invalidate, Lets
  <2>3. CASE op[w].to \in {"suspended", "decommissioning"} /\ open[u] # None
    <3>1. Evict(u)
      BY <1>16, <2>3 DEF Invalidate
    <3> QED BY <2>1, <2>2, <2>3, <3>1, EvictSafe
  <2>4. CASE ~(op[w].to \in {"suspended", "decommissioning"} /\ open[u] # None)
    <3>1. UNCHANGED <<open, poolTenant, poolState>>
      BY <1>16, <2>4 DEF Invalidate
    <3> QED BY <2>2, <3>1, LetsSafe
  <2> QED BY <2>3, <2>4
<1>17. CASE \/ \E r \in Requests : CheckOut(r) \/ CheckIn(r)
            \/ \E w \in Writers : CompareAndSet(w) \/ Respond(w) \/ Close(w)
            \/ \E w \in Writers, t \in Managed, change \in Transitions, mode \in Modes :
                 BeginTransition(w, t, change[1], change[2], mode)
            \/ \E t \in Tenants : CreateRow(t) \/ DeleteRow(t) \/ Expire(t)
            \/ UNCHANGED vars
  <2>1. UNCHANGED <<open, poolTenant, poolState>> /\ UNCHANGED <<pc, tenant, handle>>
    BY <1>17 DEF CheckOut, CheckIn, CompareAndSet, Respond, Close, BeginTransition,
                 CreateRow, DeleteRow, Expire, vars
  <2> QED BY <2>1, <1>15
<1> QED
  BY <1>1, <1>2, <1>3, <1>4, <1>5, <1>6, <1>7, <1>8, <1>14, <1>16, <1>17,
     ConnectSafe, PublishSafe, OpenFailsSafe, DestroyedSafe DEF Next, Request, Writer

(* The inductive invariant holds of every behaviour. *)
THEOREM InductiveInvariance == Spec => []IInv
<1>1. Init => IInv
  BY InitTypes, InitSafe DEF IInv
<1>2. IInv /\ [Next]_vars => IInv'
  BY NextTypes, NextSafe DEF IInv
<1> QED BY <1>1, <1>2, PTL DEF Spec

(* No interleaving hands a request another company's instance, or the core *)
(* instance to a company whose row does not name it.                       *)
THEOREM Isolation == Spec => []HandleIsolation
<1>1. IInv => HandleIsolation
  BY DEF IInv, Safe
<1> QED BY <1>1, InductiveInvariance, PTL

(* Whatever openInstances answers is open, and its tenant's own.           *)
THEOREM NoDyingPool == Spec => []NoDyingPoolReachable
<1>1. IInv => NoDyingPoolReachable
  BY DEF IInv, Safe
<1> QED BY <1>1, InductiveInvariance, PTL
-----------------------------------------------------------------------------
(* Counting connections.                                                   *)

Sizes(S) == [S -> 0 .. LargestPool]
Counted(f) == {c \in (DOMAIN f) \X (1 .. LargestPool) : c[2] <= f[c[1]]}

LEMMA TotalFinite ==
  ASSUME NEW S, IsFiniteSet(S), NEW f \in Sizes(S)
  PROVE  /\ IsFiniteSet(Counted(f))
         /\ Total(f) = Cardinality(Counted(f))
         /\ Total(f) \in Nat
         /\ Cardinality(S) \in Nat
         /\ Total(f) <= Cardinality(S) * LargestPool
<1>1. DOMAIN f = S
  BY DEF Sizes
<1>2. IsFiniteSet(1 .. LargestPool) /\ Cardinality(1 .. LargestPool) = LargestPool
  BY FS_Interval
<1>3. /\ IsFiniteSet(S \X (1 .. LargestPool))
      /\ Cardinality(S \X (1 .. LargestPool)) = Cardinality(S) * LargestPool
  BY <1>2, FS_Product
<1>4. Counted(f) \in SUBSET (S \X (1 .. LargestPool))
  BY <1>1 DEF Counted
<1>5. Total(f) = Cardinality(Counted(f))
  BY DEF Total, Counted
<1> QED BY <1>3, <1>4, <1>5, FS_Subset, FS_CardinalityType

(* Fewer owners with no larger pools have no more connections.             *)
LEMMA TotalMonotone ==
  ASSUME NEW S, NEW T, IsFiniteSet(T), S \subseteq T,
         NEW f \in Sizes(S), NEW g \in Sizes(T), \A x \in S : f[x] <= g[x]
  PROVE  Total(f) <= Total(g)
<1>1. ASSUME NEW c \in Counted(f) PROVE c \in Counted(g)
  <2>1. PICK x \in S, n \in 1 .. LargestPool : c = <<x, n>>
    BY DEF Counted, Sizes
  <2>2. n <= f[x]
    BY <2>1 DEF Counted
  <2>3. f[x] \in 0 .. LargestPool /\ g[x] \in 0 .. LargestPool /\ f[x] <= g[x]
    BY <2>1 DEF Sizes
  <2>4. n <= g[x]
    BY <2>2, <2>3
  <2>5. DOMAIN g = T
    BY DEF Sizes
  <2> QED BY <2>1, <2>4, <2>5 DEF Counted
<1>2. Counted(f) \in SUBSET Counted(g)
  BY <1>1
<1>3. IsFiniteSet(S)
  BY FS_Subset
<1> QED BY <1>2, <1>3, TotalFinite, FS_Subset

(* One owner's connections counted apart. *)
LEMMA TotalApart ==
  ASSUME NEW S, IsFiniteSet(S), NEW x \in S, NEW f \in Sizes(S), NEW g \in Sizes(S \ {x}),
         \A y \in S \ {x} : g[y] = f[y]
  PROVE  Total(f) = Total(g) + f[x]
<1> DEFINE own == {x} \X (1 .. f[x])
<1>1. f[x] \in 0 .. LargestPool /\ f[x] \in Nat
  BY DEF Sizes
<1>2. IsFiniteSet(own) /\ Cardinality(own) = f[x]
  <2> DEFINE k == f[x]
  <2> HIDE DEF k
  <2>1. k \in Nat
    BY <1>1 DEF k
  <2>2. IsFiniteSet(1 .. k) /\ Cardinality(1 .. k) = (IF 1 > k THEN 0 ELSE k - 1 + 1)
    BY <2>1, FS_Interval
  <2>3. Cardinality(1 .. k) = k
    BY <2>1, <2>2
  <2>4. IsFiniteSet({x}) /\ Cardinality({x}) = 1
    BY FS_Singleton
  <2>5. /\ IsFiniteSet({x} \X (1 .. k))
        /\ Cardinality({x} \X (1 .. k)) = Cardinality({x}) * Cardinality(1 .. k)
    BY <2>2, <2>4, FS_Product
  <2> QED BY <2>1, <2>3, <2>4, <2>5 DEF k
<1>3. Counted(f) = Counted(g) \cup own
  <2>1. ASSUME NEW c \in Counted(f) PROVE c \in Counted(g) \cup own
    <3>1. PICK y \in S, n \in 1 .. LargestPool : c = <<y, n>> /\ n <= f[y]
      BY DEF Counted, Sizes
    <3>2. CASE y = x
      BY <1>1, <3>1, <3>2
    <3>3. CASE y # x
      BY <3>1, <3>3 DEF Counted, Sizes
    <3> QED BY <3>2, <3>3
  <2>2. ASSUME NEW c \in Counted(g) PROVE c \in Counted(f)
    <3>1. PICK y \in S \ {x}, n \in 1 .. LargestPool : c = <<y, n>> /\ n <= g[y]
      BY DEF Counted, Sizes
    <3> QED BY <3>1 DEF Counted, Sizes
  <2>3. ASSUME NEW c \in own PROVE c \in Counted(f)
    <3>1. PICK n \in 1 .. f[x] : c = <<x, n>>
      OBVIOUS
    <3>2. n \in 1 .. LargestPool /\ n <= f[x]
      BY <1>1
    <3> QED BY <3>1, <3>2 DEF Counted, Sizes
  <2> QED BY <2>1, <2>2, <2>3
<1>4. Counted(g) \cap own = {}
  BY DEF Counted, Sizes
<1>5. IsFiniteSet(S \ {x})
  BY FS_RemoveElement
<1>6. IsFiniteSet(Counted(g)) /\ Total(g) = Cardinality(Counted(g)) /\ Total(g) \in Nat
  BY <1>5, TotalFinite
<1>7. Total(f) = Cardinality(Counted(f))
  BY TotalFinite
<1> HIDE DEF own
<1>8. Cardinality(Counted(f)) = Cardinality(Counted(g)) + Cardinality(own) - Cardinality({})
  BY <1>2, <1>3, <1>4, <1>6, FS_Union
<1>9. Cardinality({}) = 0
  BY FS_EmptySet
<1> QED BY <1>1, <1>2, <1>6, <1>7, <1>8, <1>9
-----------------------------------------------------------------------------
(* Who answers for the instances the map does not list.                    *)

(* Every instance is some company's, and one that is being destroyed is    *)
(* still awaited, by a request in an eviction loop or by a writer.         *)
Accounted ==
  /\ \A p \in Pools : poolState[p] # "gone" => poolTenant[p] \in Tenants
  /\ \A p \in Pools : poolState[p] = "destroying" =>
       \/ \E r \in Requests : awaiting[r] = p
       \/ \E w \in Writers : op[w].pool = p
  /\ \A r \in Requests : awaiting[r] # None => pc[r] \in {"sweeping", "makingRoom"}
  /\ \A w \in Writers : op[w].pool # None => op[w].step = "draining"

(* Nothing comes into being, and nothing that is being destroyed or that   *)
(* nobody can reach any more is given up or found again.                   *)
Modest ==
  /\ \A p \in Pools : poolState'[p] # "gone" =>
       poolState[p] # "gone" /\ poolTenant'[p] = poolTenant[p]
  /\ \A r \in Requests : pc'[r] = "opening" => pc[r] = "opening" /\ tenant'[r] = tenant[r]
  /\ \A p \in Pools : Abandoned(p) => Abandoned(p)'

(* An eviction turn destroys an instance of the map and awaits it.         *)
LEMMA EvictFirstAwaits ==
  ASSUME IInv, NEW r \in Requests, NEW list \in Seq(Tenants), list # <<>>, EvictFirst(r, list)
  PROVE  /\ poolTenant' = poolTenant
         /\ \A p \in Pools :
              \/ poolState'[p] = poolState[p]
              \/ /\ poolState[p] = "open" /\ poolState'[p] = "destroying" /\ awaiting'[r] = p
                 /\ \E t \in Tenants : open[t] = p
         /\ \A q \in Requests \ {r} : awaiting'[q] = awaiting[q]
         /\ \A t \in Tenants : open'[t] # None => open'[t] = open[t]
<1> DEFINE t == Head(list)
<1>1. t \in Tenants
  OBVIOUS
<1> HIDE DEF t
<1>2. CASE open[t] = None
  <2>1. awaiting' = [awaiting EXCEPT ![r] = None] /\ UNCHANGED poolVars
    BY <1>2 DEF EvictFirst, t
  <2> QED BY <2>1 DEF poolVars, IInv, TypeOK
<1>3. CASE open[t] # None
  <2>1. awaiting' = [awaiting EXCEPT ![r] = open[t]] /\ Evict(t)
    BY <1>3 DEF EvictFirst, t
  <2>2. poolState[open[t]] = "open" /\ open[t] \in Pools
    BY <1>1, <1>3 DEF IInv, Safe, NoDyingPoolReachable, TypeOK
  <2>3. poolState' = [poolState EXCEPT ![open[t]] = "destroying"] /\ poolTenant' = poolTenant
    BY <2>1 DEF Evict
  <2>4. open' = [open EXCEPT ![t] = None]
    BY <2>1 DEF Evict
  <2>5. \A p \in Pools :
          \/ poolState'[p] = poolState[p]
          \/ /\ poolState[p] = "open" /\ poolState'[p] = "destroying" /\ awaiting'[r] = p
             /\ \E u \in Tenants : open[u] = p
    BY <1>1, <2>1, <2>2, <2>3 DEF IInv, TypeOK
  <2> QED BY <2>1, <2>3, <2>4, <2>5 DEF IInv, TypeOK
<1> QED BY <1>2, <1>3

(* The same of a turn, or of no turn at all, at the start of a loop.       *)
LEMMA TurnAccounted ==
  ASSUME IInv, Accounted, NEW r \in Requests, Settled(awaiting[r]),
         \/ UNCHANGED <<awaiting, poolVars>>
         \/ \E list \in Seq(Tenants) : list # <<>> /\ EvictFirst(r, list),
         UNCHANGED op,
         pc'[r] \in {"sweeping", "makingRoom"},
         \A q \in Requests \ {r} : pc'[q] = pc[q] /\ handle'[q] = handle[q] /\ tenant'[q] = tenant[q],
         handle'[r] = handle[r], tenant'[r] = tenant[r] \/ pc'[r] # "opening"
  PROVE  Accounted' /\ Modest
<1>1. /\ poolTenant' = poolTenant
      /\ \A p \in Pools :
           \/ poolState'[p] = poolState[p]
           \/ /\ poolState[p] = "open" /\ poolState'[p] = "destroying" /\ awaiting'[r] = p
              /\ \E t \in Tenants : open[t] = p
      /\ \A q \in Requests \ {r} : awaiting'[q] = awaiting[q]
      /\ \A t \in Tenants : open'[t] # None => open'[t] = open[t]
      /\ \A p \in Pools : poolState'[p] = "destroying" /\ awaiting[r] = p => awaiting'[r] = p
  <2>1. CASE UNCHANGED <<awaiting, poolVars>>
    BY <2>1 DEF poolVars, IInv, TypeOK
  <2>2. CASE \E list \in Seq(Tenants) : list # <<>> /\ EvictFirst(r, list)
    <3>1. PICK list \in Seq(Tenants) : list # <<>> /\ EvictFirst(r, list)
      BY <2>2
    <3>2. ASSUME NEW p \in Pools, poolState'[p] = "destroying", awaiting[r] = p
          PROVE  awaiting'[r] = p
      BY <3>1, <3>2, EvictFirstAwaits DEF Settled
    <3> QED BY <3>1, <3>2, EvictFirstAwaits
  <2> QED BY <2>1, <2>2
<1>2. \A p \in Pools : poolState'[p] # "gone" => poolTenant'[p] \in Tenants
  BY <1>1 DEF Accounted
<1>3. ASSUME NEW p \in Pools, poolState'[p] = "destroying"
      PROVE  (\E q \in Requests : awaiting'[q] = p) \/ (\E w \in Writers : op'[w].pool = p)
  <2>1. CASE awaiting'[r] = p
    BY <2>1
  <2>2. CASE awaiting'[r] # p
    <3>1. poolState[p] = "destroying"
      BY <1>1, <1>3, <2>2
    <3>2. CASE \E w \in Writers : op[w].pool = p
      BY <3>2
    <3>3. ASSUME NEW q \in Requests, awaiting[q] = p PROVE awaiting'[q] = p
      BY <1>1, <1>3, <2>2, <3>3
    <3> QED BY <3>1, <3>2, <3>3 DEF Accounted
  <2> QED BY <2>1, <2>2
<1>4. \A q \in Requests : awaiting'[q] # None => pc'[q] \in {"sweeping", "makingRoom"}
  BY <1>1 DEF Accounted
<1>5. \A w \in Writers : op'[w].pool # None => op'[w].step = "draining"
  BY DEF Accounted
<1>6. ASSUME NEW p \in Pools, Abandoned(p) PROVE Abandoned(p)'
  <2>1. \A q \in Requests : handle'[q] = handle[q]
    OBVIOUS
  <2>2. \A t \in Tenants : open'[t] # p
    BY <1>1, <1>6, SentinelAssumption DEF Abandoned
  <2>3. poolState'[p] = "open"
    BY <1>1, <1>6 DEF Abandoned
  <2> QED BY <1>6, <2>1, <2>2, <2>3 DEF Abandoned
<1>7. \A q \in Requests : pc'[q] = "opening" => pc[q] = "opening" /\ tenant'[q] = tenant[q]
  OBVIOUS
<1> QED BY <1>1, <1>2, <1>3, <1>4, <1>5, <1>6, <1>7 DEF Accounted, Modest

(* A request that leaves its loop, fails or ends: it awaits a destroy() no *)
(* more, and what it gives up was settled or is not being destroyed.       *)
LEMMA LetsGoAccounted ==
  ASSUME IInv, Accounted, NEW r \in Requests,
         UNCHANGED <<open, poolState, poolTenant, op>>,
         awaiting'[r] \in {awaiting[r], None},
         awaiting'[r] = None \/ pc'[r] \in {"sweeping", "makingRoom"},
         awaiting'[r] # awaiting[r] => Settled(awaiting[r]),
         \A q \in Requests \ {r} : /\ pc'[q] = pc[q] /\ handle'[q] = handle[q]
                                   /\ tenant'[q] = tenant[q] /\ awaiting'[q] = awaiting[q],
         \/ handle'[r] \in {handle[r], None, Core}
         \/ \E t \in Tenants : handle'[r] = open[t]
  PROVE  Accounted' /\ (pc'[r] # "opening" => Modest)
<1>1. UNCHANGED <<open, poolState, poolTenant, op>>
  OBVIOUS
<1>2. ASSUME NEW p \in Pools, poolState'[p] = "destroying"
      PROVE  (\E q \in Requests : awaiting'[q] = p) \/ (\E w \in Writers : op'[w].pool = p)
  <2>1. poolState[p] = "destroying"
    BY <1>1, <1>2
  <2>2. CASE \E w \in Writers : op[w].pool = p
    BY <1>1, <2>2
  <2>3. CASE \E q \in Requests : awaiting[q] = p
    <3>1. PICK q \in Requests : awaiting[q] = p
      BY <2>3
    <3>2. p # None
      BY SentinelAssumption
    <3>3. awaiting'[q] = p
      BY <2>1, <3>1, <3>2 DEF Settled
    <3> QED BY <3>3
  <2> QED BY <2>1, <2>2, <2>3 DEF Accounted
<1>3. \A q \in Requests : awaiting'[q] # None => pc'[q] \in {"sweeping", "makingRoom"}
  BY DEF Accounted
<1>4. ASSUME NEW p \in Pools, Abandoned(p) PROVE Abandoned(p)'
  <2>1. \A q \in Requests : handle'[q] # p
    BY <1>4, SentinelAssumption DEF Abandoned
  <2> QED BY <1>1, <1>4, <2>1 DEF Abandoned
<1>5. Accounted'
  BY <1>1, <1>2, <1>3 DEF Accounted
<1>6. pc'[r] # "opening" =>
        \A q \in Requests : pc'[q] = "opening" => pc[q] = "opening" /\ tenant'[q] = tenant[q]
  OBVIOUS
<1> QED BY <1>1, <1>4, <1>5, <1>6 DEF Modest

(* ensureBudget answers "ok": the request begins to open a pool.           *)
Grants(r) ==
  /\ tenant[r] \in Tenants /\ Fits(tenant[r])
  /\ handle[r] = None /\ Settled(awaiting[r])
  /\ UNCHANGED <<open, poolState, poolTenant, tenant, handle>>
  /\ \A q \in Requests \ {r} : pc'[q] = pc[q]

LEMMA ResolveAccounted ==
  ASSUME IInv, Accounted, NEW r \in Requests, Resolve(r)
  PROVE  Accounted' /\ (Modest \/ Grants(r))
<1> DEFINE t == tenant[r]
           idle == {u \in OpenOn(ServerOf[t]) : IsIdle(u)}
<1>1. /\ pc[r] = "resolved" /\ t \in Tenants
      /\ UNCHANGED <<tenant, op>>
      /\ handle[r] = None /\ awaiting[r] = None
  BY DEF Resolve, IInv, TypeOK, Safe, Holders, Accounted
<1>2. CASE t \in Shared \/ open[t] # None
  <2>1. /\ pc' = [pc EXCEPT ![r] = "serving"]
        /\ UNCHANGED <<open, poolState, poolTenant, awaiting>>
        /\ \/ handle' = [handle EXCEPT ![r] = Core]
           \/ handle' = [handle EXCEPT ![r] = open[t]]
    BY <1>2 DEF Resolve, Goto, poolVars
  <2>2. handle'[r] = Core \/ handle'[r] = open[t]
    BY <2>1 DEF IInv, TypeOK
  <2>3. \A q \in Requests \ {r} : pc'[q] = pc[q] /\ handle'[q] = handle[q]
    BY <2>1 DEF IInv, TypeOK
  <2>4. pc'[r] = "serving"
    BY <2>1 DEF IInv, TypeOK
  <2> QED BY <1>1, <2>1, <2>2, <2>3, <2>4, LetsGoAccounted
<1>3. CASE t \notin Shared /\ open[t] = None /\ Fits(t)
  <2>1. /\ pc' = [pc EXCEPT ![r] = "opening"]
        /\ UNCHANGED <<open, poolState, poolTenant, awaiting, handle>>
    BY <1>3 DEF Resolve, Goto, poolVars
  <2>2. \A q \in Requests \ {r} : pc'[q] = pc[q]
    BY <2>1 DEF IInv, TypeOK
  <2>3. Accounted'
    BY <1>1, <2>1, <2>2, LetsGoAccounted
  <2> QED BY <1>1, <1>3, <2>1, <2>2, <2>3 DEF Grants, Settled
<1>4. CASE t \notin Shared /\ open[t] = None /\ ~Fits(t)
  <2>1. /\ pc' = [pc EXCEPT ![r] = "makingRoom"]
        /\ UNCHANGED handle
        /\ IF idle = {} THEN UNCHANGED <<victims, awaiting, poolVars>>
           ELSE \E list \in OldestFirst(idle) : EvictFirst(r, list)
    BY <1>4 DEF Resolve, Goto
  <2>2. /\ pc'[r] = "makingRoom"
        /\ \A q \in Requests \ {r} : pc'[q] = pc[q]
    BY <2>1 DEF IInv, TypeOK
  <2>3. \/ UNCHANGED <<awaiting, poolVars>>
        \/ \E list \in Seq(Tenants) : list # <<>> /\ EvictFirst(r, list)
    <3>1. idle \in SUBSET Tenants
      BY DEF OpenOn, OpenTenants
    <3> HIDE DEF idle
    <3>2. CASE idle = {}
      BY <2>1, <3>2
    <3>3. CASE idle # {}
      <4>1. PICK list \in OldestFirst(idle) : EvictFirst(r, list)
        BY <2>1, <3>3
      <4>2. list \in SetToSeqs(idle)
        BY <4>1 DEF OldestFirst
      <4>3. list \in Seq(Tenants) /\ list # <<>>
        BY <3>1, <3>3, <4>2, OrderIsSequence
      <4> QED BY <4>1, <4>3
    <3> QED BY <3>2, <3>3
  <2> QED BY <1>1, <2>1, <2>2, <2>3, TurnAccounted DEF Settled
<1> QED BY <1>2, <1>3, <1>4

LEMMA RequestAccounted ==
  ASSUME IInv, Accounted, NEW r \in Requests,
         \/ EvictNext(r) \/ LookUp(r) \/ ReadLive(r) \/ ReadBuilding(r) \/ FillCache(r)
         \/ RoomMade(r) \/ Finish(r) \/ \E t \in Tenants : Acquire(r, t)
  PROVE  Accounted' /\ (Modest \/ Grants(r))
<1>1. CASE \E t \in Tenants : Acquire(r, t)
  <2>1. PICK t \in Tenants : Acquire(r, t)
    BY <1>1
  <2>2. PICK S \in SUBSET {u \in Tenants : IsIdle(u)} :
          IF S = {} THEN UNCHANGED <<victims, awaiting, poolVars>>
          ELSE \E list \in AnyOrder(S) : EvictFirst(r, list)
    BY <2>1 DEF Acquire
  <2>3. /\ pc' = [pc EXCEPT ![r] = "sweeping"] /\ pc[r] = "idle"
        /\ tenant' = [tenant EXCEPT ![r] = t] /\ UNCHANGED <<handle, op>>
    BY <2>1 DEF Acquire, Goto
  <2>4. \/ UNCHANGED <<awaiting, poolVars>>
        \/ \E list \in Seq(Tenants) : list # <<>> /\ EvictFirst(r, list)
    <3>1. CASE S = {}
      BY <2>2, <3>1
    <3>2. CASE S # {}
      <4>1. PICK list \in SetToSeqs(S) : EvictFirst(r, list)
        BY <2>2, <3>2 DEF AnyOrder
      <4>2. list \in Seq(Tenants) /\ list # <<>>
        BY <3>2, <4>1, OrderIsSequence
      <4> QED BY <4>1, <4>2
    <3> QED BY <3>1, <3>2
  <2>5. awaiting[r] = None
    BY <2>3 DEF Accounted
  <2>6. /\ pc'[r] = "sweeping"
        /\ \A q \in Requests \ {r} : pc'[q] = pc[q] /\ tenant'[q] = tenant[q]
    BY <2>3 DEF IInv, TypeOK
  <2> QED BY <2>3, <2>4, <2>5, <2>6, TurnAccounted DEF Settled
<1>2. CASE EvictNext(r)
  <2>1. victims[r] \in Seq(Tenants) /\ victims[r] # <<>>
    BY <1>2 DEF EvictNext, IInv, TypeOK
  <2>2. /\ EvictFirst(r, victims[r]) /\ Settled(awaiting[r])
        /\ pc[r] \in {"sweeping", "makingRoom"} /\ UNCHANGED <<op, pc, tenant, handle>>
    BY <1>2 DEF EvictNext
  <2> QED BY <2>1, <2>2, TurnAccounted
<1>3. CASE LookUp(r)
  <2>1. /\ awaiting' = [awaiting EXCEPT ![r] = None] /\ Settled(awaiting[r])
        /\ UNCHANGED <<open, poolState, poolTenant, op>>
    BY <1>3 DEF LookUp, poolVars
  <2>2. /\ pc'[r] # "opening" /\ handle'[r] \in {handle[r], None}
        /\ \A q \in Requests \ {r} : pc'[q] = pc[q] /\ handle'[q] = handle[q]
                                     /\ tenant'[q] = tenant[q]
    BY <1>3 DEF LookUp, Dispatch, Refuse, Goto, IInv, TypeOK
  <2>3. awaiting'[r] = None /\ \A q \in Requests \ {r} : awaiting'[q] = awaiting[q]
    BY <2>1 DEF IInv, TypeOK
  <2> QED BY <2>1, <2>2, <2>3, LetsGoAccounted
<1>4. CASE ReadLive(r) \/ ReadBuilding(r) \/ FillCache(r) \/ Finish(r)
  <2>1. UNCHANGED <<open, poolState, poolTenant, op, awaiting>> /\ awaiting[r] = None
    BY <1>4 DEF ReadLive, ReadBuilding, FillCache, Finish, poolVars, Accounted
  <2>2. /\ pc'[r] # "opening" /\ handle'[r] \in {handle[r], None}
        /\ \A q \in Requests \ {r} : pc'[q] = pc[q] /\ handle'[q] = handle[q]
                                     /\ tenant'[q] = tenant[q]
    BY <1>4 DEF ReadLive, ReadBuilding, FillCache, Finish, Dispatch, Refuse, Goto, IInv, TypeOK
  <2> QED BY <2>1, <2>2, LetsGoAccounted
<1>5. CASE RoomMade(r)
  <2>1. /\ awaiting' = [awaiting EXCEPT ![r] = None] /\ Settled(awaiting[r])
        /\ UNCHANGED <<open, poolState, poolTenant, op>>
        /\ pc[r] = "makingRoom" /\ handle[r] = None /\ tenant[r] \in Tenants
    BY <1>5 DEF RoomMade, poolVars, IInv, Safe, Holders, TypeOK
  <2>2. awaiting'[r] = None /\ \A q \in Requests \ {r} : awaiting'[q] = awaiting[q]
    BY <2>1 DEF IInv, TypeOK
  <2>3. CASE Fits(tenant[r])
    <3>1. pc' = [pc EXCEPT ![r] = "opening"] /\ UNCHANGED <<tenant, handle>>
      BY <1>5, <2>3 DEF RoomMade, Goto
    <3>2. \A q \in Requests \ {r} : pc'[q] = pc[q]
      BY <3>1 DEF IInv, TypeOK
    <3>3. Accounted'
      BY <2>1, <2>2, <3>1, <3>2, LetsGoAccounted
    <3> QED BY <2>1, <2>3, <3>1, <3>2, <3>3 DEF Grants
  <2>4. CASE ~Fits(tenant[r])
    <3>1. /\ pc'[r] # "opening" /\ handle'[r] \in {handle[r], None}
          /\ \A q \in Requests \ {r} : pc'[q] = pc[q] /\ handle'[q] = handle[q]
                                       /\ tenant'[q] = tenant[q]
      BY <1>5, <2>4 DEF RoomMade, Refuse, Goto, IInv, TypeOK
    <3> QED BY <2>1, <2>2, <3>1, LetsGoAccounted
  <2> QED BY <2>3, <2>4
<1> QED BY <1>1, <1>2, <1>3, <1>4, <1>5

(* A new instance is the request's own, and no destroy() is awaited for it. *)
LEMMA ConnectAccounted ==
  ASSUME IInv, Accounted, NEW r \in Requests, NEW p \in Pools, Connect(r, p)
  PROVE  Accounted'
<1>1. /\ pc[r] = "opening" /\ tenant[r] \in Tenants /\ awaiting[r] = None
      /\ pc' = [pc EXCEPT ![r] = "checking"]
      /\ poolTenant' = [poolTenant EXCEPT ![p] = tenant[r]]
      /\ poolState' = [poolState EXCEPT ![p] = "open"]
      /\ UNCHANGED <<awaiting, op>>
  BY DEF Connect, Goto, Accounted, IInv, TypeOK
<1> QED BY <1>1 DEF Accounted, IInv, TypeOK

(* The instance that enters the map was in its request's hands.            *)
LEMMA PublishAccounted ==
  ASSUME IInv, Accounted, NEW r \in Requests, Publish(r)
  PROVE  Accounted' /\ Modest
<1>1. /\ pc[r] = "checking" /\ awaiting[r] = None
      /\ open' = [open EXCEPT ![tenant[r]] = handle[r]]
      /\ pc' = [pc EXCEPT ![r] = "serving"]
      /\ UNCHANGED <<poolTenant, poolState, tenant, awaiting, handle, op>>
  BY DEF Publish, Goto, Accounted
<1>2. Accounted'
  BY <1>1 DEF Accounted, IInv, TypeOK
<1>3. ASSUME NEW q \in Pools, Abandoned(q) PROVE Abandoned(q)'
  BY <1>1, <1>3 DEF Abandoned, IInv, TypeOK
<1> QED BY <1>1, <1>2, <1>3 DEF Modest, IInv, TypeOK

LEMMA OpenFailsAccounted ==
  ASSUME IInv, Accounted, NEW r \in Requests, OpenFails(r)
  PROVE  Accounted' /\ Modest
<1>1. /\ awaiting[r] = None
      /\ pc' = [pc EXCEPT ![r] = "idle"]
      /\ handle' = [handle EXCEPT ![r] = None]
      /\ tenant' = [tenant EXCEPT ![r] = None]
      /\ poolState' = [p \in Pools |-> IF p = handle[r] THEN "gone" ELSE poolState[p]]
      /\ poolTenant' = [p \in Pools |-> IF p = handle[r] THEN None ELSE poolTenant[p]]
      /\ UNCHANGED <<open, awaiting, op>>
  BY DEF OpenFails, Refuse, Goto, Accounted
<1>2. Accounted'
  BY <1>1 DEF Accounted, IInv, TypeOK
<1>3. ASSUME NEW q \in Pools, Abandoned(q) PROVE Abandoned(q)'
  BY <1>1, <1>3, SentinelAssumption DEF Abandoned, IInv, TypeOK
<1>4. \A p \in Pools : poolState'[p] # "gone" =>
        poolState[p] # "gone" /\ poolTenant'[p] = poolTenant[p]
  BY <1>1
<1>5. \A q \in Requests : pc'[q] = "opening" => pc[q] = "opening" /\ tenant'[q] = tenant[q]
  BY <1>1 DEF IInv, TypeOK
<1> QED BY <1>2, <1>3, <1>4, <1>5 DEF Modest

LEMMA DestroyedAccounted ==
  ASSUME IInv, Accounted, NEW p \in Pools, Destroyed(p)
  PROVE  Accounted' /\ Modest
<1>1. /\ poolState[p] = "destroying"
      /\ poolState' = [poolState EXCEPT ![p] = "gone"]
      /\ poolTenant' = [poolTenant EXCEPT ![p] = None]
      /\ UNCHANGED <<open, pc, tenant, handle, awaiting, op>>
  BY DEF Destroyed, requestVars
<1>2. Accounted'
  BY <1>1 DEF Accounted, IInv, TypeOK
<1>3. ASSUME NEW q \in Pools, Abandoned(q) PROVE Abandoned(q)'
  BY <1>1, <1>3 DEF Abandoned, IInv, TypeOK
<1>4. \A q \in Pools : poolState'[q] # "gone" =>
        poolState[q] # "gone" /\ poolTenant'[q] = poolTenant[q]
  BY <1>1 DEF IInv, TypeOK
<1> QED BY <1>1, <1>2, <1>3, <1>4 DEF Modest

(* A writer's eviction is awaited by the writer.                           *)
LEMMA InvalidateAccounted ==
  ASSUME IInv, Accounted, NEW w \in Writers, Invalidate(w)
  PROVE  Accounted' /\ Modest
<1> DEFINE t == op[w].tenant
<1>1. /\ op[w].step = "updated" /\ op[w].pool = None /\ t \in Tenants
      /\ UNCHANGED <<pc, tenant, handle, awaiting>>
  BY DEF Invalidate, requestVars, Accounted, IInv, TypeOK
<1> HIDE DEF t
<1>2. CASE open[t] # None /\ op' = [op EXCEPT ![w].step = "draining", ![w].pool = open[t]] /\ Evict(t)
  <2>1. poolState[open[t]] = "open" /\ open[t] \in Pools
    BY <1>1, <1>2 DEF IInv, Safe, NoDyingPoolReachable, TypeOK
  <2>2. /\ poolState' = [poolState EXCEPT ![open[t]] = "destroying"] /\ poolTenant' = poolTenant
        /\ open' = [open EXCEPT ![t] = None]
    BY <1>2 DEF Evict
  <2>3. /\ op'[w].step = "draining" /\ op'[w].pool = open[t]
        /\ \A x \in Writers \ {w} : op'[x] = op[x]
    BY <1>2 DEF IInv, TypeOK, Ops
  <2>4. ASSUME NEW p \in Pools, poolState'[p] = "destroying"
        PROVE  (\E q \in Requests : awaiting'[q] = p) \/ (\E x \in Writers : op'[x].pool = p)
    <3>1. CASE p = open[t]
      BY <2>3, <3>1
    <3>2. CASE p # open[t]
      <4>1. poolState[p] = "destroying"
        BY <2>1, <2>2, <2>4, <3>2 DEF IInv, TypeOK
      <4>2. p # op[w].pool
        BY <1>1, SentinelAssumption
      <4> QED BY <1>1, <2>3, <4>1, <4>2 DEF Accounted
    <3> QED BY <3>1, <3>2
  <2>5. Accounted'
    <3>1. \A p \in Pools : poolState'[p] # "gone" => poolTenant'[p] \in Tenants
      BY <2>1, <2>2 DEF Accounted, IInv, TypeOK
    <3>2. \A x \in Writers : op'[x].pool # None => op'[x].step = "draining"
      BY <2>3 DEF Accounted
    <3>3. \A q \in Requests : awaiting'[q] # None => pc'[q] \in {"sweeping", "makingRoom"}
      BY <1>1 DEF Accounted
    <3> QED BY <2>4, <3>1, <3>2, <3>3 DEF Accounted
  <2>6. ASSUME NEW q \in Pools, Abandoned(q) PROVE Abandoned(q)'
    BY <1>1, <2>1, <2>2, <2>6, SentinelAssumption DEF Abandoned, IInv, TypeOK
  <2>7. \A p \in Pools : poolState'[p] # "gone" =>
          poolState[p] # "gone" /\ poolTenant'[p] = poolTenant[p]
    BY <2>1, <2>2 DEF IInv, TypeOK
  <2> QED BY <1>1, <2>5, <2>6, <2>7 DEF Modest
<1>3. CASE op' = [op EXCEPT ![w].step = "draining"] /\ UNCHANGED poolVars
  <2>1. UNCHANGED <<open, poolState, poolTenant>>
    BY <1>3 DEF poolVars
  <2>2. \A x \in Writers : op'[x].pool = op[x].pool
    BY <1>3 DEF IInv, TypeOK, Ops
  <2>3. \A x \in Writers : op'[x].pool # None => op'[x].step = "draining"
    BY <1>1, <1>3, <2>2 DEF Accounted, IInv, TypeOK, Ops
  <2> QED BY <1>1, <2>1, <2>2, <2>3 DEF Accounted, Modest, Abandoned
<1> QED BY <1>2, <1>3 DEF Invalidate, t

(* What leaves the maps and the requests alone.                            *)
LEMMA RestAccounted ==
  ASSUME IInv, Accounted,
         UNCHANGED <<open, poolState, poolTenant, pc, tenant, handle, awaiting>>,
         \/ UNCHANGED op
         \/ \E w \in Writers : CompareAndSet(w) \/ Respond(w) \/ Close(w)
         \/ \E w \in Writers, t \in Managed, change \in Transitions, mode \in Modes :
              BeginTransition(w, t, change[1], change[2], mode)
  PROVE  Accounted' /\ Modest
<1>1. /\ \A w \in Writers : op'[w].pool # None => op'[w].step = "draining"
      /\ \A w \in Writers : op'[w].pool # op[w].pool => Settled(op[w].pool)
  <2>1. CASE UNCHANGED op
    BY <2>1 DEF Accounted
  <2>2. ASSUME NEW w \in Writers, CompareAndSet(w)
        PROVE  /\ \A x \in Writers : op'[x].pool # None => op'[x].step = "draining"
               /\ \A x \in Writers : op'[x].pool # op[x].pool => Settled(op[x].pool)
    <3>1. op[w].step = "casting" /\ op[w].pool = None
      BY <2>2 DEF CompareAndSet, Accounted
    <3>2. op' = [op EXCEPT ![w] = Idle] \/ op' = [op EXCEPT ![w] = [@ EXCEPT !.step = "updated"]]
      BY <2>2 DEF CompareAndSet
    <3>3. op'[w].pool = None /\ \A x \in Writers \ {w} : op'[x] = op[x]
      BY <3>1, <3>2 DEF IInv, TypeOK, Ops, Idle
    <3> QED BY <3>1, <3>3 DEF Accounted
  <2>3. ASSUME NEW w \in Writers, Respond(w)
        PROVE  /\ \A x \in Writers : op'[x].pool # None => op'[x].step = "draining"
               /\ \A x \in Writers : op'[x].pool # op[x].pool => Settled(op[x].pool)
    <3>1. op' = [op EXCEPT ![w] = Idle] /\ Settled(op[w].pool)
      BY <2>3 DEF Respond
    <3>2. op'[w].pool = None /\ \A x \in Writers \ {w} : op'[x] = op[x]
      BY <3>1 DEF IInv, TypeOK, Idle
    <3> QED BY <3>1, <3>2 DEF Accounted
  <2>4. ASSUME NEW w \in Writers, Close(w)
        PROVE  /\ \A x \in Writers : op'[x].pool # None => op'[x].step = "draining"
               /\ \A x \in Writers : op'[x].pool # op[x].pool => Settled(op[x].pool)
    <3>1. op' = [op EXCEPT ![w].mode = "closed"]
      BY <2>4 DEF Close
    <3>2. \A x \in Writers : op'[x].pool = op[x].pool /\ op'[x].step = op[x].step
      BY <3>1 DEF IInv, TypeOK, Ops
    <3> QED BY <3>2 DEF Accounted
  <2>5. ASSUME NEW w \in Writers, NEW t \in Managed, NEW change \in Transitions,
               NEW mode \in Modes, BeginTransition(w, t, change[1], change[2], mode)
        PROVE  /\ \A x \in Writers : op'[x].pool # None => op'[x].step = "draining"
               /\ \A x \in Writers : op'[x].pool # op[x].pool => Settled(op[x].pool)
    <3>1. op[w].step = "idle" /\ op[w].pool = None
      BY <2>5 DEF BeginTransition, Accounted
    <3>2. op'[w].pool = None /\ \A x \in Writers \ {w} : op'[x] = op[x]
      BY <2>5 DEF BeginTransition, IInv, TypeOK
    <3> QED BY <3>1, <3>2 DEF Accounted
  <2> QED BY <2>1, <2>2, <2>3, <2>4, <2>5
<1>2. ASSUME NEW p \in Pools, poolState'[p] = "destroying"
      PROVE  (\E q \in Requests : awaiting'[q] = p) \/ (\E w \in Writers : op'[w].pool = p)
  <2>1. poolState[p] = "destroying" /\ p # None
    BY <1>2, SentinelAssumption
  <2>2. \A w \in Writers : op[w].pool = p => op'[w].pool = p
    BY <1>1, <2>1 DEF Settled
  <2> QED BY <2>1, <2>2 DEF Accounted
<1> QED BY <1>1, <1>2 DEF Accounted, Modest, Abandoned

(* Every step: nothing more exists or is being opened, or a pool that was  *)
(* being opened now exists, or ensureBudget has found room for one more.   *)
LEMMA NextAccounted ==
  ASSUME IInv, Accounted, [Next]_vars
  PROVE  /\ Accounted'
         /\ \/ Modest
            \/ \E r \in Requests, p \in Pools : Connect(r, p)
            \/ \E r \in Requests : Grants(r)
<1>1. CASE \/ \E r \in Requests : CheckOut(r) \/ CheckIn(r)
           \/ \E w \in Writers : CompareAndSet(w) \/ Respond(w) \/ Close(w)
           \/ \E w \in Writers, t \in Managed, change \in Transitions, mode \in Modes :
                BeginTransition(w, t, change[1], change[2], mode)
           \/ \E t \in Managed : CreateRow(t) \/ DeleteRow(t)
           \/ \E t \in Tenants : Expire(t)
           \/ UNCHANGED vars
  <2>1. UNCHANGED <<open, poolState, poolTenant, pc, tenant, handle, awaiting>>
    BY <1>1 DEF CheckOut, CheckIn, CompareAndSet, Respond, Close, BeginTransition,
                CreateRow, DeleteRow, Expire, vars, poolVars, requestVars
  <2>2. \/ UNCHANGED op
        \/ \E w \in Writers : CompareAndSet(w) \/ Respond(w) \/ Close(w)
        \/ \E w \in Writers, t \in Managed, change \in Transitions, mode \in Modes :
             BeginTransition(w, t, change[1], change[2], mode)
    BY <1>1 DEF CheckOut, CheckIn, CreateRow, DeleteRow, Expire, vars
  <2> QED BY <2>1, <2>2, RestAccounted
<1>2. ASSUME NEW r \in Requests, Resolve(r) PROVE Accounted' /\ (Modest \/ Grants(r))
  BY <1>2, ResolveAccounted
<1> QED BY <1>1, <1>2, RequestAccounted, ConnectAccounted, PublishAccounted,
           OpenFailsAccounted, DestroyedAccounted, InvalidateAccounted
        DEF Next, Request, Writer

(* For any companies, requests and writers: every instance that is being   *)
(* destroyed is awaited, so the actors bound how many there are.           *)
LEMMA AccountedInvariance == Spec => [](IInv /\ Accounted)
<1>1. Init => Accounted
  BY SentinelAssumption DEF Init, Accounted, Idle
<1>2. IInv /\ Accounted /\ [Next]_vars => Accounted'
  BY NextAccounted
<1> QED BY <1>1, <1>2, InductiveInvariance, PTL DEF Spec
-----------------------------------------------------------------------------
(* How far the budget can be missed. *)

InstanceSizes(s) == [p \in InstancesOn(s) |-> PoolMax[poolTenant[p]]]
OpeningSizes(s) == [r \in OpeningOn(s) |-> PoolMax[tenant[r]]]

(* The actors that may answer for a pool ensureBudget does not count, and  *)
(* the pools nobody answers for.                                           *)
Others == Cardinality(Requests) - 1 + Cardinality(Writers)
Slack(s) == (Others + Cardinality(AbandonedOn(s))) * LargestPool

LEMMA CountsFinite ==
  ASSUME TypeOK, Accounted, NEW s \in Servers
  PROVE  /\ IsFiniteSet(InstancesOn(s)) /\ InstanceSizes(s) \in Sizes(InstancesOn(s))
         /\ ConnectionsOn(s) = Total(InstanceSizes(s)) /\ ConnectionsOn(s) \in Nat
         /\ IsFiniteSet(OpeningOn(s)) /\ OpeningSizes(s) \in Sizes(OpeningOn(s))
         /\ OpeningBudget(s) = Total(OpeningSizes(s)) /\ OpeningBudget(s) \in Nat
         /\ IsFiniteSet(AbandonedOn(s)) /\ Cardinality(AbandonedOn(s)) \in Nat
         /\ Others \in Nat /\ Slack(s) \in Nat /\ Budget[s] \in Nat
<1>1. /\ InstancesOn(s) \in SUBSET Pools /\ AbandonedOn(s) \in SUBSET Pools
      /\ OpeningOn(s) \in SUBSET Requests
  BY DEF InstancesOn, AbandonedOn, OpeningOn
<1>2. IsFiniteSet(InstancesOn(s)) /\ IsFiniteSet(AbandonedOn(s)) /\ IsFiniteSet(OpeningOn(s))
  BY <1>1, BoundsAssumption, FS_Subset
<1>3. InstanceSizes(s) \in Sizes(InstancesOn(s))
  <2>1. \A p \in InstancesOn(s) : poolTenant[p] \in Tenants
    BY DEF InstancesOn, Accounted
  <2> QED BY <2>1 DEF InstanceSizes, Sizes
<1>4. OpeningSizes(s) \in Sizes(OpeningOn(s))
  <2>1. \A r \in OpeningOn(s) : tenant[r] \in Tenants
    BY DEF OpeningOn, TypeOK
  <2> QED BY <2>1 DEF OpeningSizes, Sizes
<1>5. ConnectionsOn(s) = Total(InstanceSizes(s)) /\ OpeningBudget(s) = Total(OpeningSizes(s))
  BY DEF ConnectionsOn, OpeningBudget, InstanceSizes, OpeningSizes
<1>6. Cardinality(AbandonedOn(s)) \in Nat
  BY <1>2, FS_CardinalityType
<1>7. Others \in Nat
  <2>1. Cardinality(Requests) \in Nat /\ Cardinality(Requests) # 0
    BY FS_CardinalityType, FS_EmptySet
  <2>2. Cardinality(Writers) \in Nat
    BY BoundsAssumption, FS_CardinalityType
  <2> QED BY <2>1, <2>2 DEF Others
<1>8. Slack(s) \in Nat
  BY <1>6, <1>7 DEF Slack
<1> QED BY <1>2, <1>3, <1>4, <1>5, <1>6, <1>7, <1>8, TotalFinite

LEMMA CountsFiniteNext ==
  ASSUME TypeOK', Accounted', NEW s \in Servers
  PROVE  /\ IsFiniteSet(InstancesOn(s)') /\ InstanceSizes(s)' \in Sizes(InstancesOn(s)')
         /\ ConnectionsOn(s)' = Total(InstanceSizes(s)') /\ ConnectionsOn(s)' \in Nat
         /\ IsFiniteSet(OpeningOn(s)') /\ OpeningSizes(s)' \in Sizes(OpeningOn(s)')
         /\ OpeningBudget(s)' = Total(OpeningSizes(s)') /\ OpeningBudget(s)' \in Nat
         /\ IsFiniteSet(AbandonedOn(s)') /\ Cardinality(AbandonedOn(s)') \in Nat
<1>1. /\ InstancesOn(s)' \in SUBSET Pools /\ AbandonedOn(s)' \in SUBSET Pools
      /\ OpeningOn(s)' \in SUBSET Requests
  BY DEF InstancesOn, AbandonedOn, OpeningOn
<1>2. IsFiniteSet(InstancesOn(s)') /\ IsFiniteSet(AbandonedOn(s)') /\ IsFiniteSet(OpeningOn(s)')
  BY <1>1, BoundsAssumption, FS_Subset
<1>3. InstanceSizes(s)' \in Sizes(InstancesOn(s)')
  <2>1. \A p \in InstancesOn(s)' : poolTenant'[p] \in Tenants
    BY DEF InstancesOn, Accounted
  <2> QED BY <2>1 DEF InstanceSizes, Sizes
<1>4. OpeningSizes(s)' \in Sizes(OpeningOn(s)')
  <2>1. \A r \in OpeningOn(s)' : tenant'[r] \in Tenants
    BY DEF OpeningOn, TypeOK
  <2> QED BY <2>1 DEF OpeningSizes, Sizes
<1>5. ConnectionsOn(s)' = Total(InstanceSizes(s)') /\ OpeningBudget(s)' = Total(OpeningSizes(s)')
  BY DEF ConnectionsOn, OpeningBudget, InstanceSizes, OpeningSizes
<1>6. Cardinality(AbandonedOn(s)') \in Nat
  BY <1>2, FS_CardinalityType
<1> QED BY <1>2, <1>3, <1>4, <1>5, <1>6, TotalFinite

(* An abandoned instance stays abandoned, so the slack never shrinks.      *)
LEMMA SlackKept ==
  ASSUME TypeOK, TypeOK', Accounted, Accounted', NEW s \in Servers,
         AbandonedOn(s) \subseteq AbandonedOn(s)'
  PROVE  Slack(s) <= Slack(s)' /\ Slack(s)' \in Nat
<1> DEFINE m == Cardinality(AbandonedOn(s))
           n == Cardinality(AbandonedOn(s)')
<1>1. m \in Nat /\ n \in Nat /\ Others \in Nat /\ IsFiniteSet(AbandonedOn(s)')
  BY CountsFinite, CountsFiniteNext
<1>2. m <= n
  BY <1>1, FS_Subset
<1>3. Slack(s) = (Others + m) * LargestPool /\ Slack(s)' = (Others + n) * LargestPool
  BY DEF Slack, Others
<1> DEFINE a == Others
<1> HIDE DEF m, n, a
<1>4. (n - m) * LargestPool \in Nat
  <2>1. n - m \in Nat
    BY <1>1, <1>2 DEF a
  <2> QED BY <2>1
<1>5. (a + n) * LargestPool = (a + m) * LargestPool + (n - m) * LargestPool
  BY <1>1 DEF a
<1>6. (a + m) * LargestPool \in Nat
  BY <1>1 DEF a
<1> QED BY <1>3, <1>4, <1>5, <1>6 DEF a

LEMMA ConnectionsFall ==
  ASSUME TypeOK, TypeOK', Accounted, Accounted', NEW s \in Servers,
         InstancesOn(s)' \subseteq InstancesOn(s),
         \A p \in InstancesOn(s)' : poolTenant'[p] = poolTenant[p]
  PROVE  ConnectionsOn(s)' <= ConnectionsOn(s)
<1>1. \A p \in InstancesOn(s)' : InstanceSizes(s)'[p] = InstanceSizes(s)[p]
  BY DEF InstanceSizes
<1>2. \A p \in InstancesOn(s)' : InstanceSizes(s)'[p] <= InstanceSizes(s)[p]
  BY <1>1, CountsFinite DEF Sizes
<1> QED BY <1>2, CountsFinite, CountsFiniteNext, TotalMonotone

LEMMA OpeningsFall ==
  ASSUME TypeOK, TypeOK', Accounted, Accounted', NEW s \in Servers,
         OpeningOn(s)' \subseteq OpeningOn(s),
         \A r \in OpeningOn(s)' : tenant'[r] = tenant[r]
  PROVE  OpeningBudget(s)' <= OpeningBudget(s)
<1>1. \A r \in OpeningOn(s)' : OpeningSizes(s)'[r] = OpeningSizes(s)[r]
  BY DEF OpeningSizes
<1>2. \A r \in OpeningOn(s)' : OpeningSizes(s)'[r] <= OpeningSizes(s)[r]
  BY <1>1, CountsFinite DEF Sizes
<1> QED BY <1>2, CountsFinite, CountsFiniteNext, TotalMonotone

(* The bound on one server, in the terms the proof counts in.              *)
LEMMA BoundRestated ==
  /\ OvershootBounded <=>
       \A s \in Servers : ConnectionsOn(s) + OpeningBudget(s) <= Budget[s] + Slack(s)
  /\ (\A s \in Servers : ConnectionsOn(s)' + OpeningBudget(s)' <= Budget[s] + Slack(s)')
       => OvershootBounded'
BY DEF OvershootBounded, Slack, Others

(* A modest step counts no more connections than before.                   *)
LEMMA ModestBounded ==
  ASSUME TypeOK, TypeOK', Accounted, Accounted', Modest, OvershootBounded
  PROVE  OvershootBounded'
<1> SUFFICES ASSUME NEW s \in Servers
             PROVE  ConnectionsOn(s)' + OpeningBudget(s)' <= Budget[s] + Slack(s)'
  BY BoundRestated
<1>1. /\ InstancesOn(s)' \subseteq InstancesOn(s)
      /\ \A p \in InstancesOn(s)' : poolTenant'[p] = poolTenant[p]
  BY DEF InstancesOn, Modest
<1>2. OpeningOn(s)' \subseteq OpeningOn(s) /\ \A r \in OpeningOn(s)' : tenant'[r] = tenant[r]
  BY DEF OpeningOn, Modest
<1>3. AbandonedOn(s) \subseteq AbandonedOn(s)'
  BY DEF AbandonedOn, InstancesOn, Abandoned, Modest
<1>4. ConnectionsOn(s)' <= ConnectionsOn(s) /\ OpeningBudget(s)' <= OpeningBudget(s)
  BY <1>1, <1>2, ConnectionsFall, OpeningsFall
<1>5. Slack(s) <= Slack(s)' /\ Slack(s)' \in Nat
  BY <1>3, SlackKept
<1>6. ConnectionsOn(s) + OpeningBudget(s) <= Budget[s] + Slack(s)
  BY BoundRestated
<1> QED BY <1>4, <1>5, <1>6, CountsFinite, CountsFiniteNext

(* A pool that now exists was counted as being opened.                     *)
LEMMA ConnectBounded ==
  ASSUME IInv, TypeOK', Accounted, Accounted', OvershootBounded,
         NEW r \in Requests, NEW p \in Pools, Connect(r, p)
  PROVE  OvershootBounded'
<1> DEFINE t == tenant[r]
<1>1. /\ pc[r] = "opening" /\ t \in Tenants /\ poolState[p] = "gone"
      /\ pc' = [pc EXCEPT ![r] = "checking"]
      /\ handle' = [handle EXCEPT ![r] = p]
      /\ poolTenant' = [poolTenant EXCEPT ![p] = t]
      /\ poolState' = [poolState EXCEPT ![p] = "open"]
      /\ UNCHANGED <<tenant, open>>
  BY DEF Connect, Goto, Fresh, IInv, TypeOK
<1> SUFFICES ASSUME NEW s \in Servers
             PROVE  ConnectionsOn(s)' + OpeningBudget(s)' <= Budget[s] + Slack(s)'
  BY BoundRestated
<1>2. AbandonedOn(s) \subseteq AbandonedOn(s)'
  BY <1>1 DEF AbandonedOn, InstancesOn, Abandoned, IInv, TypeOK
<1>3. Slack(s) <= Slack(s)' /\ Slack(s)' \in Nat
  BY <1>2, SlackKept DEF IInv
<1>4. ConnectionsOn(s) + OpeningBudget(s) <= Budget[s] + Slack(s)
  BY BoundRestated
<1>5. OpeningOn(s)' = OpeningOn(s) \ {r} /\ OpeningOn(s)' \subseteq OpeningOn(s)
  BY <1>1 DEF OpeningOn, IInv, TypeOK
<1>6. CASE ServerOf[t] # s
  <2>1. /\ InstancesOn(s)' \subseteq InstancesOn(s)
        /\ \A q \in InstancesOn(s)' : poolTenant'[q] = poolTenant[q]
    BY <1>1, <1>6 DEF InstancesOn, IInv, TypeOK
  <2>2. ConnectionsOn(s)' <= ConnectionsOn(s) /\ OpeningBudget(s)' <= OpeningBudget(s)
    BY <1>1, <1>5, <2>1, ConnectionsFall, OpeningsFall DEF IInv
  <2> QED BY <1>3, <1>4, <2>2, CountsFinite, CountsFiniteNext DEF IInv
<1>7. CASE ServerOf[t] = s
  <2>1. r \in OpeningOn(s) /\ OpeningSizes(s)[r] = PoolMax[t]
    BY <1>1, <1>7 DEF OpeningOn, OpeningSizes
  <2>2. \A q \in OpeningOn(s) \ {r} : OpeningSizes(s)'[q] = OpeningSizes(s)[q]
    BY <1>1, <1>5 DEF OpeningSizes
  <2>3. OpeningBudget(s) = OpeningBudget(s)' + PoolMax[t]
    <3>1. OpeningSizes(s)' \in Sizes(OpeningOn(s) \ {r})
      BY <1>5, CountsFiniteNext
    <3> QED BY <2>1, <2>2, <3>1, CountsFinite, CountsFiniteNext, TotalApart DEF IInv
  <2>4. InstancesOn(s) = InstancesOn(s)' \ {p} /\ p \in InstancesOn(s)'
    BY <1>1, <1>7 DEF InstancesOn, IInv, TypeOK
  <2>5. InstanceSizes(s)'[p] = PoolMax[t]
    BY <1>1, <2>4 DEF InstanceSizes, IInv, TypeOK
  <2>6. \A q \in InstancesOn(s)' \ {p} : InstanceSizes(s)[q] = InstanceSizes(s)'[q]
    BY <1>1, <2>4 DEF InstanceSizes, InstancesOn, IInv, TypeOK
  <2>7. ConnectionsOn(s)' = ConnectionsOn(s) + PoolMax[t]
    <3>1. InstanceSizes(s) \in Sizes(InstancesOn(s)' \ {p})
      BY <2>4, CountsFinite DEF IInv
    <3> QED BY <2>4, <2>5, <2>6, <3>1, CountsFinite, CountsFiniteNext, TotalApart DEF IInv
  <2>8. PoolMax[t] \in Nat
    BY <1>1
  <2> DEFINE size == PoolMax[t]
  <2> HIDE DEF size
  <2> QED BY <1>3, <1>4, <2>3, <2>7, <2>8, CountsFinite, CountsFiniteNext DEF IInv, size
<1> QED BY <1>6, <1>7

(* The connections of two sets of owners cover those of their union.       *)
LEMMA TotalSplit ==
  ASSUME NEW S, NEW A, NEW B, IsFiniteSet(A), IsFiniteSet(B), S \subseteq A \cup B,
         NEW f \in Sizes(S), NEW g \in Sizes(A), NEW h \in Sizes(B),
         \A x \in S \cap A : f[x] = g[x], \A x \in S \cap B : f[x] = h[x]
  PROVE  Total(f) <= Total(g) + Total(h)
<1>1. ASSUME NEW c \in Counted(f) PROVE c \in Counted(g) \cup Counted(h)
  <2>1. PICK x \in S, n \in 1 .. LargestPool : c = <<x, n>> /\ n <= f[x]
    BY DEF Counted, Sizes
  <2>2. CASE x \in A
    BY <2>1, <2>2 DEF Counted, Sizes
  <2>3. CASE x \in B
    BY <2>1, <2>3 DEF Counted, Sizes
  <2> QED BY <2>1, <2>2, <2>3
<1>2. IsFiniteSet(S)
  <2>1. IsFiniteSet(A \cup B)
    BY FS_Union
  <2> QED BY <2>1, FS_Subset
<1>3. /\ IsFiniteSet(Counted(g)) /\ Total(g) = Cardinality(Counted(g)) /\ Total(g) \in Nat
      /\ IsFiniteSet(Counted(h)) /\ Total(h) = Cardinality(Counted(h)) /\ Total(h) \in Nat
      /\ Total(f) = Cardinality(Counted(f)) /\ Total(f) \in Nat
  BY <1>2, TotalFinite
<1>4. /\ IsFiniteSet(Counted(g) \cup Counted(h))
      /\ Cardinality(Counted(g) \cup Counted(h))
           = Total(g) + Total(h) - Cardinality(Counted(g) \cap Counted(h))
  BY <1>3, FS_Union
<1>5. Cardinality(Counted(g) \cap Counted(h)) \in Nat
  <2>1. IsFiniteSet(Counted(g) \cap Counted(h))
    BY <1>3, FS_Subset
  <2> QED BY <2>1, FS_CardinalityType
<1>6. Cardinality(Counted(f)) <= Cardinality(Counted(g) \cup Counted(h))
  <2>1. Counted(f) \in SUBSET (Counted(g) \cup Counted(h))
    BY <1>1
  <2> QED BY <1>4, <2>1, FS_Subset
<1> QED BY <1>3, <1>4, <1>5, <1>6

(* The instances the map lists, and those it does not.                     *)
Mapped(s) == {p \in InstancesOn(s) : \E t \in Tenants : open[t] = p}
Unmapped(s) == {p \in InstancesOn(s) : \A t \in Tenants : open[t] # p}

(* ensureBudget's sum covers the first: each is listed once, as its own    *)
(* company's.                                                              *)
LEMMA MappedWithin ==
  ASSUME IInv, Accounted, NEW s \in Servers
  PROVE  /\ UsedBudget(s) \in Nat
         /\ Total([p \in Mapped(s) |-> PoolMax[poolTenant[p]]]) <= UsedBudget(s)
<1> DEFINE f == [p \in Mapped(s) |-> PoolMax[poolTenant[p]]]
           g == [t \in OpenOn(s) |-> PoolMax[t]]
           into == [c \in Counted(f) |-> <<poolTenant[c[1]], c[2]>>]
<1>1. IsFiniteSet(OpenOn(s)) /\ IsFiniteSet(Mapped(s))
  <2>1. OpenOn(s) \in SUBSET Tenants /\ Mapped(s) \in SUBSET Pools
    BY DEF OpenOn, OpenTenants, Mapped, InstancesOn
  <2> QED BY <2>1, BoundsAssumption, FS_Subset
<1>2. \A p \in Mapped(s) : /\ poolTenant[p] \in OpenOn(s) /\ open[poolTenant[p]] = p
  <2> SUFFICES ASSUME NEW p \in Mapped(s)
               PROVE  poolTenant[p] \in OpenOn(s) /\ open[poolTenant[p]] = p
    OBVIOUS
  <2>1. PICK t \in Tenants : open[t] = p
    BY DEF Mapped
  <2>2. p \in Pools /\ p # None /\ ServerOf[poolTenant[p]] = s
    BY SentinelAssumption DEF Mapped, InstancesOn
  <2>3. poolTenant[p] = t
    BY <2>1, <2>2 DEF IInv, Safe, NoDyingPoolReachable
  <2> QED BY <2>1, <2>2, <2>3 DEF OpenOn, OpenTenants
<1>3. f \in Sizes(Mapped(s)) /\ g \in Sizes(OpenOn(s))
  <2>1. OpenOn(s) \subseteq Tenants
    BY DEF OpenOn, OpenTenants
  <2> QED BY <1>2, <2>1 DEF Sizes
<1>4. UsedBudget(s) = Total(g)
  BY DEF UsedBudget
<1>5. \A p \in Mapped(s) : f[p] = g[poolTenant[p]]
  BY <1>2
<1> HIDE DEF f, g
<1>6. into \in Injection(Counted(f), Counted(g))
  <2>1. ASSUME NEW c \in Counted(f)
        PROVE  into[c] \in Counted(g) /\ c = <<open[into[c][1]], into[c][2]>>
    <3>1. PICK p \in Mapped(s), n \in 1 .. LargestPool : c = <<p, n>> /\ n <= f[p]
      BY <1>3 DEF Counted, Sizes
    <3>2. into[c] = <<poolTenant[p], n>>
      BY <3>1
    <3> QED BY <1>2, <1>3, <1>5, <3>1, <3>2 DEF Counted, Sizes
  <2>2. into \in [Counted(f) -> Counted(g)]
    BY <2>1
  <2>3. \A c, d \in Counted(f) : into[c] = into[d] => c = d
    <3> HIDE DEF into
    <3> QED BY <2>1
  <2> HIDE DEF into
  <2> QED BY <2>2, <2>3 DEF Injection, IsInjective
<1> HIDE DEF into
<1>7. IsFiniteSet(Counted(g)) /\ Total(g) = Cardinality(Counted(g)) /\ Total(g) \in Nat
      /\ Total(f) = Cardinality(Counted(f))
  BY <1>1, <1>3, TotalFinite
<1>8. Cardinality(Counted(f)) <= Cardinality(Counted(g))
  BY <1>6, <1>7, FS_Injection
<1> QED BY <1>4, <1>7, <1>8 DEF f

(* The second each have an actor of their own to answer for them: the      *)
(* request that holds or awaits one, which is opening none meanwhile, or a *)
(* writer that awaits one. Only abandoned instances have nobody.           *)
LEMMA UnmappedAnswered ==
  ASSUME IInv, Accounted, NEW s \in Servers, NEW r \in Requests,
         handle[r] = None, Settled(awaiting[r])
  PROVE  /\ IsFiniteSet(Unmapped(s)) /\ Cardinality(Unmapped(s)) \in Nat
         /\ Cardinality(OpeningOn(s) \ {r}) \in Nat
         /\ Cardinality(Unmapped(s)) + Cardinality(OpeningOn(s) \ {r})
              <= Others + Cardinality(AbandonedOn(s))
<1> DEFINE B == OpeningOn(s) \ {r}
           A == (Requests \ {r}) \ B
           own == [q \in A |-> IF awaiting[q] # None THEN awaiting[q] ELSE handle[q]]
           ours == {own[q] : q \in A}
           due == [w \in Writers |-> op[w].pool]
           theirs == {due[w] : w \in Writers}
           rest == AbandonedOn(s)
<1>1. /\ IsFiniteSet(Requests \ {r}) /\ Cardinality(Requests \ {r}) = Cardinality(Requests) - 1
      /\ Cardinality(Requests) \in Nat
  BY FS_RemoveElement, FS_CardinalityType
<1>2. /\ A \in SUBSET (Requests \ {r}) /\ B \in SUBSET (Requests \ {r})
      /\ A \cup B = Requests \ {r} /\ A \cap B = {}
  BY DEF OpeningOn
<1>3. IsFiniteSet(A) /\ IsFiniteSet(B) /\ Cardinality(A) \in Nat /\ Cardinality(B) \in Nat
  BY <1>1, <1>2, FS_Subset, FS_CardinalityType
<1>4. Cardinality(A) + Cardinality(B) = Cardinality(Requests) - 1
  <2> HIDE DEF A, B
  <2>1. Cardinality(A \cup B) = Cardinality(A) + Cardinality(B) - Cardinality({})
    BY <1>2, <1>3, FS_Union
  <2>2. Cardinality({}) = 0
    BY FS_EmptySet
  <2>3. Cardinality(A \cup B) = Cardinality(Requests) - 1
    BY <1>1, <1>2
  <2> QED BY <1>3, <2>1, <2>2, <2>3
<1>5. /\ IsFiniteSet(ours) /\ Cardinality(ours) <= Cardinality(A) /\ Cardinality(ours) \in Nat
  <2>1. own \in Surjection(A, ours)
    BY DEF Surjection
  <2> HIDE DEF own, ours, A
  <2> QED BY <1>3, <2>1, FS_Surjection, FS_CardinalityType
<1>6. /\ IsFiniteSet(theirs) /\ Cardinality(theirs) <= Cardinality(Writers)
      /\ Cardinality(theirs) \in Nat /\ Cardinality(Writers) \in Nat
  <2>1. due \in Surjection(Writers, theirs)
    BY DEF Surjection
  <2> HIDE DEF due, theirs
  <2> QED BY <2>1, BoundsAssumption, FS_Surjection, FS_CardinalityType
<1>7. Unmapped(s) \subseteq (ours \cup theirs) \cup rest
  <2> SUFFICES ASSUME NEW p \in Unmapped(s), p \notin rest PROVE p \in ours \cup theirs
    OBVIOUS
  <2>1. p \in Pools /\ p \in InstancesOn(s) /\ p # None /\ \A t \in Tenants : open[t] # p
    BY SentinelAssumption DEF Unmapped, InstancesOn
  <2>2. poolState[p] \in {"open", "destroying"}
    BY <2>1 DEF InstancesOn, IInv, TypeOK
  <2>3. ASSUME NEW q \in Requests, handle[q] = p PROVE p \in ours
    <3>1. pc[q] \in {"checking", "serving"}
      BY <2>1, <2>3 DEF IInv, Safe, Holders
    <3>2. q \in A /\ awaiting[q] = None
      BY <2>1, <2>3, <3>1 DEF Accounted, OpeningOn
    <3>3. own[q] = p
      BY <2>3, <3>2
    <3> QED BY <3>2, <3>3
  <2>4. ASSUME NEW q \in Requests, awaiting[q] = p, poolState[p] = "destroying"
        PROVE  p \in ours
    <3>1. pc[q] \in {"sweeping", "makingRoom"} /\ q # r
      BY <2>1, <2>4 DEF Accounted, Settled
    <3>2. q \in A
      BY <3>1 DEF OpeningOn
    <3>3. own[q] = p
      BY <2>1, <2>4, <3>2
    <3> QED BY <3>2, <3>3
  <2>5. ASSUME NEW w \in Writers, op[w].pool = p PROVE p \in theirs
    BY <2>5
  <2>6. CASE poolState[p] = "open"
    <3>1. \E q \in Requests : handle[q] = p
      BY <2>1, <2>6 DEF AbandonedOn, Abandoned
    <3> QED BY <2>3, <3>1
  <2>7. CASE poolState[p] = "destroying"
    <3>1. (\E q \in Requests : awaiting[q] = p) \/ (\E w \in Writers : op[w].pool = p)
      BY <2>1, <2>7 DEF Accounted
    <3> QED BY <2>4, <2>5, <2>7, <3>1
  <2> QED BY <2>2, <2>6, <2>7
<1>8. IsFiniteSet(rest) /\ Cardinality(rest) \in Nat
  BY CountsFinite DEF IInv
<1> HIDE DEF ours, theirs, rest, A, B
<1>9. /\ IsFiniteSet(ours \cup theirs) /\ Cardinality(ours \cup theirs) \in Nat
      /\ Cardinality(ours \cup theirs) <= Cardinality(ours) + Cardinality(theirs)
  <2>1. IsFiniteSet(ours \cap theirs)
    BY <1>5, FS_Subset
  <2>2. Cardinality(ours \cap theirs) \in Nat
    BY <2>1, FS_CardinalityType
  <2>3. /\ IsFiniteSet(ours \cup theirs)
        /\ Cardinality(ours \cup theirs)
             = Cardinality(ours) + Cardinality(theirs) - Cardinality(ours \cap theirs)
    BY <1>5, <1>6, FS_Union
  <2>4. Cardinality(ours \cup theirs) \in Nat
    BY <2>3, FS_CardinalityType
  <2> QED BY <1>5, <1>6, <2>2, <2>3, <2>4
<1>10. /\ IsFiniteSet((ours \cup theirs) \cup rest)
       /\ Cardinality((ours \cup theirs) \cup rest)
            <= Cardinality(ours) + Cardinality(theirs) + Cardinality(rest)
  <2>1. IsFiniteSet((ours \cup theirs) \cap rest)
    BY <1>8, FS_Subset
  <2>2. Cardinality((ours \cup theirs) \cap rest) \in Nat
    BY <2>1, FS_CardinalityType
  <2>3. /\ IsFiniteSet((ours \cup theirs) \cup rest)
        /\ Cardinality((ours \cup theirs) \cup rest)
             = Cardinality(ours \cup theirs) + Cardinality(rest)
                 - Cardinality((ours \cup theirs) \cap rest)
    BY <1>8, <1>9, FS_Union
  <2> QED BY <1>5, <1>6, <1>8, <1>9, <2>2, <2>3
<1>11. /\ IsFiniteSet(Unmapped(s)) /\ Cardinality(Unmapped(s)) \in Nat
       /\ Cardinality(Unmapped(s)) <= Cardinality((ours \cup theirs) \cup rest)
  BY <1>7, <1>10, FS_Subset, FS_CardinalityType
<1>12. Cardinality((ours \cup theirs) \cup rest) \in Nat
  BY <1>10, FS_CardinalityType
<1>13. Cardinality(Unmapped(s)) + Cardinality(B) <= Others + Cardinality(rest)
  BY <1>1, <1>3, <1>4, <1>5, <1>6, <1>8, <1>10, <1>11, <1>12 DEF Others
<1> QED BY <1>3, <1>11, <1>13 DEF B, rest

(* The step the bound is about. What the map lists and the new pool fit;   *)
(* every other instance or opening has another actor, or is abandoned.     *)
LEMMA GrantBounded ==
  ASSUME IInv, TypeOK', Accounted, Accounted', OvershootBounded,
         NEW r \in Requests, Grants(r)
  PROVE  OvershootBounded'
<1> DEFINE t == tenant[r]
<1>1. /\ t \in Tenants /\ Fits(t) /\ handle[r] = None /\ Settled(awaiting[r])
      /\ UNCHANGED <<open, poolState, poolTenant, tenant, handle>>
      /\ \A q \in Requests \ {r} : pc'[q] = pc[q]
  BY DEF Grants
<1> SUFFICES ASSUME NEW s \in Servers
             PROVE  ConnectionsOn(s)' + OpeningBudget(s)' <= Budget[s] + Slack(s)'
  BY BoundRestated
<1>2. /\ InstancesOn(s)' = InstancesOn(s) /\ AbandonedOn(s)' = AbandonedOn(s)
      /\ ConnectionsOn(s)' = ConnectionsOn(s) /\ Slack(s)' = Slack(s)
  BY <1>1 DEF InstancesOn, AbandonedOn, Abandoned, ConnectionsOn, Slack, Others
<1>3. CASE r \notin OpeningOn(s)'
  <2>1. OpeningOn(s)' \subseteq OpeningOn(s) /\ \A q \in OpeningOn(s)' : tenant'[q] = tenant[q]
    BY <1>1, <1>3 DEF OpeningOn
  <2>2. OpeningBudget(s)' <= OpeningBudget(s)
    BY <2>1, OpeningsFall DEF IInv
  <2>3. ConnectionsOn(s) + OpeningBudget(s) <= Budget[s] + Slack(s)
    BY BoundRestated
  <2> QED BY <1>2, <2>2, <2>3, CountsFinite, CountsFiniteNext DEF IInv
<1>4. CASE r \in OpeningOn(s)'
  <2>1. ServerOf[t] = s
    BY <1>1, <1>4 DEF OpeningOn
  <2>2. UsedBudget(s) + PoolMax[t] <= Budget[s] /\ PoolMax[t] \in Nat /\ Budget[s] \in Nat
    BY <1>1, <2>1 DEF Fits
  <2> DEFINE U == Unmapped(s)
             O == OpeningOn(s) \ {r}
             mapped == [p \in Mapped(s) |-> PoolMax[poolTenant[p]]]
             unmapped == [p \in U |-> PoolMax[poolTenant[p]]]
             opening == [q \in O |-> OpeningSizes(s)'[q]]
  <2>3. /\ IsFiniteSet(U) /\ Cardinality(U) \in Nat /\ Cardinality(O) \in Nat
        /\ Cardinality(U) + Cardinality(O) <= Others + Cardinality(AbandonedOn(s))
    BY <1>1, UnmappedAnswered
  <2>4. OpeningOn(s)' \ {r} = O
    BY <1>1 DEF OpeningOn
  <2>5. OpeningBudget(s)' = Total(opening) + PoolMax[t]
    <3>1. opening \in Sizes(OpeningOn(s)' \ {r})
      BY <2>4, CountsFiniteNext DEF Sizes
    <3>2. OpeningSizes(s)'[r] = PoolMax[t]
      BY <1>1, <1>4 DEF OpeningSizes
    <3>3. \A q \in OpeningOn(s)' \ {r} : opening[q] = OpeningSizes(s)'[q]
      BY <2>4
    <3> HIDE DEF opening
    <3>4. Total(OpeningSizes(s)') = Total(opening) + OpeningSizes(s)'[r]
      BY <1>4, <3>1, <3>3, CountsFiniteNext, TotalApart
    <3> QED BY <3>2, <3>4, CountsFiniteNext
  <2>6. Total(opening) <= Cardinality(O) * LargestPool /\ Total(opening) \in Nat
    <3>1. opening \in Sizes(O) /\ IsFiniteSet(O)
      <4>1. IsFiniteSet(OpeningOn(s)' \ {r}) /\ \A q \in O : q \in OpeningOn(s)'
        BY <2>4, CountsFiniteNext, FS_RemoveElement
      <4> QED BY <2>4, <4>1, CountsFiniteNext DEF Sizes
    <3> HIDE DEF opening, O
    <3> QED BY <3>1, TotalFinite
  <2>7. ConnectionsOn(s) <= Total(mapped) + Total(unmapped)
    <3>1. /\ InstancesOn(s) \subseteq Mapped(s) \cup U
          /\ Mapped(s) \subseteq InstancesOn(s) /\ U \subseteq InstancesOn(s)
      BY DEF Mapped, Unmapped
    <3>2. \A p \in InstancesOn(s) : PoolMax[poolTenant[p]] \in 0 .. LargestPool
      BY DEF InstancesOn, Accounted
    <3>3. mapped \in Sizes(Mapped(s)) /\ unmapped \in Sizes(U)
      BY <3>1, <3>2 DEF Sizes
    <3>4. /\ \A p \in InstancesOn(s) \cap Mapped(s) : InstanceSizes(s)[p] = mapped[p]
          /\ \A p \in InstancesOn(s) \cap U : InstanceSizes(s)[p] = unmapped[p]
      BY DEF InstanceSizes
    <3>5. /\ InstanceSizes(s) \in Sizes(InstancesOn(s)) /\ IsFiniteSet(InstancesOn(s))
          /\ ConnectionsOn(s) = Total(InstanceSizes(s))
      BY CountsFinite DEF IInv
    <3>6. IsFiniteSet(Mapped(s))
      BY <3>1, <3>5, FS_Subset
    <3> HIDE DEF mapped, unmapped, U
    <3> QED BY <2>3, <3>1, <3>3, <3>4, <3>5, <3>6, TotalSplit
  <2>8. Total(unmapped) <= Cardinality(U) * LargestPool /\ Total(unmapped) \in Nat
    <3>1. unmapped \in Sizes(U)
      BY DEF Unmapped, InstancesOn, Accounted, Sizes
    <3> HIDE DEF unmapped, U
    <3> QED BY <2>3, <3>1, TotalFinite
  <2>9. Total(mapped) <= UsedBudget(s) /\ UsedBudget(s) \in Nat
    BY MappedWithin
  <2>10. Total(mapped) \in Nat
    <3>1. IsFiniteSet(Mapped(s)) /\ mapped \in Sizes(Mapped(s))
      <4>1. Mapped(s) \subseteq InstancesOn(s)
        BY DEF Mapped
      <4>2. IsFiniteSet(Mapped(s))
        BY <4>1, CountsFinite, FS_Subset DEF IInv
      <4> QED BY <4>1, <4>2 DEF InstancesOn, Accounted, Sizes
    <3> HIDE DEF mapped
    <3> QED BY <3>1, TotalFinite
  <2> DEFINE u == Cardinality(U)
             o == Cardinality(O)
             n == Others + Cardinality(AbandonedOn(s))
             size == PoolMax[t]
             a == Total(mapped)
             b == Total(unmapped)
             c == Total(opening)
  <2>11. Slack(s) = n * LargestPool /\ n \in Nat
    BY CountsFinite DEF Slack, IInv
  <2>12. u \in Nat /\ o \in Nat /\ u + o <= n
    BY <2>3
  <2>13. /\ a \in Nat /\ b \in Nat /\ c \in Nat /\ size \in Nat
         /\ b <= u * LargestPool /\ c <= o * LargestPool /\ a <= UsedBudget(s)
         /\ UsedBudget(s) + size <= Budget[s] /\ UsedBudget(s) \in Nat /\ Budget[s] \in Nat
         /\ ConnectionsOn(s)' <= a + b /\ OpeningBudget(s)' = c + size
    BY <1>2, <2>2, <2>5, <2>6, <2>7, <2>8, <2>9, <2>10
  <2>14. ConnectionsOn(s)' \in Nat /\ Slack(s)' = n * LargestPool
    BY <1>2, <2>11, CountsFiniteNext
  <2> HIDE DEF u, o, n, size, a, b, c
  <2>15. u * LargestPool + o * LargestPool <= n * LargestPool
    <3>1. n - (u + o) \in Nat
      BY <2>11, <2>12
    <3>2. (n - (u + o)) * LargestPool \in Nat
      BY <3>1
    <3>3. n * LargestPool
            = u * LargestPool + o * LargestPool + (n - (u + o)) * LargestPool
      BY <2>11, <2>12
    <3>4. u * LargestPool \in Nat /\ o * LargestPool \in Nat /\ n * LargestPool \in Nat
      BY <2>11, <2>12
    <3> QED BY <3>2, <3>3, <3>4
  <2>16. u * LargestPool \in Nat /\ o * LargestPool \in Nat /\ n * LargestPool \in Nat
    BY <2>11, <2>12
  <2> QED BY <2>13, <2>14, <2>15, <2>16
<1> QED BY <1>3, <1>4

LEMMA InitBounded == Init => OvershootBounded
<1> SUFFICES ASSUME Init, NEW s \in Servers
             PROVE  ConnectionsOn(s) + OpeningBudget(s) <= Budget[s] + Slack(s)
  BY BoundRestated
<1>1. InstancesOn(s) = {} /\ OpeningOn(s) = {}
  BY DEF Init, InstancesOn, OpeningOn
<1>2. ConnectionsOn(s) = Cardinality({}) /\ OpeningBudget(s) = Cardinality({})
  BY <1>1 DEF ConnectionsOn, OpeningBudget, Total
<1>3. Cardinality({}) = 0
  BY FS_EmptySet
<1>4. Accounted
  BY SentinelAssumption DEF Init, Accounted, Idle
<1>5. Slack(s) \in Nat /\ Budget[s] \in Nat
  BY <1>4, InitTypes, CountsFinite
<1> QED BY <1>2, <1>3, <1>5

(* For any number of concurrent acquires and registry writers, any pool    *)
(* sizes and any budgets: all the instances that exist on a server, listed *)
(* or not, and those being opened there never take more than its budget    *)
(* and the largest pool for each request but one, each writer and each     *)
(* abandoned instance, although ensureBudget counts only what the map lists*)
(* and counts before the await that opens the next.                        *)
THEOREM Overshoot == Spec => []OvershootBounded
<1>1. /\ IInv /\ IInv' /\ Accounted /\ OvershootBounded /\ [Next]_vars
      => OvershootBounded'
  BY NextAccounted, ModestBounded, ConnectBounded, GrantBounded DEF IInv
<1> QED BY <1>1, AccountedInvariance, InitBounded, PTL DEF Spec
=============================================================================
