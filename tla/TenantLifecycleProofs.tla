------------------------ MODULE TenantLifecycleProofs ------------------------
(***************************************************************************)
(* Theorems about TenantLifecycle, for any rows, servers, requests and     *)
(* scripts.                                                                *)
(***************************************************************************)
EXTENDS TenantLifecycle, TLAPS

USE LifecycleAssumption DEF calls

(* What a job may write into the registry is a status.                     *)
LEMMA TransitionType ==
  ASSUME TypeOK, NEW j, NEW r, NEW from, NEW to \in Statuses,
         Transition(j, r, from, to)
  PROVE  status' \in [Rows -> Statuses]
  BY DEF TypeOK, Transition

LEMMA TransitionInRequestType ==
  ASSUME TypeOK, NEW j, NEW r \in Rows \cup {None}, NEW from, NEW to \in Statuses,
         TransitionInRequest(j, r, from, to)
  PROVE  pending' \in [Jobs -> [row : Rows \cup {None},
                                to : Statuses \cup {"purged"}]]
  BY DEF TypeOK, TransitionInRequest

LEMMA DoneType ==
  ASSUME TypeOK, NEW j, Done(j)
  PROVE  /\ at' \in [Jobs -> Steps] /\ src' \in [Jobs -> Rows \cup {None}]
         /\ tgt' \in [Jobs -> Rows \cup {None}] /\ saw' \in [Jobs -> Statuses]
  BY DEF TypeOK, Done, Go, Steps, Statuses

LEMMA BooleanUpdate ==
  ASSUME NEW S, NEW f \in [S -> BOOLEAN], NEW s, NEW b \in BOOLEAN
  PROVE  [f EXCEPT ![s] = b] \in [S -> BOOLEAN]
  OBVIOUS

LEMMA FaultType ==
  ASSUME TypeOK, Fault
  PROVE  faults' \in 0 .. MaxFaults
  BY DEF TypeOK, Fault

LEMMA GoType ==
  ASSUME TypeOK, NEW j, NEW step \in Steps, Go(j, step)
  PROVE  at' \in [Jobs -> Steps]
  BY DEF TypeOK, Go

(* Every variable stays within its type: the registry holds statuses, the  *)
(* servers roles of rows, the jobs steps of the code.                      *)
LEMMA RequestTypes ==
  ASSUME TypeOK, NEW j \in Requests,
         \/ RequestBegins(j) \/ Provisioning(j) \/ Deleting(j)
         \/ Answer(j) \/ RollBack(j) \/ RequestFails(j)
  PROVE  TypeOK'
<1>0. j \in Jobs BY DEF Jobs
<1>1. CASE BeginProvisioning(j)
  BY <1>0, <1>1 DEF BeginProvisioning, TypeOK, Go, Steps, registry, server, BuildingRows
<1>2. ASSUME NEW verb, Switch(j, verb) PROVE TypeOK'
  <2>1. PICK r \in LiveRows, from, to \in {"active", "suspended"} :
          TransitionInRequest(j, r, from, to)
    BY <1>2 DEF Switch
  <2>2. pending' \in [Jobs -> [row : Rows \cup {None},
                               to : Statuses \cup {"purged"}]]
    BY <2>1, TransitionInRequestType DEF LiveRows, Statuses, Live
  <2>. QED BY <1>2, <2>2 DEF Switch, TypeOK, registry, server, job
<1>3. CASE BeginDelete(j)
  <2>1. at' \in [Jobs -> Steps]
    BY <1>3 DEF BeginDelete, Go, TypeOK, Steps
  <2>2. src' \in [Jobs -> Rows \cup {None}] /\ saw' \in [Jobs -> Statuses]
    <3>1. CASE LiveRows = {} BY <1>3, <3>1 DEF BeginDelete, TypeOK
    <3>2. CASE LiveRows # {}
      <4>1. PICK r \in LiveRows : /\ src' = [src EXCEPT ![j] = r]
                                  /\ saw' = [saw EXCEPT ![j] = status[r]]
        BY <1>3, <3>2 DEF BeginDelete
      <4>2. r \in Rows /\ status[r] \in Statuses BY DEF LiveRows, TypeOK
      <4>. QED BY <4>1, <4>2 DEF TypeOK
    <3>. QED BY <3>1, <3>2
  <2>. QED BY <1>3, <2>1, <2>2 DEF BeginDelete, TypeOK, registry, server
<1>4. CASE ResumeBuilding(j)
  <2>1. pending' \in [Jobs -> [row : Rows \cup {None},
                               to : Statuses \cup {"purged"}]]
    BY <1>0, <1>4, TransitionInRequestType
    DEF ResumeBuilding, TypeOK, Statuses, Building
  <2>2. /\ at' \in [Jobs -> Steps] /\ src' \in [Jobs -> Rows \cup {None}]
        /\ tgt' \in [Jobs -> Rows \cup {None}] /\ saw' \in [Jobs -> Statuses]
    <3>1. CASE Done(j) BY <3>1, DoneType
    <3>2. CASE Go(j, "role") /\ UNCHANGED <<src, tgt, saw>>
      BY <3>2, GoType DEF TypeOK, Steps
    <3>. QED BY <1>4, <3>1, <3>2 DEF ResumeBuilding
  <2>. QED BY <1>4, <2>1, <2>2 DEF ResumeBuilding, TypeOK, registry, server
<1>5. ASSUME NEW s \in Servers, CreateRow(j, s) PROVE TypeOK'
  <2>1. CASE ~MayInsert(s)
    BY <1>5, <2>1, DoneType DEF CreateRow, TypeOK, server
  <2>2. CASE MayInsert(s)
    <3>1. PICK r \in Rows :
            /\ place' = [place EXCEPT ![r] = s]
            /\ pending' = [pending EXCEPT ![j] =
                   [row |-> r, to |-> IF Collides(s) THEN "failed"
                                                     ELSE "provisioning"]]
            /\ IF Collides(s)
                 THEN Done(j)
                 ELSE /\ tgt' = [tgt EXCEPT ![j] = r]
                      /\ Go(j, "role")
                      /\ UNCHANGED <<src, saw>>
      BY <1>5, <2>2 DEF CreateRow
    <3>2. /\ at' \in [Jobs -> Steps] /\ src' \in [Jobs -> Rows \cup {None}]
          /\ tgt' \in [Jobs -> Rows \cup {None}] /\ saw' \in [Jobs -> Statuses]
      <4>1. CASE Done(j)
        BY <4>1, DoneType
      <4>2. CASE Go(j, "role")
        <5>1. at' \in [Jobs -> Steps]
          BY <4>2, GoType DEF Steps
        <5>2. Done(j) \/ (tgt' = [tgt EXCEPT ![j] = r] /\ UNCHANGED <<src, saw>>)
          BY <3>1
        <5>. QED BY <4>1, <5>1, <5>2 DEF TypeOK
      <4>. QED BY <3>1, <4>1, <4>2
    <3>3. place' \in [Rows -> Places \cup {None}]
      <4>1. s \in Places \cup {None} /\ place \in [Rows -> Places \cup {None}]
        BY DEF TypeOK, Places
      <4>. QED BY <3>1, <4>1
    <3>4. pending' \in [Jobs -> [row : Rows \cup {None},
                                 to : Statuses \cup {"purged"}]]
      BY <3>1 DEF TypeOK, Statuses, Building
    <3>. QED BY <1>5, <3>2, <3>3, <3>4 DEF CreateRow, TypeOK, server
  <2>. QED BY <2>1, <2>2
<1>6. CASE Activate(j)
  <2>1. status' \in [Rows -> Statuses]
    BY <1>6, TransitionType DEF Activate, TypeOK, Statuses, Live
  <2>2. /\ at' \in [Jobs -> Steps] /\ src' \in [Jobs -> Rows \cup {None}]
        /\ tgt' \in [Jobs -> Rows \cup {None}] /\ saw' \in [Jobs -> Statuses]
    BY <1>6, DoneType, GoType DEF Activate, TypeOK, Steps
  <2>. QED BY <1>6, <2>1, <2>2 DEF Activate, TypeOK, server
<1>7. CASE Retire(j)
  <2>1. pending' \in [Jobs -> [row : Rows \cup {None},
                               to : Statuses \cup {"purged"}]]
    BY <1>0, <1>7, TransitionInRequestType DEF Retire, TypeOK, Statuses, Live
  <2>. QED BY <1>7, <2>1 DEF Retire, TypeOK, Go, Steps, registry, server
<1>8. CASE Park(j)
  <2>1. parked' \in [Servers -> BOOLEAN]
    BY <1>8, BooleanUpdate DEF Park, TypeOK
  <2>2. database' \in [Servers -> {"none", "made", "ready"}]
    BY <1>8 DEF Park, TypeOK
  <2>. QED BY <1>8, <2>1, <2>2, GoType DEF Park, TypeOK, Steps, registry
<1>9. CASE Revoke(j)
  <2>1. login' \in [Servers -> BOOLEAN]
    BY <1>9, BooleanUpdate DEF Revoke, TypeOK
  <2>. QED BY <1>9, <2>1, GoType DEF Revoke, TypeOK, Steps, registry
<1>10. CASE Purge(j)
  <2>1. src[j] \in Rows \cup {None} BY <1>0 DEF TypeOK
  <2>2. pending' \in [Jobs -> [row : Rows \cup {None},
                               to : Statuses \cup {"purged"}]]
    BY <1>10, <2>1 DEF Purge, TypeOK, NoChange, Statuses
  <2>. QED BY <1>10, <2>2, DoneType DEF Purge, TypeOK, registry, server
<1>11. CASE Answer(j)
  <2>1. status' \in [Rows -> Statuses]
    <3>. SUFFICES ASSUME NEW r \in Rows PROVE status'[r] \in Statuses
      BY <1>11 DEF Answer
    <3>1. pending[j].to \in Statuses \cup {"purged"} BY <1>0 DEF TypeOK
    <3>. QED BY <1>11, <3>1 DEF Answer, Purged, TypeOK, Statuses
  <2>. QED BY <1>11, <2>1 DEF Answer, TypeOK, NoChange, Statuses, server, job
<1>12. CASE RollBack(j)
  <2>1. pending' \in [Jobs -> [row : Rows \cup {None},
                               to : Statuses \cup {"purged"}]]
    BY <1>12 DEF RollBack, TypeOK, NoChange, Statuses
  <2>. QED BY <1>12, <2>1, FaultType
           DEF RollBack, TypeOK, registry, server, job
<1>13. CASE RequestFails(j)
  <2>1. pending' \in [Jobs -> [row : Rows \cup {None},
                               to : Statuses \cup {"purged"}]]
    BY <1>13 DEF RequestFails, TypeOK, NoChange, Statuses
  <2>. QED BY <1>13, <2>1, DoneType, FaultType
           DEF RequestFails, TypeOK, registry, server
<1>. QED
  BY <1>1, <1>2, <1>3, <1>4, <1>5, <1>6, <1>7, <1>8, <1>9, <1>10, <1>11,
     <1>12, <1>13 DEF RequestBegins, Provisioning, Deleting

LEMMA ScriptTypes ==
  ASSUME TypeOK, NEW j \in Scripts, Moving(j)
  PROVE  TypeOK'
<1>0. j \in Jobs BY DEF Jobs
<1>1. CASE BeginMove(j)
  BY <1>0, <1>1 DEF BeginMove, TypeOK, Go, Steps, registry, server, LiveRows
<1>2. CASE Suspend(j)
  <2>1. status' \in [Rows -> Statuses]
    BY <1>2, TransitionType DEF Suspend, Statuses, Live
  <2>. QED BY <1>2, <2>1, DoneType, GoType DEF Suspend, TypeOK, Steps, server
<1>3. ASSUME NEW s \in Servers, TakeTarget(j, s) PROVE TypeOK'
  <2>1. PICK b \in BuildingRows :
          IF place[b] # s
            THEN Done(j) /\ UNCHANGED status
            ELSE /\ IF status[b] = "failed"
                      THEN Transition(j, b, "failed", "provisioning")
                      ELSE UNCHANGED status
                 /\ tgt' = [tgt EXCEPT ![j] = b]
                 /\ Go(j, "role")
                 /\ UNCHANGED <<src, saw>>
    BY <1>3 DEF TakeTarget
  <2>2. status' \in [Rows -> Statuses]
    BY <2>1, TransitionType DEF TypeOK, Statuses, Building
  <2>3. /\ at' \in [Jobs -> Steps] /\ src' \in [Jobs -> Rows \cup {None}]
        /\ tgt' \in [Jobs -> Rows \cup {None}] /\ saw' \in [Jobs -> Statuses]
    BY <2>1, DoneType, GoType DEF TypeOK, Steps, BuildingRows
  <2>. QED BY <1>3, <2>2, <2>3 DEF TakeTarget, TypeOK, server
<1>4. ASSUME NEW s \in Servers, CreateTarget(j, s) PROVE TypeOK'
  <2>1. CASE Collides(s)
    BY <1>4, <2>1, GoType DEF CreateTarget, TypeOK, Steps, server
  <2>2. CASE ~Collides(s) /\ ~MayInsert(s)
    BY <1>4, <2>2, DoneType DEF CreateTarget, TypeOK, server
  <2>3. CASE ~Collides(s) /\ MayInsert(s)
    <3>1. PICK r \in Rows : /\ place' = [place EXCEPT ![r] = s]
                            /\ status' = [status EXCEPT ![r] = "provisioning"]
                            /\ tgt' = [tgt EXCEPT ![j] = r]
                            /\ Go(j, "role")
                            /\ UNCHANGED <<src, saw>>
      BY <1>4, <2>3 DEF CreateTarget
    <3>2. /\ place' \in [Rows -> Places \cup {None}]
          /\ status' \in [Rows -> Statuses]
          /\ tgt' \in [Jobs -> Rows \cup {None}]
      BY <3>1 DEF TypeOK, Places, Statuses, Building
    <3>. QED BY <1>4, <3>1, <3>2, GoType
             DEF CreateTarget, TypeOK, Steps, server
  <2>. QED BY <2>1, <2>2, <2>3
<1>5. CASE Restore(j)
  <2>1. status' \in [Rows -> Statuses]
    BY <1>5, TransitionType DEF Restore, Statuses, Live
  <2>. QED BY <1>5, <2>1, DoneType DEF Restore, TypeOK, server
<1>6. CASE Wipe(j)
  BY <1>6, GoType DEF Wipe, TypeOK, Steps, registry, server
<1>7. CASE Copy(j)
  <2>1. data' \in [Places -> SUBSET Writes]
    <3>. SUFFICES ASSUME NEW p \in Places, p = place[tgt[j]]
                  PROVE  data[p] \cup data[place[src[j]]] \in SUBSET Writes
      BY <1>7 DEF Copy, TypeOK
    <3>1. place[src[j]] \in Places
      BY <1>0, <1>7 DEF Copy, Connects, Places
    <3>. QED BY <3>1 DEF TypeOK
  <2>. QED BY <1>7, <2>1, GoType DEF Copy, TypeOK, Steps, registry, server
<1>8. CASE Verify(j)
  <2>1. at' \in [Jobs -> Steps] BY <1>8 DEF Verify, Go, TypeOK, Steps
  <2>. QED BY <1>8, <2>1 DEF Verify, TypeOK, registry, server
<1>9. CASE Flip(j)
  <2>1. status' \in [Rows -> Statuses]
    BY <1>9 DEF Flip, TypeOK, Statuses, Live
  <2>. QED BY <1>9, <2>1, DoneType DEF Flip, TypeOK, server
<1>10. CASE Die(j)
  BY <1>10, DoneType DEF Die, Fault, TypeOK, registry, server
<1>. QED
  BY <1>1, <1>2, <1>3, <1>4, <1>5, <1>6, <1>7, <1>8, <1>9, <1>10 DEF Moving

LEMMA OtherTypes ==
  ASSUME TypeOK,
         \/ \E j \in Jobs : RunStep(j)
         \/ Restart
         \/ \E r \in Rows, w \in Writes : Route(r, w) \/ Serve(r, w)
  PROVE  TypeOK'
<1>1. ASSUME NEW j \in Jobs, RunStep(j) PROVE TypeOK'
  <2>1. CASE EnsureRole(j)
    <3>1. role' \in [Servers -> Rows \cup {None}]
      BY <2>1 DEF EnsureRole, TypeOK
    <3>2. login' \in [Servers -> BOOLEAN]
      BY <2>1, BooleanUpdate DEF EnsureRole, TypeOK
    <3>. QED BY <2>1, <3>1, <3>2, GoType DEF EnsureRole, TypeOK, Steps, registry
  <2>2. CASE EnsureDatabase(j)
    <3>1. \/ UNCHANGED <<database, data>>
          \/ \E s : /\ database' = [database EXCEPT ![s] = "made"]
                    /\ data' = [data EXCEPT ![s] = {}]
      BY <2>2 DEF EnsureDatabase
    <3>2. at' \in [Jobs -> Steps]
      BY <2>2, GoType DEF EnsureDatabase, Steps
    <3>3. database' \in [Servers -> {"none", "made", "ready"}]
      BY <3>1 DEF TypeOK
    <3>4. data' \in [Places -> SUBSET Writes]
      BY <3>1 DEF TypeOK
    <3>5. UNCHANGED <<registry, pending, role, login, parked, calls, src, tgt, saw, faults>>
      BY <2>2 DEF EnsureDatabase
    <3>. QED BY <3>2, <3>3, <3>4, <3>5 DEF TypeOK, registry
  <2>3. CASE Migrate(j)
    <3>1. database' \in [Servers -> {"none", "made", "ready"}]
      BY <2>3 DEF Migrate, TypeOK
    <3>2. at' \in [Jobs -> Steps]
      BY <2>3, GoType DEF Migrate, Steps
    <3>. QED BY <2>3, <3>1, <3>2 DEF Migrate, TypeOK, registry
  <2>4. CASE StepFails(j)
    BY <2>4, GoType DEF StepFails, Fault, TypeOK, Steps, registry, server
  <2>5. CASE MarkFailed(j)
    <3>1. status' \in [Rows -> Statuses]
      BY <2>5, TransitionType DEF MarkFailed, Statuses, Building
    <3>. QED BY <2>5, <3>1, DoneType, GoType
             DEF MarkFailed, TypeOK, Steps, server
  <2>. QED BY <1>1, <2>1, <2>2, <2>3, <2>4, <2>5 DEF RunStep
<1>2. CASE Restart
  BY <1>2 DEF Restart, Fault, TypeOK, NoChange, Statuses, Steps, registry, server
<1>3. ASSUME NEW r \in Rows, NEW w \in Writes, Route(r, w) \/ Serve(r, w) PROVE TypeOK'
  <2>1. CASE Route(r, w)
    BY <2>1 DEF Route, TypeOK, registry, server, job
  <2>2. CASE Serve(r, w)
    <3>1. data' \in [Places -> SUBSET Writes]
      <4>1. data' = [data EXCEPT ![place[r]] = data[place[r]] \cup {w}]
        BY <2>2 DEF Serve
      <4>2. CASE place[r] \in Places
        <5>1. data \in [Places -> SUBSET Writes] /\ data[place[r]] \cup {w} \in SUBSET Writes
          BY <4>2 DEF TypeOK
        <5>. QED BY <4>1, <4>2, <5>1
      <4>3. CASE place[r] \notin Places
        <5>1. data \in [Places -> SUBSET Writes]
          BY DEF TypeOK
        <5>. QED BY <4>1, <4>3, <5>1
      <4>. QED BY <4>2, <4>3
    <3>2. via' \in [Writes -> Rows \cup {None}]
      BY <2>2 DEF Serve, TypeOK
    <3>3. acked' \in SUBSET Writes /\ late' \in SUBSET acked'
      BY <2>2 DEF Serve, TypeOK
    <3>. QED BY <2>2, <3>1, <3>2, <3>3 DEF Serve, TypeOK, registry, server, job
  <2>. QED BY <1>3, <2>1, <2>2
<1>. QED BY <1>1, <1>2, <1>3

(* Type correctness, for any number of requests and scripts.               *)
THEOREM TypeInvariance == Spec => []TypeOK
<1>1. Init => TypeOK
  BY DEF Init, TypeOK, Statuses, Live, Building, Places, Steps, NoChange
<1>2. TypeOK /\ [Next]_vars => TypeOK'
  <2>1. TypeOK /\ Next => TypeOK'
    BY RequestTypes, ScriptTypes, OtherTypes DEF Next
  <2>2. TypeOK /\ UNCHANGED vars => TypeOK'
    BY DEF vars, registry, server, job, TypeOK
  <2>. QED BY <2>1, <2>2
<1>. QED BY <1>1, <1>2, PTL DEF Spec
-----------------------------------------------------------------------------
(* The inductive invariant under LiveHasDatabase. That a live row's        *)
(* database is ready holds because its run migrated it before activating   *)
(* it, so the invariant follows the row through every hand it passes: what *)
(* a request wrote and has not committed, and what a job took as its       *)
(* source or its target.                                                   *)

(* The database of a row answers to its credential, unless a decommission  *)
(* renamed it away.                                                        *)
Delivered(r) ==
  place[r] \in Servers =>
    \/ parked[place[r]]
    \/ /\ database[place[r]] = "ready"
       /\ role[place[r]] = r /\ login[place[r]]

(* What a status, committed or not, says of its row.                       *)
Fits(r, st) ==
  /\ st # "absent" => place[r] # None
  /\ st \in Building => place[r] \in Servers
  /\ st \in Live => Delivered(r)

(* Past the migrations of the target.                                      *)
Migrated == {"activating", "wiping", "copying", "verifying", "flipping"}

(* What a job holds.                                                       *)
Holds(j) ==
  /\ src[j] # None => place[src[j]] # None /\ Delivered(src[j])
  /\ tgt[j] # None => place[tgt[j]] \in Servers
  /\ at[j] \in Migrated /\ tgt[j] # None => Delivered(tgt[j])
  /\ at[j] \in {"retiring", "parking", "revoking"} => src[j] # None
  /\ at[j] = "revoking" /\ place[src[j]] \in Servers => parked[place[src[j]]]

LifecycleInv ==
  /\ TypeOK
  /\ \A r \in Rows : Fits(r, status[r])
  /\ \A j \in Jobs : pending[j].row # None => Fits(pending[j].row, pending[j].to)
  /\ \A j \in Jobs : Holds(j)

(* How a step may change the servers: a database that is ready and whose   *)
(* role may log in stays so, unless it is renamed away.                    *)
ServersKeep ==
  \A s \in Servers :
    \/ parked'[s]
    \/ /\ parked'[s] = parked[s]
       /\ database[s] = "ready" /\ role[s] # None /\ login[s]
          => database'[s] = "ready" /\ role'[s] = role[s] /\ login'[s]

(* ... and the registry: the place of a row is for good.                   *)
PlacesKeep == \A r \in Rows : place[r] # None => place'[r] = place[r]

Guarded == Migrated \cup {"retiring", "parking", "revoking"}

(* A job goes on with the rows it has.                                     *)
Proceeds(k) ==
  /\ src'[k] = src[k] /\ tgt'[k] = tgt[k]
  /\ \/ at'[k] = at[k]
     \/ at'[k] \notin Guarded
     \/ at[k] \in Migrated /\ at'[k] \in Migrated
     \/ at[k] = "retiring" /\ at'[k] = "parking"

Freed(k) == at'[k] = "idle" /\ src'[k] = None /\ tgt'[k] = None

LEMMA DeliveredKept ==
  ASSUME ServersKeep, PlacesKeep, NEW r \in Rows, place[r] # None, Delivered(r)
  PROVE  Delivered(r)' /\ place'[r] = place[r]
<1>1. place'[r] = place[r] BY DEF PlacesKeep
<1>2. CASE place[r] \in Servers
  <2>1. r # None OBVIOUS
  <2>. QED BY <1>1, <1>2, <2>1 DEF ServersKeep, Delivered
<1>3. CASE place[r] \notin Servers BY <1>1, <1>3 DEF Delivered
<1>. QED BY <1>1, <1>2, <1>3

LEMMA FitsKept ==
  ASSUME ServersKeep, PlacesKeep, NEW r \in Rows, NEW st, Fits(r, st)
  PROVE  Fits(r, st)'
<1>1. CASE place[r] = None
  <2>1. st = "absent" BY <1>1 DEF Fits
  <2>. QED BY <2>1 DEF Fits, Building, Live
<1>2. CASE place[r] # None
  <2>1. place'[r] = place[r] BY <1>2 DEF PlacesKeep
  <2>2. st \in Live => Delivered(r)' BY <1>2, DeliveredKept DEF Fits
  <2>. QED BY <1>2, <2>1, <2>2 DEF Fits
<1>. QED BY <1>1, <1>2

LEMMA ProceedsHolds ==
  ASSUME LifecycleInv, ServersKeep, PlacesKeep, NEW k \in Jobs, Proceeds(k)
  PROVE  Holds(k)'
<1>1. Holds(k) BY DEF LifecycleInv
<1>2. PICK a, b \in Rows \cup {None} : a = src[k] /\ b = tgt[k]
  BY DEF LifecycleInv, TypeOK
<1>3. a # None => place[a] # None /\ place'[a] = place[a] /\ Delivered(a)'
  BY <1>1, <1>2, DeliveredKept DEF Holds
<1>4. b # None => /\ place[b] \in Servers /\ place[b] # None
                  /\ place'[b] = place[b]
  BY <1>1, <1>2 DEF Holds, PlacesKeep, Places
<1>5. at[k] \in Migrated /\ b # None => Delivered(b)'
  BY <1>1, <1>2, <1>4, DeliveredKept DEF Holds
<1>6. at'[k] \in Migrated => at[k] \in Migrated
  BY DEF Proceeds, Guarded, Migrated
<1>7. at'[k] \in {"retiring", "parking", "revoking"}
        => at[k] \in {"retiring", "parking", "revoking"} /\ a # None
  BY <1>1, <1>2 DEF Proceeds, Guarded, Migrated, Holds
<1>8. at'[k] = "revoking" => at[k] = "revoking"
  BY DEF Proceeds, Guarded, Migrated
<1>9. at'[k] = "revoking" /\ place'[a] \in Servers => parked'[place'[a]]
  BY <1>1, <1>2, <1>3, <1>7, <1>8 DEF Holds, ServersKeep
<1>10. a = src'[k] /\ b = tgt'[k] BY <1>2 DEF Proceeds
<1>. QED
  BY <1>3, <1>4, <1>5, <1>6, <1>7, <1>9, <1>10 DEF Holds, Delivered

(* A step preserves the invariant if whatever it changes fits.             *)
LEMMA Preserved ==
  ASSUME LifecycleInv, TypeOK', ServersKeep, PlacesKeep,
         \A r \in Rows : \/ status'[r] = status[r]
                         \/ Fits(r, status'[r])
                         \/ Fits(r, status[r])',
         \A k \in Jobs : \/ pending'[k] = pending[k]
                         \/ pending'[k].row = None
                         \/ Fits(pending'[k].row, pending'[k].to)
                         \/ Fits(pending[k].row, pending[k].to)',
         \A k \in Jobs : Proceeds(k) \/ Freed(k) \/ Holds(k)'
  PROVE  LifecycleInv'
<1>1. ASSUME NEW r \in Rows PROVE Fits(r, status[r])'
  <2>1. Fits(r, status[r]) BY DEF LifecycleInv
  <2>2. CASE Fits(r, status'[r])
    <3>1. PICK st : st = status'[r] OBVIOUS
    <3>. QED BY <2>2, <3>1, FitsKept DEF Fits, Delivered
  <2>. QED BY <2>1, <2>2
<1>2. ASSUME NEW k \in Jobs, pending[k].row' # None
      PROVE  Fits(pending[k].row, pending[k].to)'
  <2>1. pending'[k].row \in Rows BY <1>2 DEF TypeOK
  <2>2. CASE Fits(pending'[k].row, pending'[k].to)
    <3>1. PICK r \in Rows : r = pending'[k].row BY <2>1
    <3>2. PICK st \in Statuses \cup {"purged"} : st = pending'[k].to
      BY DEF TypeOK
    <3>3. Fits(r, st)' BY <2>2, <3>1, <3>2, FitsKept
    <3>. QED BY <3>1, <3>2, <3>3 DEF Fits, Delivered
  <2>. QED BY <1>2, <2>2 DEF LifecycleInv
<1>3. ASSUME NEW k \in Jobs PROVE Holds(k)'
  <2>1. CASE Freed(k) BY <2>1 DEF Freed, Holds, Migrated
  <2>. QED BY <2>1, ProceedsHolds
<1>. QED BY <1>1, <1>2, <1>3 DEF LifecycleInv

LEMMA NothingMoves ==
  ASSUME UNCHANGED place, UNCHANGED server
  PROVE  ServersKeep /\ PlacesKeep
  BY DEF server, ServersKeep, PlacesKeep

LEMMA JobGoes ==
  ASSUME LifecycleInv, NEW j \in Jobs, NEW step, Go(j, step),
         UNCHANGED <<src, tgt>>,
         \/ step \notin Guarded
         \/ at[j] \in Migrated /\ step \in Migrated
         \/ at[j] = "retiring" /\ step = "parking"
  PROVE  \A k \in Jobs : Proceeds(k) \/ Freed(k) \/ Holds(k)'
  BY DEF LifecycleInv, TypeOK, Go, Proceeds

LEMMA JobEnds ==
  ASSUME LifecycleInv, NEW j \in Jobs, Done(j)
  PROVE  \A k \in Jobs : Proceeds(k) \/ Freed(k) \/ Holds(k)'
  BY DEF LifecycleInv, TypeOK, Done, Go, Proceeds, Freed

LEMMA JobsStay ==
  ASSUME UNCHANGED job
  PROVE  \A k \in Jobs : Proceeds(k) \/ Freed(k) \/ Holds(k)'
  BY DEF job, Proceeds

(* A transition between live statuses, or between building ones, asks      *)
(* nothing new of its row.                                                 *)
LEMMA SameKind ==
  ASSUME NEW r, NEW from, NEW to, Fits(r, from),
         \/ from \in Live /\ to \in Live
         \/ from \in Building /\ to \in Building
  PROVE  Fits(r, to)
  BY DEF Fits, Live, Building

LEMMA TransitionFits ==
  ASSUME LifecycleInv, NEW j, NEW q, NEW from, NEW to,
         Transition(j, q, from, to), q \in Rows => Fits(q, to)
  PROVE  \A r \in Rows : \/ status'[r] = status[r]
                         \/ Fits(r, status'[r])
                         \/ Fits(r, status[r])'
  BY DEF LifecycleInv, TypeOK, Transition

LEMMA TransitionKindFits ==
  ASSUME LifecycleInv, NEW j, NEW q, NEW from, NEW to,
         Transition(j, q, from, to),
         \/ from \in Live /\ to \in Live
         \/ from \in Building /\ to \in Building
  PROVE  \A r \in Rows : \/ status'[r] = status[r]
                         \/ Fits(r, status'[r])
                         \/ Fits(r, status[r])'
<1>1. CASE status[q] = from /\ q \in Rows
  <2>1. Fits(q, from) BY <1>1 DEF LifecycleInv
  <2>2. Fits(q, to) BY <2>1, SameKind
  <2>. QED BY <2>2, TransitionFits
<1>2. CASE ~(status[q] = from /\ q \in Rows)
  BY <1>2 DEF LifecycleInv, TypeOK, Transition
<1>. QED BY <1>1, <1>2

LEMMA PendingFits ==
  ASSUME LifecycleInv, NEW j \in Jobs, NEW q, NEW from, NEW to,
         TransitionInRequest(j, q, from, to),
         q \in Rows /\ View(j, q) = from => Fits(q, to),
         q \in Rows \cup {None}
  PROVE  \A k \in Jobs : \/ pending'[k] = pending[k]
                         \/ pending'[k].row = None
                         \/ Fits(pending'[k].row, pending'[k].to)
                         \/ Fits(pending[k].row, pending[k].to)'
<1>1. CASE View(j, q) = from
  <2>1. pending' = [pending EXCEPT ![j] = [row |-> q, to |-> to]]
    BY <1>1 DEF TransitionInRequest
  <2>2. ASSUME NEW k \in Jobs, k # j PROVE pending'[k] = pending[k]
    BY <2>1, <2>2 DEF LifecycleInv, TypeOK
  <2>3. pending'[j] = [row |-> q, to |-> to]
    BY <2>1 DEF LifecycleInv, TypeOK
  <2>. QED BY <1>1, <2>2, <2>3
<1>2. CASE View(j, q) # from
  BY <1>2 DEF TransitionInRequest
<1>. QED BY <1>1, <1>2

LEMMA ViewFits ==
  ASSUME LifecycleInv, NEW j \in Jobs, NEW q \in Rows
  PROVE  Fits(q, View(j, q))
  BY DEF LifecycleInv, View

LEMMA JobTakesTarget ==
  ASSUME LifecycleInv, ServersKeep, PlacesKeep, NEW j \in Jobs, NEW step,
         Go(j, step), step \notin Guarded, UNCHANGED src,
         NEW b \in Rows, tgt' = [tgt EXCEPT ![j] = b], place'[b] \in Servers
  PROVE  \A k \in Jobs : Proceeds(k) \/ Freed(k) \/ Holds(k)'
<1>1. ASSUME NEW k \in Jobs, k # j PROVE Proceeds(k)
  BY <1>1 DEF LifecycleInv, TypeOK, Go, Proceeds
<1>2. Holds(j)'
  <2>1. at'[j] = step /\ src'[j] = src[j] /\ tgt'[j] = b
    BY DEF Go, LifecycleInv, TypeOK
  <2>2. PICK a \in Rows \cup {None} : a = src[j] BY DEF LifecycleInv, TypeOK
  <2>3. a # None => place'[a] # None /\ Delivered(a)'
    BY <2>2, DeliveredKept DEF LifecycleInv, Holds
  <2>. QED BY <2>1, <2>2, <2>3 DEF Holds, Guarded, Delivered
<1>. QED BY <1>1, <1>2

LEMMA JobTakesSource ==
  ASSUME LifecycleInv, ServersKeep, PlacesKeep, NEW j \in Jobs, NEW step,
         Go(j, step), step \notin Migrated \cup {"revoking"}, UNCHANGED tgt,
         NEW b \in LiveRows, src' = [src EXCEPT ![j] = b]
  PROVE  \A k \in Jobs : Proceeds(k) \/ Freed(k) \/ Holds(k)'
<1>1. ASSUME NEW k \in Jobs, k # j PROVE Proceeds(k)
  BY <1>1 DEF LifecycleInv, TypeOK, Go, Proceeds
<1>2. Holds(j)'
  <2>1. at'[j] = step /\ src'[j] = b /\ tgt'[j] = tgt[j]
    BY DEF Go, LifecycleInv, TypeOK
  <2>2. b \in Rows /\ place[b] # None /\ Delivered(b)
    BY DEF LiveRows, LifecycleInv, Fits, Live
  <2>3. place'[b] # None /\ Delivered(b)' BY <2>2, DeliveredKept
  <2>4. tgt[j] # None => place'[tgt[j]] \in Servers
    BY DEF LifecycleInv, Holds, TypeOK, PlacesKeep, Places
  <2>. QED BY <2>1, <2>2, <2>3, <2>4 DEF Holds, Delivered
<1>. QED BY <1>1, <1>2

(* A row inserted by this step was nowhere before.                         *)
LEMMA InsertKeeps ==
  ASSUME LifecycleInv, NEW q \in Rows, NEW s \in Servers, IsNext(q),
         place' = [place EXCEPT ![q] = s], UNCHANGED server
  PROVE  ServersKeep /\ PlacesKeep /\ place'[q] = s
  BY DEF server, ServersKeep, PlacesKeep, IsNext, LifecycleInv, TypeOK

-----------------------------------------------------------------------------
(* What a request does.                                                    *)
LEMMA RequestKeeps ==
  ASSUME LifecycleInv, TypeOK', NEW j \in Requests,
         \/ RequestBegins(j) \/ Provisioning(j) \/ Deleting(j)
         \/ Answer(j) \/ RollBack(j) \/ RequestFails(j)
  PROVE  LifecycleInv'
<1>0. j \in Jobs BY DEF Jobs
<1>1. CASE BeginProvisioning(j)
  <2>1. ServersKeep /\ PlacesKeep
    BY <1>1, NothingMoves DEF BeginProvisioning, registry
  <2>2. \A k \in Jobs : Proceeds(k) \/ Freed(k) \/ Holds(k)'
    <3>1. CASE BuildingRows = {}
      BY <1>0, <1>1, <3>1, JobGoes DEF BeginProvisioning, Guarded, Migrated
    <3>2. CASE BuildingRows # {}
      <4>1. PICK b \in BuildingRows : tgt' = [tgt EXCEPT ![j] = b]
        BY <1>1, <3>2 DEF BeginProvisioning
      <4>2. b \in Rows /\ place'[b] \in Servers
        BY <1>1 DEF BuildingRows, LifecycleInv, Fits, BeginProvisioning, registry
      <4>. QED
        BY <1>0, <1>1, <2>1, <4>1, <4>2, JobTakesTarget
        DEF BeginProvisioning, Guarded, Migrated
    <3>. QED BY <3>1, <3>2
  <2>. QED
    BY <1>1, <2>1, <2>2, Preserved DEF BeginProvisioning, registry
<1>2. ASSUME NEW verb, Switch(j, verb) PROVE LifecycleInv'
  <2>1. PICK q \in LiveRows, from, to \in Live : TransitionInRequest(j, q, from, to)
    BY <1>2 DEF Switch, Live
  <2>2. q \in Rows BY DEF LiveRows
  <2>3. ASSUME View(j, q) = from PROVE Fits(q, to)
    <3>1. Fits(q, from) BY <1>0, <2>2, <2>3, ViewFits
    <3>. QED BY <3>1, SameKind
  <2>. QED
    BY <1>0, <1>2, <2>1, <2>2, <2>3, PendingFits, NothingMoves, JobsStay,
       Preserved
    DEF Switch, registry
<1>3. CASE BeginDelete(j)
  <2>1. ServersKeep /\ PlacesKeep BY <1>3, NothingMoves DEF BeginDelete, registry
  <2>2. \A k \in Jobs : Proceeds(k) \/ Freed(k) \/ Holds(k)'
    <3>1. CASE LiveRows = {}
      BY <1>0, <1>3, <3>1, JobGoes DEF BeginDelete, Guarded, Migrated
    <3>2. CASE LiveRows # {}
      BY <1>0, <1>3, <2>1, <3>2, JobTakesSource DEF BeginDelete, Migrated
    <3>. QED BY <3>1, <3>2
  <2>. QED BY <1>3, <2>1, <2>2, Preserved DEF BeginDelete, registry
<1>4. CASE ResumeBuilding(j)
  <2>1. tgt[j] \in Rows BY <1>0, <1>4 DEF ResumeBuilding, LifecycleInv, TypeOK
  <2>2. View(j, tgt[j]) = "failed" => Fits(tgt[j], "provisioning")
    BY <1>0, <2>1, ViewFits, SameKind DEF Building
  <2>3. \A k \in Jobs : \/ pending'[k] = pending[k]
                         \/ pending'[k].row = None
                         \/ Fits(pending'[k].row, pending'[k].to)
                         \/ Fits(pending[k].row, pending[k].to)'
    BY <1>0, <1>4, <2>1, <2>2, PendingFits DEF ResumeBuilding
  <2>4. \A k \in Jobs : Proceeds(k) \/ Freed(k) \/ Holds(k)'
    BY <1>0, <1>4, JobGoes, JobEnds DEF ResumeBuilding, Guarded, Migrated
  <2>. QED
    BY <1>4, <2>3, <2>4, NothingMoves, Preserved DEF ResumeBuilding, registry
<1>5. ASSUME NEW s \in Servers, CreateRow(j, s) PROVE LifecycleInv'
  <2>1. CASE ~MayInsert(s)
    BY <1>0, <1>5, <2>1, NothingMoves, JobEnds, Preserved DEF CreateRow
  <2>2. CASE MayInsert(s)
    <3>1. PICK q \in Rows :
            /\ IsNext(q)
            /\ place' = [place EXCEPT ![q] = s]
            /\ pending' = [pending EXCEPT ![j] =
                   [row |-> q, to |-> IF Collides(s) THEN "failed"
                                                     ELSE "provisioning"]]
            /\ IF Collides(s)
                 THEN Done(j)
                 ELSE /\ tgt' = [tgt EXCEPT ![j] = q]
                      /\ Go(j, "role")
                      /\ UNCHANGED <<src, saw>>
      BY <1>5, <2>2 DEF CreateRow
    <3>2. ServersKeep /\ PlacesKeep /\ place'[q] = s
      BY <1>5, <3>1, InsertKeeps DEF CreateRow
    <3>3. \A k \in Jobs : \/ pending'[k] = pending[k]
                         \/ Fits(pending[k].row, pending[k].to)'
      <4>1. ASSUME NEW k \in Jobs, k # j PROVE pending'[k] = pending[k]
        BY <3>1, <4>1 DEF LifecycleInv, TypeOK
      <4>2. pending'[j].row = q /\ pending'[j].to \in Building
        BY <1>0, <3>1 DEF LifecycleInv, TypeOK, Building
      <4>3. Fits(pending[j].row, pending[j].to)'
        BY <3>2, <4>2 DEF Fits, Building, Live, Places
      <4>. QED BY <4>1, <4>3
    <3>4. \A k \in Jobs : Proceeds(k) \/ Freed(k) \/ Holds(k)'
      BY <1>0, <3>1, <3>2, JobEnds, JobTakesTarget DEF Guarded, Migrated
    <3>. QED BY <1>5, <3>2, <3>3, <3>4, Preserved DEF CreateRow
  <2>. QED BY <2>1, <2>2
<1>6. CASE Activate(j)
  <2>1. at[j] = "activating" BY <1>6 DEF Activate
  <2>2. CASE status[tgt[j]] = "provisioning" /\ LiveRows # {}
    BY <1>0, <1>6, <2>2, NothingMoves, JobGoes, Preserved
    DEF Activate, Guarded, Migrated
  <2>3. CASE ~(status[tgt[j]] = "provisioning" /\ LiveRows # {})
    <3>1. tgt[j] \in Rows => Fits(tgt[j], "active")
      BY <1>0, <2>1 DEF LifecycleInv, Holds, Migrated, Fits, Building, Places
    <3>. QED
      BY <1>0, <1>6, <2>3, <3>1, NothingMoves, JobEnds, TransitionFits, Preserved
      DEF Activate
  <2>. QED BY <2>2, <2>3
<1>7. CASE Retire(j)
  <2>1. src[j] \in Rows /\ Fits(src[j], "decommissioning")
    BY <1>0, <1>7 DEF Retire, LifecycleInv, TypeOK, Holds, Fits, Building
  <2>2. \A k \in Jobs : Proceeds(k) \/ Freed(k) \/ Holds(k)'
    BY <1>0, <1>7, JobGoes DEF Retire, Guarded, Migrated
  <2>3. ServersKeep /\ PlacesKeep /\ UNCHANGED status
    BY <1>7, NothingMoves DEF Retire, registry
  <2>4. \A k \in Jobs : \/ pending'[k] = pending[k]
                        \/ pending'[k].row = None
                        \/ Fits(pending'[k].row, pending'[k].to)
                        \/ Fits(pending[k].row, pending[k].to)'
    <3>1. CASE UNCHANGED pending
      BY <3>1
    <3>2. CASE TransitionInRequest(j, src[j], saw[j], "decommissioning")
      BY <1>0, <2>1, <3>2, PendingFits
    <3>. QED BY <1>7, <3>1, <3>2 DEF Retire
  <2>. QED
    BY <1>0, <2>2, <2>3, <2>4, Preserved
<1>8. CASE Park(j)
  <2>1. PICK a \in Rows : a = src[j] /\ place[a] # None /\ Delivered(a)
    BY <1>0, <1>8 DEF Park, LifecycleInv, TypeOK, Holds
  <2>2. ASSUME NEW t \in Servers
        PROVE  /\ t # place[a] => /\ parked'[t] = parked[t]
                                  /\ database'[t] = database[t]
               /\ t = place[a] => /\ parked[t] => parked'[t]
                                  /\ database[t] # "none" => parked'[t]
                                  /\ database[t] = "none" => parked'[t] = parked[t]
    <3>1. database' = [database EXCEPT ![place[a]] = "none"]
      BY <1>8, <2>1 DEF Park
    <3>2. PICK b \in BOOLEAN :
            b = (parked[place[a]] \/ database[place[a]] # "none")
      OBVIOUS
    <3>3. parked' = [parked EXCEPT ![place[a]] = b] BY <1>8, <2>1, <3>2 DEF Park
    <3>4. t = place[a] => parked'[t] = b
      BY <3>3 DEF LifecycleInv, TypeOK
    <3>5. t # place[a] => parked'[t] = parked[t] /\ database'[t] = database[t]
      BY <3>1, <3>3 DEF LifecycleInv, TypeOK
    <3>6. parked[t] \in BOOLEAN BY DEF LifecycleInv, TypeOK
    <3>. QED BY <3>2, <3>4, <3>5, <3>6
  <2>3. ServersKeep BY <1>8, <2>2 DEF Park, ServersKeep
  <2>4. PlacesKeep BY <1>8 DEF Park, registry, PlacesKeep
  <2>5. place[a] \in Servers => parked'[place[a]]
    BY <2>1, <2>2 DEF Delivered
  <2>6. \A k \in Jobs : Proceeds(k) \/ Freed(k) \/ Holds(k)'
    <3>1. ASSUME NEW k \in Jobs, k # j PROVE Proceeds(k)
      BY <1>8, <3>1 DEF Park, LifecycleInv, TypeOK, Go, Proceeds
    <3>2. at'[j] = "revoking" /\ src'[j] = a /\ tgt'[j] = tgt[j] /\ place' = place
      BY <1>0, <1>8, <2>1 DEF Park, Go, LifecycleInv, TypeOK, registry
    <3>3. place'[a] # None /\ Delivered(a)'
      BY <2>1, <2>3, <2>4, DeliveredKept
    <3>4. tgt[j] # None => place[tgt[j]] \in Servers
      BY <1>0 DEF LifecycleInv, Holds
    <3>5. Holds(j)'
      BY <2>1, <2>5, <3>2, <3>3, <3>4 DEF Holds, Migrated, Delivered
    <3>. QED BY <3>1, <3>5
  <2>. QED BY <1>8, <2>3, <2>4, <2>6, Preserved DEF Park, registry
<1>9. CASE Revoke(j)
  <2>1. place[src[j]] \in Servers => parked[place[src[j]]]
    BY <1>0, <1>9 DEF Revoke, LifecycleInv, Holds
  <2>2. ASSUME NEW t \in Servers, t # place[src[j]] PROVE login'[t] = login[t]
    BY <1>9, <2>2 DEF Revoke, LifecycleInv, TypeOK
  <2>3. ServersKeep BY <1>9, <2>1, <2>2 DEF Revoke, ServersKeep
  <2>4. PlacesKeep BY <1>9 DEF Revoke, registry, PlacesKeep
  <2>5. \A k \in Jobs : Proceeds(k) \/ Freed(k) \/ Holds(k)'
    BY <1>0, <1>9, JobGoes DEF Revoke, Guarded, Migrated
  <2>. QED BY <1>9, <2>3, <2>4, <2>5, Preserved DEF Revoke, registry
<1>10. CASE Purge(j)
  <2>1. src[j] \in Rows \cup {None} /\ (src[j] # None => Fits(src[j], "purged"))
    BY <1>0 DEF LifecycleInv, TypeOK, Holds, Fits, Building, Live
  <2>2. \A k \in Jobs : \/ pending'[k] = pending[k]
                         \/ pending'[k].row = None
                         \/ Fits(pending'[k].row, pending'[k].to)
    <3>1. ASSUME NEW k \in Jobs, k # j PROVE pending'[k] = pending[k]
      BY <1>10, <3>1 DEF Purge, LifecycleInv, TypeOK
    <3>2. \/ pending'[j] = NoChange
          \/ pending'[j] = [row |-> src[j], to |-> "purged"]
      BY <1>0, <1>10 DEF Purge, LifecycleInv, TypeOK
    <3>. QED BY <2>1, <3>1, <3>2 DEF NoChange
  <2>. QED
    BY <1>0, <1>10, <2>2, NothingMoves, JobEnds, Preserved DEF Purge, registry
<1>11. CASE Answer(j)
  <2>1. ASSUME NEW r \in Rows
        PROVE  status'[r] = status[r] \/ Fits(r, status'[r])
    <3>1. Fits(r, "absent") BY DEF Fits, Building, Live
    <3>2. r = pending[j].row => Fits(r, pending[j].to)
      BY <1>0 DEF LifecycleInv
    <3>. QED BY <1>11, <3>1, <3>2 DEF Answer
  <2>2. \A k \in Jobs : pending'[k] = pending[k] \/ pending'[k].row = None
    BY <1>11 DEF Answer, NoChange, LifecycleInv, TypeOK
  <2>. QED BY <1>11, <2>1, <2>2, NothingMoves, JobsStay, Preserved DEF Answer
<1>12. CASE RollBack(j)
  BY <1>0, <1>12, NothingMoves, JobsStay, Preserved
  DEF RollBack, registry, NoChange, LifecycleInv, TypeOK
<1>13. CASE RequestFails(j)
  BY <1>0, <1>13, NothingMoves, JobEnds, Preserved
  DEF RequestFails, registry, NoChange, LifecycleInv, TypeOK
<1>. QED
  BY <1>1, <1>2, <1>3, <1>4, <1>5, <1>6, <1>7, <1>8, <1>9, <1>10, <1>11,
     <1>12, <1>13 DEF RequestBegins, Provisioning, Deleting

(* What the move script does beside the steps it shares.                   *)
LEMMA ScriptKeeps ==
  ASSUME LifecycleInv, TypeOK', NEW j \in Scripts, Moving(j)
  PROVE  LifecycleInv'
<1>0. j \in Jobs BY DEF Jobs
<1>1. CASE BeginMove(j)
  <2>1. ServersKeep /\ PlacesKeep BY <1>1, NothingMoves DEF BeginMove, registry
  <2>2. PICK b \in LiveRows, step \in {"suspending", "targeting"} :
          src' = [src EXCEPT ![j] = b] /\ Go(j, step)
    BY <1>1 DEF BeginMove
  <2>3. \A k \in Jobs : Proceeds(k) \/ Freed(k) \/ Holds(k)'
    BY <1>0, <1>1, <2>1, <2>2, JobTakesSource DEF BeginMove, Migrated
  <2>. QED BY <1>1, <2>1, <2>3, Preserved DEF BeginMove, registry
<1>2. CASE Suspend(j)
  <2>1. \A k \in Jobs : Proceeds(k) \/ Freed(k) \/ Holds(k)'
    BY <1>0, <1>2, JobGoes, JobEnds DEF Suspend, Guarded, Migrated
  <2>2. \A r \in Rows : \/ status'[r] = status[r]
                         \/ Fits(r, status'[r])
                         \/ Fits(r, status[r])'
    BY <1>2, TransitionKindFits DEF Suspend, Live
  <2>. QED BY <1>2, <2>1, <2>2, NothingMoves, Preserved DEF Suspend
<1>3. ASSUME NEW s \in Servers, TakeTarget(j, s) PROVE LifecycleInv'
  <2>1. ServersKeep /\ PlacesKeep BY <1>3, NothingMoves DEF TakeTarget
  <2>2. PICK b \in BuildingRows :
          IF place[b] # s
            THEN Done(j) /\ UNCHANGED status
            ELSE /\ IF status[b] = "failed"
                      THEN Transition(j, b, "failed", "provisioning")
                      ELSE UNCHANGED status
                 /\ tgt' = [tgt EXCEPT ![j] = b]
                 /\ Go(j, "role")
                 /\ UNCHANGED <<src, saw>>
    BY <1>3 DEF TakeTarget
  <2>3. b \in Rows /\ place'[b] \in Servers
    BY <1>3 DEF BuildingRows, LifecycleInv, Fits, TakeTarget
  <2>4. \A k \in Jobs : Proceeds(k) \/ Freed(k) \/ Holds(k)'
    BY <1>0, <2>1, <2>2, <2>3, JobEnds, JobTakesTarget DEF Guarded, Migrated
  <2>5. \A r \in Rows : \/ status'[r] = status[r]
                         \/ Fits(r, status'[r])
                         \/ Fits(r, status[r])'
    BY <2>2, TransitionKindFits DEF Building
  <2>. QED BY <1>3, <2>1, <2>4, <2>5, Preserved DEF TakeTarget
<1>4. ASSUME NEW s \in Servers, CreateTarget(j, s) PROVE LifecycleInv'
  <2>1. CASE Collides(s)
    BY <1>0, <1>4, <2>1, NothingMoves, JobGoes, Preserved
    DEF CreateTarget, Guarded, Migrated
  <2>2. CASE ~Collides(s) /\ ~MayInsert(s)
    BY <1>0, <1>4, <2>2, NothingMoves, JobEnds, Preserved DEF CreateTarget
  <2>3. CASE ~Collides(s) /\ MayInsert(s)
    <3>1. PICK q \in Rows : /\ IsNext(q)
                            /\ place' = [place EXCEPT ![q] = s]
                            /\ status' = [status EXCEPT ![q] = "provisioning"]
                            /\ tgt' = [tgt EXCEPT ![j] = q]
                            /\ Go(j, "role")
                            /\ UNCHANGED <<src, saw>>
      BY <1>4, <2>3 DEF CreateTarget
    <3>2. ServersKeep /\ PlacesKeep /\ place'[q] = s
      BY <1>4, <3>1, InsertKeeps DEF CreateTarget
    <3>3. \A r \in Rows : status'[r] = status[r] \/ Fits(r, status[r])'
      <4>1. Fits(q, status[q])'
        BY <3>1, <3>2 DEF Fits, Building, Live, Places, LifecycleInv, TypeOK
      <4>. QED BY <3>1, <4>1 DEF LifecycleInv, TypeOK
    <3>4. \A k \in Jobs : Proceeds(k) \/ Freed(k) \/ Holds(k)'
      BY <1>0, <3>1, <3>2, JobTakesTarget DEF Guarded, Migrated
    <3>. QED BY <1>4, <3>2, <3>3, <3>4, Preserved DEF CreateTarget
  <2>. QED BY <2>1, <2>2, <2>3
<1>5. CASE Restore(j)
  <2>1. \A r \in Rows : \/ status'[r] = status[r]
                         \/ Fits(r, status'[r])
                         \/ Fits(r, status[r])'
    BY <1>5, TransitionKindFits DEF Restore, Live
  <2>. QED BY <1>0, <1>5, <2>1, NothingMoves, JobEnds, Preserved DEF Restore
<1>6. CASE Wipe(j)
  BY <1>0, <1>6, NothingMoves, JobGoes, Preserved DEF Wipe, Migrated, registry
<1>7. CASE Copy(j)
  BY <1>0, <1>7, NothingMoves, JobGoes, Preserved DEF Copy, Migrated, registry
<1>8. CASE Verify(j)
  <2>1. \A k \in Jobs : Proceeds(k) \/ Freed(k) \/ Holds(k)'
    BY <1>0, <1>8, JobGoes DEF Verify, Guarded, Migrated
  <2>. QED BY <1>8, <2>1, NothingMoves, Preserved DEF Verify, registry
<1>9. CASE Flip(j)
  <2>1. src[j] \in Rows => Fits(src[j], "retired")
    BY <1>0 DEF LifecycleInv, Holds, Fits, Building, Live
  <2>2. tgt[j] \in Rows => Fits(tgt[j], "active")
    BY <1>0, <1>9
    DEF Flip, LifecycleInv, Holds, Migrated, Fits, Building, Places
  <2>3. \A r \in Rows : status'[r] = status[r] \/ Fits(r, status'[r])
    BY <1>9, <2>1, <2>2 DEF Flip, LifecycleInv, TypeOK
  <2>. QED BY <1>0, <1>9, <2>3, NothingMoves, JobEnds, Preserved DEF Flip
<1>10. CASE Die(j)
  BY <1>0, <1>10, NothingMoves, JobEnds, Preserved DEF Die, registry
<1>. QED
  BY <1>1, <1>2, <1>3, <1>4, <1>5, <1>6, <1>7, <1>8, <1>9, <1>10 DEF Moving

(* What is left: the steps on the server, the crash, the company's writes. *)
LEMMA OthersKeep ==
  ASSUME LifecycleInv, TypeOK',
         \/ \E j \in Jobs : RunStep(j)
         \/ Restart
         \/ \E r \in Rows, w \in Writes : Route(r, w) \/ Serve(r, w)
  PROVE  LifecycleInv'
<1>1. ASSUME NEW j \in Jobs, RunStep(j) PROVE LifecycleInv'
  <2>1. CASE EnsureRole(j)
    <3>1. ServersKeep
      BY <2>1 DEF EnsureRole, ServersKeep, LifecycleInv, TypeOK
    <3>2. PlacesKeep BY <2>1 DEF EnsureRole, registry, PlacesKeep
    <3>3. \A k \in Jobs : Proceeds(k) \/ Freed(k) \/ Holds(k)'
      BY <2>1, JobGoes DEF EnsureRole, Guarded, Migrated
    <3>. QED BY <2>1, <3>1, <3>2, <3>3, Preserved DEF EnsureRole, registry
  <2>2. CASE EnsureDatabase(j)
    <3>1. ServersKeep
      BY <2>2 DEF EnsureDatabase, ServersKeep, LifecycleInv, TypeOK
    <3>2. PlacesKeep BY <2>2 DEF EnsureDatabase, registry, PlacesKeep
    <3>3. \A k \in Jobs : Proceeds(k) \/ Freed(k) \/ Holds(k)'
      BY <2>2, JobGoes DEF EnsureDatabase, Guarded, Migrated
    <3>. QED BY <2>2, <3>1, <3>2, <3>3, Preserved DEF EnsureDatabase, registry
  <2>3. CASE Migrate(j)
    <3>1. ServersKeep BY <2>3 DEF Migrate, ServersKeep, LifecycleInv, TypeOK
    <3>2. PlacesKeep BY <2>3 DEF Migrate, registry, PlacesKeep
    <3>3. ASSUME NEW k \in Jobs PROVE Proceeds(k) \/ Holds(k)'
      <4>1. CASE k # j \/ ~Connects(tgt[j])
        BY <2>3, <4>1 DEF Migrate, Go, LifecycleInv, TypeOK, Proceeds, Guarded,
                          Migrated
      <4>2. CASE k = j /\ Connects(tgt[j])
        <5>1. PICK a, b \in Rows \cup {None} : a = src[j] /\ b = tgt[j]
          BY DEF LifecycleInv, TypeOK
        <5>2. /\ at'[j] \in Migrated /\ src'[j] = a /\ tgt'[j] = b
              /\ place' = place
          BY <2>3, <4>2, <5>1
          DEF Migrate, Go, LifecycleInv, TypeOK, Migrated, registry
        <5>3. a # None => place'[a] # None /\ Delivered(a)'
          BY <3>1, <3>2, <5>1, DeliveredKept DEF LifecycleInv, Holds
        <5>4. b # None => place[b] \in Servers
          BY <5>1 DEF LifecycleInv, Holds
        <5>5. b # None => Delivered(b)'
          <6>1. b # None => role[place[b]] = b /\ login[place[b]]
            BY <4>2, <5>1, <5>4 DEF Connects
          <6>2. b # None => database'[place[b]] = "ready"
            BY <2>3, <4>2, <5>1, <5>4 DEF Migrate, LifecycleInv, TypeOK
          <6>. QED BY <2>3, <5>2, <6>1, <6>2 DEF Migrate, Delivered
        <5>. QED
          BY <4>2, <5>2, <5>3, <5>4, <5>5 DEF Holds, Migrated, Delivered
      <4>. QED BY <4>1, <4>2
    <3>. QED BY <2>3, <3>1, <3>2, <3>3, Preserved DEF Migrate, registry
  <2>4. CASE StepFails(j)
    BY <2>4, NothingMoves, JobGoes, Preserved
    DEF StepFails, Guarded, Migrated, registry
  <2>5. CASE MarkFailed(j)
    <3>1. \A k \in Jobs : Proceeds(k) \/ Freed(k) \/ Holds(k)'
      BY <2>5, JobGoes, JobEnds DEF MarkFailed, Guarded, Migrated
    <3>2. \A r \in Rows : \/ status'[r] = status[r]
                           \/ Fits(r, status'[r])
                           \/ Fits(r, status[r])'
      BY <2>5, TransitionKindFits DEF MarkFailed, Building
    <3>. QED BY <2>5, <3>1, <3>2, NothingMoves, Preserved DEF MarkFailed
  <2>. QED BY <1>1, <2>1, <2>2, <2>3, <2>4, <2>5 DEF RunStep
<1>2. CASE Restart
  <2>1. \A k \in Jobs : Proceeds(k) \/ Freed(k)
    BY <1>2 DEF Restart, Proceeds, Freed
  <2>2. \A k \in Jobs : pending'[k].row = None
    BY <1>2 DEF Restart, NoChange
  <2>. QED BY <1>2, <2>1, <2>2, NothingMoves, Preserved DEF Restart, registry
<1>3. ASSUME NEW r \in Rows, NEW w \in Writes, Route(r, w) \/ Serve(r, w) PROVE LifecycleInv'
  BY <1>3, NothingMoves, JobsStay, Preserved DEF Route, Serve, registry
<1>. QED BY <1>1, <1>2, <1>3

(* The invariant is inductive. *)
THEOREM LifecycleInvariance == Spec => []LifecycleInv
<1>1. Init => LifecycleInv
  <2>1. Init => TypeOK
    BY DEF Init, TypeOK, Statuses, Live, Building, Places, Steps, NoChange
  <2>2. ASSUME Init, NEW r \in Rows PROVE Fits(r, status[r])
    <3>1. CASE status[r] = "absent" BY <3>1 DEF Fits, Building, Live
    <3>2. CASE status[r] = "active" /\ place[r] = Core
      <4>1. Core # None BY DEF Places
      <4>. QED BY <3>2, <4>1 DEF Fits, Delivered, Building
    <3>. QED BY <2>2, <3>1, <3>2 DEF Init
  <2>3. ASSUME Init, NEW j \in Jobs PROVE Holds(j) /\ pending[j].row = None
    BY <2>3 DEF Init, Holds, NoChange, Migrated
  <2>. QED BY <2>1, <2>2, <2>3 DEF LifecycleInv
<1>2. LifecycleInv /\ [Next]_vars => LifecycleInv'
  <2>1. ASSUME LifecycleInv, [Next]_vars PROVE TypeOK'
    BY <2>1, RequestTypes, ScriptTypes, OtherTypes
    DEF Next, LifecycleInv, vars, registry, server, job, TypeOK
  <2>2. LifecycleInv /\ Next => LifecycleInv'
    BY <2>1, RequestKeeps, ScriptKeeps, OthersKeep DEF Next
  <2>3. LifecycleInv /\ UNCHANGED vars => LifecycleInv'
    BY <2>1, NothingMoves, JobsStay, Preserved DEF vars, registry
  <2>. QED BY <2>2, <2>3
<1>. QED BY <1>1, <1>2, PTL DEF Spec

(* A live row's database is migrated and opens to its credential, however  *)
(* many requests, late runs and scripts work on the company's names, and   *)
(* whatever of it is rolled back, killed or refused.                       *)
THEOREM LiveRowsHaveDatabases == Spec => []LiveHasDatabase
<1>1. LifecycleInv => LiveHasDatabase
  BY DEF LifecycleInv, Fits, Live, Delivered, LiveHasDatabase, InPlace
<1>. QED BY <1>1, LifecycleInvariance, PTL
-----------------------------------------------------------------------------
(* What the registry's locks and unique indexes keep true of the rows of   *)
(* one company, committed and not.                                         *)

Unwritten == \A j \in Scripts : pending[j] = NoChange

(* A request writes over a row only what its committed status allows.      *)
Allowed(k) ==
  \/ pending[k] = NoChange
  \/ Purged(k)
  \/ /\ pending[k].row \in Rows
     /\ \/ pending[k].to = "provisioning" /\ status[pending[k].row] \in {"absent", "failed"}
        \/ pending[k].to = "failed" /\ status[pending[k].row] = "absent"
        \/ pending[k].to \in Live /\ status[pending[k].row] \in Live

OneWriter ==
  \A j, k \in Jobs : j # k /\ pending[j].row # None => pending[k].row # pending[j].row

(* A purge is only written when nothing else is, and no other row is left  *)
(* that it does not delete.                                                *)
PurgeAlone ==
  \A k \in Jobs : Purged(k) =>
    /\ \A j \in Jobs \ {k} : pending[j] = NoChange
    /\ \A r \in Rows : status[r] \in Live \cup {"retired"} => r = pending[k].row

GoneForGood ==
  ~company => /\ \A r \in Rows : status[r] = "absent"
              /\ \A k \in Jobs : pending[k] = NoChange \/ Purged(k)

OneLive == \A q, r \in LiveRows : q = r

(* The row exists, or will when its request answers: its place is taken.   *)
Claimed(r) ==
  status[r] # "absent" \/ \E k \in Jobs : pending[k].row = r /\ pending[k].to \in Building

OwnPlaces == \A q, r \in Rows : Claimed(q) /\ Claimed(r) /\ place[q] = place[r] => q = r

BookInv ==
  /\ Unwritten /\ (\A k \in Jobs : Allowed(k)) /\ OneWriter /\ PurgeAlone
  /\ GoneForGood /\ OneLive /\ OwnPlaces

(* The steps of a run, and those of a move.                                *)
Running == {"role", "database", "migrate", "activating", "failing",
            "wiping", "copying", "verifying", "flipping"}
MoveSteps == Running \cup {"suspending", "targeting", "restoring"}

(* What a job has written and holds where it is.                           *)
Asks(j) ==
  /\ at[j] \in {"preparing", "retiring"} => pending[j] = NoChange
  /\ at[j] = "retiring" => saw[j] \in Live
  /\ at[j] \in Decommissioning =>
       pending[j] \in {NoChange, [row |-> src[j], to |-> "decommissioning"]}
  /\ at[j] \in Running => tgt[j] # None
  /\ at[j] \in MoveSteps /\ j \in Scripts => src[j] # None
  /\ Purged(j) => at[j] = "idle"

RegistryInv == BookInv /\ \A j \in Jobs : Asks(j)

(* What a script that has no rival can count on: nothing but its own Flip  *)
(* takes the company out of the source, or puts it into the target.        *)
Moves(j) ==
  /\ at[j] \in MoveSteps \ {"suspending"} => status[src[j]] \in Live
  /\ at[j] \in Running => status[tgt[j]] \in Building

MoveInv == company => \A j \in Scripts : Moves(j)

(* The writes the move answers for.                                        *)
Kept == acked \ late

(* What it has carried over, and that nothing but late writes came since   *)
(* unless the source was resumed.                                          *)
Carries(j) ==
  at[j] \in {"verifying", "flipping"} /\ status[src[j]] = "suspended"
  => Kept \subseteq data[place[tgt[j]]]

NothingParked == \A s \in Servers : ~parked[s]

NoneAsked == \A k \in Jobs : pending[k].to # "suspended"
LiveHold == \A r \in LiveRows : Kept \subseteq data[place[r]]
NoneYet == company /\ LiveRows = {} => Kept = {}
Carried == company => \A j \in Scripts : Carries(j)

WriteInv ==
  /\ NoneAsked
  /\ NothingParked => LiveHold /\ NoneYet /\ Carried

LEMMA PendingTypes ==
  ASSUME TypeOK, NEW k \in Jobs
  PROVE  /\ pending[k].row \in Rows \cup {None}
         /\ pending[k].to \in Statuses \cup {"purged"}
         /\ pending[k] = [row |-> pending[k].row, to |-> pending[k].to]
         /\ pending[k] = NoChange => pending[k].row = None /\ ~Purged(k)
  BY DEF TypeOK, NoChange, Purged

(* A committed transition of a row nobody else has written to.             *)
LEMMA CommitKeeps ==
  ASSUME LifecycleInv, BookInv, NEW r \in Rows, NEW to \in Statuses,
         status' = [status EXCEPT ![r] = to], UNCHANGED <<place, company, pending>>,
         \A k \in Jobs : pending[k].row # r /\ ~Purged(k),
         \/ status[r] \in Live /\ to \in Live
         \/ status[r] \in Building /\ to \in Building
         \/ status[r] \in Building /\ to = "active" /\ LiveRows = {}
  PROVE  BookInv'
<1>1. /\ status'[r] = to
      /\ \A q \in Rows : q # r => status'[q] = status[q]
      /\ status[r] # "absent" /\ to # "absent"
  BY DEF LifecycleInv, TypeOK, Live, Building
<1>2. Unwritten' /\ OneWriter'
  BY DEF BookInv, Unwritten, OneWriter
<1>3. ASSUME NEW k \in Jobs PROVE Allowed(k)'
  BY <1>1 DEF BookInv, Allowed, Purged, NoChange
<1>4. PurgeAlone'
  BY DEF PurgeAlone, Purged
<1>5. GoneForGood'
  BY <1>1 DEF BookInv, GoneForGood
<1>6. OneLive'
  <2>1. LiveRows' \subseteq LiveRows \/ LiveRows' = {r}
    BY <1>1 DEF LiveRows, Live, Building
  <2>. QED BY <2>1 DEF BookInv, OneLive
<1>7. OwnPlaces'
  <2>1. \A q \in Rows : Claimed(q)' => Claimed(q)
    BY <1>1 DEF Claimed
  <2>. QED BY <2>1 DEF BookInv, OwnPlaces
<1>. QED BY <1>2, <1>3, <1>4, <1>5, <1>6, <1>7 DEF BookInv

(* A request that has written nothing writes over a row nobody else has    *)
(* written to.                                                             *)
LEMMA WrittenKeeps ==
  ASSUME LifecycleInv, BookInv, NEW j \in Requests, NEW r \in Rows, NEW to \in Statuses,
         pending' = [pending EXCEPT ![j] = [row |-> r, to |-> to]],
         UNCHANGED registry, pending[j] = NoChange, ~Locked(j, r),
         \/ status[r] = "failed" /\ to = "provisioning"
         \/ status[r] \in Live /\ to \in Live
  PROVE  BookInv'
<1>1. /\ j \in Jobs /\ j \notin Scripts
      /\ pending'[j] = [row |-> r, to |-> to]
      /\ \A k \in Jobs : k # j => pending'[k] = pending[k]
      /\ UNCHANGED <<status, place, company>>
  BY DEF LifecycleInv, TypeOK, Jobs, registry
<1>2. \A k \in Jobs \ {j} : pending[k].row # r /\ ~Purged(k)
  BY DEF Locked
<1>3. to \notin {"purged", "absent"} /\ r # None
  BY DEF Statuses, Live, Building
<1>4. Unwritten'
  BY <1>1 DEF BookInv, Unwritten, Jobs
<1>5. OneWriter'
  BY <1>1, <1>2 DEF BookInv, OneWriter
<1>6. ASSUME NEW k \in Jobs PROVE Allowed(k)'
  BY <1>1, <1>3 DEF BookInv, Allowed, Purged, NoChange
<1>7. PurgeAlone'
  BY <1>1, <1>2, <1>3 DEF PurgeAlone, Purged
<1>8. company
  BY <1>2 DEF BookInv, GoneForGood, Live
<1>9. GoneForGood' /\ OneLive'
  BY <1>1, <1>8 DEF BookInv, GoneForGood, OneLive, LiveRows
<1>10. OwnPlaces'
  <2>1. \A q \in Rows : Claimed(q)' => Claimed(q)
    BY <1>1, <1>3 DEF Claimed, Live
  <2>. QED BY <1>1, <2>1 DEF BookInv, OwnPlaces
<1>. QED BY <1>4, <1>5, <1>6, <1>7, <1>9, <1>10 DEF BookInv

(* What was written is given up. *)
LEMMA DroppedKeeps ==
  ASSUME LifecycleInv, BookInv, UNCHANGED registry,
         \A k \in Jobs : pending'[k] = pending[k] \/ pending'[k] = NoChange
  PROVE  BookInv'
<1>1. UNCHANGED <<status, place, company>>
  BY DEF registry
<1>2. \A k \in Jobs : \/ pending'[k] = pending[k]
                      \/ pending'[k] = NoChange /\ pending'[k].row = None /\ ~Purged(k)'
  BY DEF NoChange, Purged
<1>3. Unwritten'
  BY DEF BookInv, Unwritten, Jobs
<1>4. OneWriter'
  BY <1>2 DEF BookInv, OneWriter
<1>5. ASSUME NEW k \in Jobs PROVE Allowed(k)'
  BY <1>1, <1>2 DEF BookInv, Allowed, Purged
<1>6. PurgeAlone'
  BY <1>1, <1>2 DEF BookInv, PurgeAlone, Purged
<1>7. GoneForGood' /\ OneLive'
  BY <1>1, <1>2 DEF BookInv, GoneForGood, OneLive, LiveRows, Purged
<1>8. OwnPlaces'
  <2>1. \A q \in Rows : Claimed(q)' => Claimed(q)
    BY <1>1, <1>2 DEF Claimed
  <2>. QED BY <1>1, <2>1 DEF BookInv, OwnPlaces
<1>. QED BY <1>3, <1>4, <1>5, <1>6, <1>7, <1>8 DEF BookInv

(* A row is inserted where no row of the company is, with nobody waiting   *)
(* to answer that it inserted one.                                         *)
LEMMA InsertedKeeps ==
  ASSUME LifecycleInv, BookInv, NEW j \in Jobs, NEW s \in Servers, NEW r \in Rows,
         IsNext(r), MayInsert(s), ~InsertWaits(j), pending[j] = NoChange,
         place' = [place EXCEPT ![r] = s], UNCHANGED company,
         \/ /\ status' = [status EXCEPT ![r] = "provisioning"]
            /\ UNCHANGED pending
         \/ /\ j \in Requests /\ UNCHANGED status
            /\ \E to \in Building : pending' = [pending EXCEPT ![j] = [row |-> r, to |-> to]]
  PROVE  BookInv'
<1>1. r # None /\ pending[j].row = None
  BY PendingTypes DEF LifecycleInv
<1>2. /\ status[r] = "absent"
      /\ \A k \in Jobs : pending[k].row # r
  BY <1>1 DEF IsNext, LifecycleInv, Fits, BookInv, Allowed, NoChange, Building, Live, Purged
<1>3. /\ place'[r] = s
      /\ \A q \in Rows : q # r => place'[q] = place[q]
  BY DEF LifecycleInv, TypeOK
<1>4. \A k \in Jobs \ {j} : ~Purged(k)
  BY DEF InsertWaits
<1>5. \A q \in Rows : Claimed(q) => q # r /\ place[q] # s
  <2> SUFFICES ASSUME NEW q \in Rows, Claimed(q) PROVE q # r /\ place[q] # s
    OBVIOUS
  <2>1. CASE status[q] # "absent"
    BY <1>2, <2>1 DEF MayInsert
  <2>2. CASE status[q] = "absent"
    <3>1. PICK k \in Jobs : pending[k].row = q /\ pending[k].to \in Building
      BY <2>2 DEF Claimed
    <3>2. k # j
      BY <1>1, <3>1
    <3>. QED BY <2>2, <3>1, <3>2 DEF InsertWaits
  <2>. QED BY <2>1, <2>2
<1>6. CASE status' = [status EXCEPT ![r] = "provisioning"] /\ UNCHANGED pending
  <2>1. /\ status'[r] = "provisioning"
        /\ \A q \in Rows : q # r => status'[q] = status[q]
    BY <1>6 DEF LifecycleInv, TypeOK
  <2>2. Unwritten' /\ OneWriter'
    BY <1>6 DEF BookInv, Unwritten, OneWriter
  <2>3. ASSUME NEW k \in Jobs PROVE Allowed(k)'
    BY <1>2, <1>6, <2>1 DEF BookInv, Allowed, Purged, NoChange
  <2>4. PurgeAlone'
    BY <1>1, <1>4, <1>6, PendingTypes DEF PurgeAlone, Purged, LifecycleInv
  <2>5. GoneForGood'
    BY DEF MayInsert, GoneForGood
  <2>6. OneLive'
    <3>1. LiveRows' \subseteq LiveRows
      BY <2>1 DEF LiveRows, Live
    <3>. QED BY <3>1 DEF BookInv, OneLive
  <2>7. OwnPlaces'
    <3>1. \A q \in Rows : Claimed(q)' => Claimed(q) \/ q = r
      BY <1>6, <2>1 DEF Claimed
    <3>. QED BY <1>3, <1>5, <3>1 DEF BookInv, OwnPlaces
  <2>. QED BY <2>2, <2>3, <2>4, <2>5, <2>6, <2>7 DEF BookInv
<1>7. ASSUME j \in Requests, UNCHANGED status, NEW to \in Building,
             pending' = [pending EXCEPT ![j] = [row |-> r, to |-> to]]
      PROVE  BookInv'
  <2>1. /\ j \notin Scripts
        /\ pending'[j] = [row |-> r, to |-> to]
        /\ \A k \in Jobs : k # j => pending'[k] = pending[k]
        /\ to # "purged"
    BY <1>7 DEF LifecycleInv, TypeOK, Building
  <2>2. Unwritten'
    BY <2>1 DEF BookInv, Unwritten, Jobs
  <2>3. OneWriter'
    BY <1>2, <2>1 DEF BookInv, OneWriter
  <2>4. ASSUME NEW k \in Jobs PROVE Allowed(k)'
    BY <1>2, <1>7, <2>1 DEF BookInv, Allowed, Purged, NoChange, Building
  <2>5. PurgeAlone'
    BY <1>4, <2>1 DEF PurgeAlone, Purged
  <2>6. GoneForGood' /\ OneLive'
    BY <1>7 DEF MayInsert, GoneForGood, BookInv, OneLive, LiveRows
  <2>7. OwnPlaces'
    <3>1. \A q \in Rows : Claimed(q)' => Claimed(q) \/ q = r
      BY <1>7, <2>1 DEF Claimed
    <3>. QED BY <1>3, <1>5, <3>1 DEF BookInv, OwnPlaces
  <2>. QED BY <2>2, <2>3, <2>4, <2>5, <2>6, <2>7 DEF BookInv
<1>. QED BY <1>6, <1>7

LEMMA AnswerKeeps ==
  ASSUME LifecycleInv, BookInv, NEW j \in Requests, Answer(j)
  PROVE  BookInv'
<1>0. j \in Jobs
  BY DEF Jobs
<1>1. /\ pending'[j] = NoChange /\ pending[j] # NoChange
      /\ \A k \in Jobs : k # j => pending'[k] = pending[k]
      /\ place' = place
  BY <1>0 DEF Answer, LifecycleInv, TypeOK
<1>2. NoChange.row = None /\ NoChange.to = "absent"
  BY DEF NoChange
<1>3. Unwritten' /\ OneWriter'
  <2>1. Unwritten'
    BY <1>1 DEF BookInv, Unwritten, Jobs
  <2>2. \A k \in Jobs : pending'[k].row # None => k # j /\ pending'[k] = pending[k]
    BY <1>1, <1>2
  <2>3. \A k \in Jobs : pending'[k] = pending[k] \/ pending'[k].row = None
    BY <1>1, <1>2
  <2>4. ASSUME NEW i \in Jobs, NEW k \in Jobs, i # k, pending'[i].row # None
        PROVE  pending'[k].row # pending'[i].row
    <3>1. pending[i].row # None /\ pending'[i].row = pending[i].row
      BY <2>2, <2>4
    <3>2. pending[k].row # pending[i].row
      BY <2>4, <3>1 DEF BookInv, OneWriter
    <3>. QED BY <2>3, <2>4, <3>1, <3>2
  <2>. QED BY <2>1, <2>4 DEF OneWriter
<1>4. CASE Purged(j)
  <2>1. \A k \in Jobs : pending'[k] = NoChange
    BY <1>0, <1>1, <1>4 DEF BookInv, PurgeAlone
  <2>2. company' = FALSE
    BY <1>4 DEF Answer
  <2>3. ASSUME NEW r \in Rows PROVE status'[r] = "absent"
    <3>1. status'[r] = IF r = pending[j].row \/ status[r] \in Building
                         THEN "absent" ELSE status[r]
      BY <1>4 DEF Answer
    <3>2. status[r] \in Live \cup {"retired"} => r = pending[j].row
      BY <1>0, <1>4 DEF BookInv, PurgeAlone
    <3>3. status[r] \in Statuses
      BY DEF LifecycleInv, TypeOK
    <3>. QED BY <3>1, <3>2, <3>3 DEF Statuses
  <2>4. \A k \in Jobs : Allowed(k)'
    BY <2>1 DEF Allowed
  <2>5. PurgeAlone' /\ GoneForGood'
    BY <1>2, <2>1, <2>2, <2>3 DEF PurgeAlone, GoneForGood, Purged
  <2>6. OneLive' /\ OwnPlaces'
    BY <1>2, <2>1, <2>3 DEF OneLive, OwnPlaces, LiveRows, Live, Claimed, Building
  <2>. QED BY <1>3, <2>4, <2>5, <2>6 DEF BookInv
<1>5. CASE ~Purged(j)
  <2>1. PICK r \in Rows : r = pending[j].row
    BY <1>0, <1>1, <1>5 DEF BookInv, Allowed
  <2>2. PICK to \in Statuses : to = pending[j].to
    BY <1>0, <1>5, PendingTypes DEF LifecycleInv, Purged
  <2>3. /\ status'[r] = to
        /\ \A q \in Rows : q # r => status'[q] = status[q]
        /\ company' = company
    BY <1>5, <2>1, <2>2 DEF Answer, LifecycleInv, TypeOK
  <2>4. \/ to \in Building /\ status[r] \in {"absent", "failed"}
        \/ to \in Live /\ status[r] \in Live
    BY <1>0, <1>1, <1>5, <2>1, <2>2 DEF BookInv, Allowed, Building
  <2>5. \A k \in Jobs : k # j => pending[k].row # r /\ ~Purged(k)
    BY <1>0, <1>1, <2>1 DEF BookInv, OneWriter, PurgeAlone
  <2>6. company
    BY <1>0, <1>1, <1>5 DEF BookInv, GoneForGood
  <2>7. ASSUME NEW k \in Jobs PROVE Allowed(k)'
    BY <1>0, <1>1, <2>3, <2>5 DEF BookInv, Allowed, Purged
  <2>8. PurgeAlone' /\ GoneForGood'
    BY <1>1, <1>2, <2>3, <2>5, <2>6 DEF PurgeAlone, GoneForGood, Purged
  <2>9. OneLive'
    <3>1. LiveRows' \subseteq LiveRows
      BY <2>3, <2>4 DEF LiveRows, Live, Building
    <3>. QED BY <3>1 DEF BookInv, OneLive
  <2>10. OwnPlaces'
    <3>1. ASSUME NEW q \in Rows, Claimed(q)' PROVE Claimed(q)
      <4>1. CASE q = r
        BY <1>0, <2>1, <2>2, <2>4, <4>1 DEF Claimed, Live
      <4>2. CASE q # r
        BY <1>1, <1>2, <2>3, <3>1, <4>2 DEF Claimed, Building
      <4>. QED BY <4>1, <4>2
    <3>. QED BY <1>1, <3>1 DEF BookInv, OwnPlaces
  <2>. QED BY <1>3, <2>7, <2>8, <2>9, <2>10 DEF BookInv
<1>. QED BY <1>4, <1>5

LEMMA PurgeKeeps ==
  ASSUME LifecycleInv, RegistryInv, NEW j \in Requests, Purge(j)
  PROVE  BookInv'
<1> DEFINE rest == {r \in Rows : View(j, r) \notin Building \cup {"absent"}}
           gone == {r \in rest : r = src[j] /\ View(j, r) = "decommissioning"}
<1>0. j \in Jobs /\ j \notin Scripts
  BY DEF Jobs
<1>1. /\ \A k \in Jobs : k # j => pending[k] = NoChange /\ pending'[k] = NoChange
      /\ UNCHANGED <<status, place, company>>
      /\ \/ pending'[j] = NoChange
         \/ rest = gone /\ pending'[j] = [row |-> src[j], to |-> "purged"]
  BY <1>0 DEF Purge, LifecycleInv, TypeOK, registry
<1>2. NoChange.row = None /\ NoChange.to = "absent"
  BY DEF NoChange
<1>3. pending[j] \in {NoChange, [row |-> src[j], to |-> "decommissioning"]}
  BY <1>0 DEF RegistryInv, Asks, Purge, Decommissioning
<1>4. Unwritten' /\ OneWriter'
  BY <1>0, <1>1, <1>2 DEF RegistryInv, BookInv, Unwritten, OneWriter, Jobs
<1>5. \A k \in Jobs : Allowed(k)'
  BY <1>1 DEF Allowed, Purged
<1>6. PurgeAlone'
  <2> SUFFICES ASSUME rest = gone, pending'[j] = [row |-> src[j], to |-> "purged"],
                      NEW r \in Rows, status[r] \in Live \cup {"retired"}
               PROVE  r = src[j]
    BY <1>1, <1>2 DEF PurgeAlone, Purged
  <2>1. CASE pending[j].row = r
    BY <1>2, <1>3, <2>1
  <2>2. CASE pending[j].row # r
    <3>1. View(j, r) = status[r]
      BY <2>2 DEF View
    <3>2. r \in rest
      BY <3>1 DEF Live, Building
    <3>. QED BY <3>2
  <2>. QED BY <2>1, <2>2
<1>7. GoneForGood' /\ OneLive'
  BY <1>1 DEF RegistryInv, BookInv, GoneForGood, OneLive, LiveRows, Purged
<1>8. OwnPlaces'
  <2>1. \A q \in Rows : Claimed(q)' => Claimed(q)
    BY <1>1, <1>2 DEF Claimed, Building
  <2>. QED BY <1>1, <2>1 DEF RegistryInv, BookInv, OwnPlaces
<1>. QED BY <1>4, <1>5, <1>6, <1>7, <1>8 DEF BookInv

LEMMA FlipKeeps ==
  ASSUME LifecycleInv, RegistryInv, NEW j \in Scripts, Flip(j)
  PROVE  BookInv'
<1>0. j \in Jobs
  BY DEF Jobs
<1>1. PICK a, b \in Rows : a = src[j] /\ b = tgt[j]
  BY <1>0 DEF Flip, RegistryInv, Asks, MoveSteps, Running, LifecycleInv, TypeOK
<1>2. CASE ~(status[a] = "suspended" /\ status[b] = "provisioning")
  <2>1. UNCHANGED registry /\ UNCHANGED pending
    BY <1>1, <1>2 DEF Flip, registry
  <2>. QED BY <2>1, DroppedKeeps DEF RegistryInv
<1>3. CASE status[a] = "suspended" /\ status[b] = "provisioning"
  <2>1. /\ status' = [status EXCEPT ![a] = "retired", ![b] = "active"]
        /\ UNCHANGED <<place, company, pending>>
        /\ ~Locked(j, a) /\ ~Locked(j, b)
    BY <1>1, <1>3 DEF Flip
  <2>2. /\ status'[a] = "retired" /\ status'[b] = "active"
        /\ \A q \in Rows : q # a /\ q # b => status'[q] = status[q]
    BY <1>3, <2>1 DEF LifecycleInv, TypeOK
  <2>3. pending[j] = NoChange
    BY DEF RegistryInv, BookInv, Unwritten
  <2>4. \A k \in Jobs : pending[k].row # a /\ pending[k].row # b /\ ~Purged(k)
    BY <2>1, <2>3 DEF Locked, NoChange, Purged
  <2>5. Unwritten' /\ OneWriter'
    BY <2>1 DEF RegistryInv, BookInv, Unwritten, OneWriter
  <2>6. ASSUME NEW k \in Jobs PROVE Allowed(k)'
    BY <2>1, <2>2, <2>4 DEF RegistryInv, BookInv, Allowed, Purged
  <2>7. PurgeAlone'
    BY <2>1, <2>4 DEF PurgeAlone, Purged
  <2>8. GoneForGood'
    BY <1>3, <2>1 DEF RegistryInv, BookInv, GoneForGood
  <2>9. OneLive'
    <3>1. \A q \in LiveRows : q = a
      BY <1>3 DEF RegistryInv, BookInv, OneLive, LiveRows, Live
    <3>2. \A q \in LiveRows' : q = b
      BY <2>2, <3>1 DEF LiveRows, Live
    <3>. QED BY <3>2 DEF OneLive
  <2>10. OwnPlaces'
    <3>1. \A q \in Rows : Claimed(q)' => Claimed(q)
      BY <1>3, <2>1, <2>2 DEF Claimed
    <3>. QED BY <2>1, <3>1 DEF RegistryInv, BookInv, OwnPlaces
  <2>. QED BY <2>5, <2>6, <2>7, <2>8, <2>9, <2>10 DEF BookInv
<1>. QED BY <1>2, <1>3

(* A committed transition of this step, if it finds its row as it expects. *)
LEMMA TransitionBook ==
  ASSUME LifecycleInv, RegistryInv, NEW j \in Jobs, NEW q \in Rows, NEW from, NEW to \in Statuses,
         Transition(j, q, from, to), UNCHANGED <<place, company, pending>>,
         \/ j \in Scripts
         \/ from = "provisioning" /\ at[j] # "idle",
         \/ from \in Live /\ to \in Live
         \/ from \in Building /\ to \in Building
         \/ from \in Building /\ to = "active" /\ LiveRows = {}
  PROVE  BookInv'
<1>1. CASE status[q] = from
  <2>1. /\ ~Locked(j, q)
        /\ status' = [status EXCEPT ![q] = to]
    BY <1>1 DEF Transition
  <2>2. pending[j].row # q /\ ~Purged(j)
    <3>1. CASE j \in Scripts
      BY <3>1 DEF RegistryInv, BookInv, Unwritten, NoChange, Purged
    <3>2. CASE from = "provisioning" /\ at[j] # "idle"
      <4>1. ~Purged(j)
        BY <3>2 DEF RegistryInv, Asks
      <4>. QED BY <1>1, <3>2, <4>1 DEF RegistryInv, BookInv, Allowed, NoChange, Live
    <3>. QED BY <3>1, <3>2
  <2>3. \A k \in Jobs : pending[k].row # q /\ ~Purged(k)
    BY <2>1, <2>2 DEF Locked
  <2>. QED BY <1>1, <2>1, <2>3, CommitKeeps DEF RegistryInv
<1>2. CASE status[q] # from
  <2>1. UNCHANGED registry
    BY <1>2 DEF Transition, registry
  <2>. QED BY <2>1, DroppedKeeps DEF RegistryInv
<1>. QED BY <1>1, <1>2

LEMMA StatusesMembers ==
  /\ Live \subseteq Statuses /\ Building \subseteq Statuses
  /\ {"active", "suspended", "decommissioning"} \subseteq Live
  /\ {"provisioning", "failed"} \subseteq Building
BY DEF Statuses, Live, Building

(* What every step does to the registry. *)
LEMMA BookKeeps ==
  ASSUME LifecycleInv, RegistryInv, [Next]_vars
  PROVE  BookInv'
<1>1. ASSUME UNCHANGED registry, UNCHANGED pending PROVE BookInv'
  BY <1>1, DroppedKeeps DEF RegistryInv
<1>2. ASSUME NEW j \in Requests, RequestBegins(j) PROVE BookInv'
  <2>1. CASE BeginProvisioning(j) \/ BeginDelete(j)
    BY <1>1, <2>1 DEF BeginProvisioning, BeginDelete
  <2>2. ASSUME NEW verb, Switch(j, verb) PROVE BookInv'
    <3>1. PICK r \in LiveRows, from, to \in Live :
            status[r] = from /\ TransitionInRequest(j, r, from, to)
      BY <2>2 DEF Switch, Live
    <3>2. /\ pending[j] = NoChange /\ UNCHANGED registry
          /\ r \in Rows /\ status[r] \in Live
      BY <2>2 DEF Switch, Ready, LiveRows
    <3>3. View(j, r) = from
      BY <3>1, <3>2 DEF View, NoChange
    <3>4. /\ ~Locked(j, r)
          /\ pending' = [pending EXCEPT ![j] = [row |-> r, to |-> to]]
      BY <3>1, <3>3 DEF TransitionInRequest
    <3>. QED BY <3>2, <3>4, StatusesMembers, WrittenKeeps DEF RegistryInv
  <2>. QED BY <1>2, <2>1, <2>2 DEF RequestBegins
<1>3. ASSUME NEW j \in Requests, ResumeBuilding(j) PROVE BookInv'
  <2>1. UNCHANGED registry /\ tgt[j] \in Rows /\ pending[j] = NoChange /\ j \in Jobs
    BY <1>3 DEF ResumeBuilding, LifecycleInv, TypeOK, Jobs, RegistryInv, Asks
  <2>2. CASE pending' = pending
    BY <1>1, <2>1, <2>2
  <2>3. CASE pending' # pending
    <3>1. TransitionInRequest(j, tgt[j], "failed", "provisioning")
      BY <1>3, <2>3 DEF ResumeBuilding
    <3>2. /\ View(j, tgt[j]) = "failed" /\ ~Locked(j, tgt[j])
          /\ pending' = [pending EXCEPT ![j] = [row |-> tgt[j], to |-> "provisioning"]]
      BY <2>3, <3>1 DEF TransitionInRequest
    <3>3. status[tgt[j]] = "failed"
      BY <2>1, <3>2 DEF View, NoChange
    <3>. QED BY <2>1, <3>2, <3>3, StatusesMembers, WrittenKeeps DEF RegistryInv
  <2>. QED BY <2>2, <2>3
<1>4. ASSUME NEW j \in Requests, NEW s \in Servers, CreateRow(j, s) PROVE BookInv'
  <2>1. j \in Jobs /\ pending[j] = NoChange /\ UNCHANGED <<status, company>> /\ ~InsertWaits(j)
    BY <1>4 DEF CreateRow, Jobs, RegistryInv, Asks
  <2>2. CASE ~MayInsert(s)
    BY <1>1, <1>4, <2>2 DEF CreateRow, registry
  <2>3. CASE MayInsert(s)
    <3>1. PICK r \in Rows :
            /\ IsNext(r)
            /\ place' = [place EXCEPT ![r] = s]
            /\ pending' = [pending EXCEPT ![j] =
                 [row |-> r, to |-> IF Collides(s) THEN "failed" ELSE "provisioning"]]
      BY <1>4, <2>3 DEF CreateRow
    <3>2. \E to \in Building : pending' = [pending EXCEPT ![j] = [row |-> r, to |-> to]]
      BY <3>1 DEF Building
    <3>. QED BY <2>1, <2>3, <3>1, <3>2, InsertedKeeps DEF RegistryInv
  <2>. QED BY <2>2, <2>3
<1>5. ASSUME NEW j \in Requests, Activate(j) PROVE BookInv'
  <2>1. j \in Jobs /\ tgt[j] \in Rows /\ UNCHANGED <<place, company, pending>> /\ at[j] # "idle"
    BY <1>5 DEF Activate, Jobs, RegistryInv, Asks, Running, LifecycleInv, TypeOK
  <2>2. CASE UNCHANGED status
    BY <1>1, <2>1, <2>2 DEF registry
  <2>3. CASE status' # status
    <3>1. Transition(j, tgt[j], "provisioning", "active")
      BY <1>5, <2>3 DEF Activate
    <3>2. status[tgt[j]] = "provisioning"
      BY <2>3, <3>1 DEF Transition
    <3>3. LiveRows = {}
      BY <1>5, <2>3, <3>2 DEF Activate
    <3>. QED BY <2>1, <3>1, <3>3, StatusesMembers, TransitionBook
  <2>. QED BY <2>2, <2>3
<1>6. ASSUME NEW j \in Jobs, MarkFailed(j) PROVE BookInv'
  <2>1. tgt[j] \in Rows /\ UNCHANGED <<place, company, pending>> /\ at[j] # "idle"
    BY <1>6 DEF MarkFailed, RegistryInv, Asks, Running, LifecycleInv, TypeOK
  <2>. QED BY <1>6, <2>1, StatusesMembers, TransitionBook DEF MarkFailed
<1>7. ASSUME NEW j \in Requests, Retire(j) PROVE BookInv'
  <2>1. /\ UNCHANGED registry /\ src[j] \in Rows /\ pending[j] = NoChange /\ j \in Jobs
        /\ saw[j] \in Live
    BY <1>7 DEF Retire, LifecycleInv, Holds, TypeOK, Jobs, RegistryInv, Asks
  <2>2. CASE pending' = pending
    BY <1>1, <2>1, <2>2
  <2>3. CASE pending' # pending
    <3>1. TransitionInRequest(j, src[j], saw[j], "decommissioning")
      BY <1>7, <2>3 DEF Retire
    <3>2. /\ View(j, src[j]) = saw[j] /\ ~Locked(j, src[j])
          /\ pending' = [pending EXCEPT ![j] = [row |-> src[j], to |-> "decommissioning"]]
      BY <2>3, <3>1 DEF TransitionInRequest
    <3>3. status[src[j]] \in Live
      BY <2>1, <3>2 DEF View, NoChange
    <3>. QED BY <2>1, <3>2, <3>3, StatusesMembers, WrittenKeeps DEF RegistryInv
  <2>. QED BY <2>2, <2>3
<1>8. ASSUME NEW j \in Requests, RollBack(j) \/ RequestFails(j) PROVE BookInv'
  <2>1. UNCHANGED registry /\ \A k \in Jobs : pending'[k] = pending[k] \/ pending'[k] = NoChange
    BY <1>8 DEF RollBack, RequestFails, LifecycleInv, TypeOK
  <2>. QED BY <2>1, DroppedKeeps DEF RegistryInv
<1>9. CASE Restart
  <2>1. UNCHANGED registry /\ \A k \in Jobs : pending'[k] = NoChange
    BY <1>9 DEF Restart
  <2>. QED BY <2>1, DroppedKeeps DEF RegistryInv
<1>10. ASSUME NEW j \in Scripts, Suspend(j) PROVE BookInv'
  <2>1. j \in Jobs /\ src[j] \in Rows
    BY <1>10 DEF Suspend, Jobs, RegistryInv, Asks, MoveSteps, LifecycleInv, TypeOK
  <2>. QED BY <1>10, <2>1, StatusesMembers, TransitionBook DEF Suspend
<1>11. ASSUME NEW j \in Scripts, Restore(j) PROVE BookInv'
  <2>1. j \in Jobs /\ src[j] \in Rows
    BY <1>11 DEF Restore, Jobs, RegistryInv, Asks, MoveSteps, LifecycleInv, TypeOK
  <2>. QED BY <1>11, <2>1, StatusesMembers, TransitionBook DEF Restore
<1>12. ASSUME NEW j \in Scripts, NEW s \in Servers, TakeTarget(j, s) PROVE BookInv'
  <2>1. j \in Jobs /\ UNCHANGED <<place, company, pending>>
    BY <1>12 DEF TakeTarget, Jobs
  <2>2. CASE UNCHANGED status
    BY <1>1, <2>1, <2>2 DEF registry
  <2>3. CASE status' # status
    <3>1. PICK b \in BuildingRows : Transition(j, b, "failed", "provisioning")
      BY <1>12, <2>3 DEF TakeTarget
    <3>2. b \in Rows
      BY DEF BuildingRows
    <3>. QED BY <2>1, <3>1, <3>2, StatusesMembers, TransitionBook
  <2>. QED BY <2>2, <2>3
<1>13. ASSUME NEW j \in Scripts, NEW s \in Servers, CreateTarget(j, s) PROVE BookInv'
  <2>1. j \in Jobs /\ pending[j] = NoChange /\ UNCHANGED <<pending, company>> /\ ~InsertWaits(j)
    BY <1>13 DEF CreateTarget, Jobs, RegistryInv, BookInv, Unwritten
  <2>2. CASE Collides(s) \/ ~MayInsert(s)
    BY <1>1, <1>13, <2>2 DEF CreateTarget, registry
  <2>3. CASE ~Collides(s) /\ MayInsert(s)
    <3>1. PICK r \in Rows : /\ IsNext(r)
                            /\ place' = [place EXCEPT ![r] = s]
                            /\ status' = [status EXCEPT ![r] = "provisioning"]
      BY <1>13, <2>3 DEF CreateTarget
    <3>. QED BY <2>1, <2>3, <3>1, InsertedKeeps DEF RegistryInv
  <2>. QED BY <2>2, <2>3
<1>14. ASSUME NEW j \in Scripts,
              BeginMove(j) \/ Wipe(j) \/ Copy(j) \/ Verify(j) \/ Die(j)
       PROVE  BookInv'
  BY <1>1, <1>14 DEF BeginMove, Wipe, Copy, Verify, Die
<1>15. ASSUME NEW j \in Jobs,
              EnsureRole(j) \/ EnsureDatabase(j) \/ Migrate(j) \/ StepFails(j)
       PROVE  BookInv'
  BY <1>1, <1>15 DEF EnsureRole, EnsureDatabase, Migrate, StepFails
<1>16. ASSUME NEW j \in Requests, Park(j) \/ Revoke(j) PROVE BookInv'
  BY <1>1, <1>16 DEF Park, Revoke
<1>17. ASSUME NEW r \in Rows, NEW w \in Writes, Route(r, w) \/ Serve(r, w) PROVE BookInv'
  BY <1>1, <1>17 DEF Route, Serve
<1>18. CASE UNCHANGED vars
  BY <1>1, <1>18 DEF vars
<1>. QED
  BY <1>2, <1>3, <1>4, <1>5, <1>6, <1>7, <1>8, <1>9, <1>10, <1>11, <1>12, <1>13,
     <1>14, <1>15, <1>16, <1>17, <1>18, AnswerKeeps, PurgeKeeps, FlipKeeps
  DEF RegistryInv, Next, Provisioning, Deleting, Moving, RunStep

(* What every step does to what the jobs hold.                             *)
LEMMA AsksKeeps ==
  ASSUME LifecycleInv, RegistryInv, [Next]_vars, NEW k \in Jobs
  PROVE  Asks(k)'
<1>0. Asks(k) /\ TypeOK
  BY DEF RegistryInv, LifecycleInv
<1>1. ASSUME at'[k] = at[k], src'[k] = src[k], tgt'[k] = tgt[k], saw'[k] = saw[k],
             pending'[k] = pending[k] \/ pending'[k] = NoChange
      PROVE  Asks(k)'
  BY <1>0, <1>1 DEF Asks, Purged, NoChange
<1>2. ASSUME NEW j \in Jobs, Done(j), \A i \in Jobs \ {j} : pending'[i] = pending[i]
      PROVE  Asks(k)'
  <2>1. CASE k = j
    BY <1>0, <1>2, <2>1 DEF Done, Go, TypeOK, Asks, Decommissioning, Running, MoveSteps
  <2>2. CASE k # j
    BY <1>0, <1>1, <1>2, <2>2 DEF Done, Go, TypeOK
  <2>. QED BY <2>1, <2>2
<1>3. ASSUME NEW j \in Jobs, k # j, NEW step, Go(j, step),
             \A i \in Jobs \ {j} : /\ src'[i] = src[i] /\ tgt'[i] = tgt[i] /\ saw'[i] = saw[i]
                                   /\ pending'[i] = pending[i]
      PROVE  Asks(k)'
  BY <1>0, <1>1, <1>3 DEF Go, TypeOK
<1>4. ASSUME NEW j \in Requests, RequestBegins(j) PROVE Asks(k)'
  <2>0. j \in Jobs /\ j \notin Scripts
    BY DEF Jobs
  <2>1. CASE BeginProvisioning(j)
    BY <1>0, <1>1, <2>0, <2>1
    DEF BeginProvisioning, Go, Ready, TypeOK, Asks, Decommissioning, Running, MoveSteps, Purged, NoChange
  <2>2. CASE BeginDelete(j)
    <3>1. CASE LiveRows = {}
      BY <1>0, <1>1, <2>0, <2>2, <3>1
      DEF BeginDelete, Go, Ready, TypeOK, Asks, Decommissioning, Running, MoveSteps, Purged, NoChange
    <3>2. CASE LiveRows # {}
      BY <1>0, <1>1, <2>0, <2>2, <3>2
      DEF BeginDelete, Go, Ready, TypeOK, Asks, Decommissioning, Running, MoveSteps, Purged, NoChange, LiveRows
    <3>. QED BY <3>1, <3>2
  <2>3. ASSUME NEW verb, Switch(j, verb) PROVE Asks(k)'
    <3>1. UNCHANGED job /\ at[j] = "idle" /\ \A i \in Jobs \ {j} : pending'[i] = pending[i]
      BY <1>0, <2>3 DEF Switch, TransitionInRequest, Ready, TypeOK
    <3>. QED BY <1>0, <1>1, <2>0, <3>1
         DEF job, Asks, Decommissioning, Running, MoveSteps
  <2>. QED BY <1>4, <2>1, <2>2, <2>3 DEF RequestBegins
<1>5. ASSUME NEW j \in Requests, ResumeBuilding(j) PROVE Asks(k)'
  <2>0. j \in Jobs /\ j \notin Scripts
    BY DEF Jobs
  <2>1. \A i \in Jobs \ {j} : pending'[i] = pending[i]
    BY <1>0, <1>5 DEF ResumeBuilding, TransitionInRequest, TypeOK
  <2>2. CASE Done(j)
    BY <1>2, <2>0, <2>1, <2>2
  <2>3. CASE Go(j, "role") /\ UNCHANGED <<src, tgt, saw>>
    <3>1. CASE k = j
      <4>1. ~Purged(j)' /\ tgt[j] # None
        <5>1. pending[j] = NoChange /\ tgt[j] # None
          BY <1>0, <1>5, <3>1 DEF ResumeBuilding, Asks
        <5>2. \/ pending'[j] = NoChange
              \/ pending'[j] = [row |-> tgt[j], to |-> "provisioning"]
          BY <1>0, <1>5, <2>0, <5>1 DEF ResumeBuilding, TransitionInRequest, TypeOK
        <5>. QED BY <5>1, <5>2 DEF Purged, NoChange
      <4>. QED BY <1>0, <2>0, <2>3, <3>1, <4>1
           DEF Go, TypeOK, Asks, Decommissioning, Running, MoveSteps, Purged
    <3>2. CASE k # j
      BY <1>3, <2>0, <2>1, <2>3, <3>2
    <3>. QED BY <3>1, <3>2
  <2>. QED BY <1>5, <2>2, <2>3 DEF ResumeBuilding
<1>6. ASSUME NEW j \in Requests, NEW s \in Servers, CreateRow(j, s) PROVE Asks(k)'
  <2>0. j \in Jobs /\ j \notin Scripts
    BY DEF Jobs
  <2>1. \A i \in Jobs \ {j} : pending'[i] = pending[i]
    BY <1>0, <1>6 DEF CreateRow, TypeOK
  <2>2. CASE Done(j)
    BY <1>2, <2>0, <2>1, <2>2
  <2>3. CASE ~Done(j)
    <3>1. PICK r \in Rows : /\ tgt' = [tgt EXCEPT ![j] = r]
                            /\ Go(j, "role")
                            /\ UNCHANGED <<src, saw>>
                            /\ pending' = [pending EXCEPT ![j] = [row |-> r, to |-> "provisioning"]]
      BY <1>6, <2>3 DEF CreateRow
    <3>2. CASE k = j
      BY <1>0, <2>0, <3>1, <3>2 DEF Go, TypeOK, Asks, Decommissioning, Running, MoveSteps, Purged
    <3>3. CASE k # j
      BY <1>0, <1>3, <2>0, <2>1, <3>1, <3>3 DEF TypeOK
    <3>. QED BY <3>2, <3>3
  <2>. QED BY <2>2, <2>3
<1>7. ASSUME NEW j \in Jobs,
             Activate(j) \/ MarkFailed(j) \/ Suspend(j) \/ Restore(j) \/ Wipe(j) \/ Copy(j)
             \/ Verify(j) \/ Flip(j) \/ Die(j)
             \/ EnsureRole(j) \/ EnsureDatabase(j) \/ Migrate(j) \/ StepFails(j)
             \/ Park(j) \/ Revoke(j)
      PROVE  Asks(k)'
  <2>1. UNCHANGED pending
    BY <1>7 DEF Activate, MarkFailed, Suspend, Restore, Wipe, Copy, Verify, Flip, Die,
                EnsureRole, EnsureDatabase, Migrate, StepFails, Park, Revoke
  <2>2. CASE Done(j)
    BY <1>2, <2>1, <2>2
  <2>3. CASE ~Done(j)
    <3>1. /\ UNCHANGED <<src, tgt, saw>>
          /\ \/ at[j] \in Running \cup {"suspending"}
                /\ \E step \in MoveSteps : /\ Go(j, step)
                                           /\ step \in Running => at[j] \in Running
             \/ \E step \in {"revoking", "purging"} : Go(j, step) /\ at[j] \in Decommissioning
      BY <1>7, <2>3 DEF Activate, MarkFailed, Suspend, Restore, Wipe, Copy, Verify, Flip, Die,
                EnsureRole, EnsureDatabase, Migrate, StepFails, Park, Revoke, Running, MoveSteps,
                Decommissioning
    <3>2. CASE k = j
      BY <1>0, <2>1, <3>1, <3>2 DEF Go, TypeOK, Asks, Decommissioning, Running, MoveSteps, Purged
    <3>3. CASE k # j
      BY <1>3, <2>1, <3>1, <3>3
    <3>. QED BY <3>2, <3>3
  <2>. QED BY <2>2, <2>3
<1>8. ASSUME NEW j \in Requests, Retire(j) PROVE Asks(k)'
  <2>0. j \in Jobs /\ j \notin Scripts /\ pending[j] = NoChange
    BY <1>0, <1>8 DEF Jobs, Retire, RegistryInv, Asks
  <2>1. /\ \A i \in Jobs \ {j} : pending'[i] = pending[i]
        /\ pending'[j] \in {NoChange, [row |-> src[j], to |-> "decommissioning"]}
    BY <1>0, <1>8, <2>0 DEF Retire, TransitionInRequest, TypeOK
  <2>2. PICK step \in {"parking", "purging"} : Go(j, step) /\ UNCHANGED <<src, tgt, saw>>
    BY <1>8 DEF Retire
  <2>3. CASE k = j
    BY <1>0, <2>0, <2>1, <2>2, <2>3
    DEF Go, TypeOK, Asks, Decommissioning, Running, MoveSteps, Purged, NoChange
  <2>4. CASE k # j
    BY <1>3, <2>0, <2>1, <2>2, <2>4
  <2>. QED BY <2>3, <2>4
<1>9. ASSUME NEW j \in Requests, Purge(j) \/ RequestFails(j) PROVE Asks(k)'
  <2>1. j \in Jobs /\ Done(j) /\ \A i \in Jobs \ {j} : pending'[i] = pending[i]
    BY <1>0, <1>9 DEF Purge, RequestFails, TypeOK, Jobs
  <2>. QED BY <1>2, <2>1
<1>10. ASSUME NEW j \in Requests, Answer(j) \/ RollBack(j) PROVE Asks(k)'
  <2>1. UNCHANGED job /\ (pending'[k] = pending[k] \/ pending'[k] = NoChange)
    BY <1>0, <1>10 DEF Answer, RollBack, TypeOK
  <2>. QED BY <1>1, <2>1 DEF job
<1>11. CASE Restart
  <2>1. pending'[k] = NoChange
    BY <1>11 DEF Restart
  <2>2. CASE k \in Requests
    BY <1>11, <2>1, <2>2
    DEF Restart, Asks, Decommissioning, Running, MoveSteps, Purged, NoChange
  <2>3. CASE k \notin Requests
    BY <1>1, <1>11, <2>1, <2>3 DEF Restart
  <2>. QED BY <2>2, <2>3
<1>12. ASSUME NEW j \in Scripts, BeginMove(j) PROVE Asks(k)'
  <2>0. j \in Jobs /\ UNCHANGED <<pending, tgt, saw>> /\ ~Purged(j)
    BY <1>12 DEF Jobs, BeginMove, RegistryInv, BookInv, Unwritten, Purged, NoChange
  <2>1. PICK r \in Rows, step \in {"suspending", "targeting"} :
          src' = [src EXCEPT ![j] = r] /\ Go(j, step)
    BY <1>12 DEF BeginMove, LiveRows
  <2>2. CASE k = j
    BY <1>0, <2>0, <2>1, <2>2
    DEF Go, TypeOK, Asks, Decommissioning, Running, MoveSteps, Purged
  <2>3. CASE k # j
    BY <1>0, <1>3, <2>0, <2>1, <2>3 DEF TypeOK
  <2>. QED BY <2>2, <2>3
<1>13. ASSUME NEW j \in Scripts, NEW s \in Servers, TakeTarget(j, s) \/ CreateTarget(j, s)
       PROVE  Asks(k)'
  <2>0. j \in Jobs /\ UNCHANGED pending /\ at[j] = "targeting"
    BY <1>13 DEF Jobs, TakeTarget, CreateTarget
  <2>1. CASE Done(j)
    BY <1>2, <2>0, <2>1
  <2>2. CASE Go(j, "restoring") /\ UNCHANGED <<tgt, src, saw>>
    <3>1. CASE k = j
      BY <1>0, <2>0, <2>2, <3>1
      DEF Go, TypeOK, Asks, Decommissioning, Running, MoveSteps, Purged
    <3>2. CASE k # j
      BY <1>3, <2>0, <2>2, <3>2
    <3>. QED BY <3>1, <3>2
  <2>3. ASSUME NEW b \in Rows, tgt' = [tgt EXCEPT ![j] = b], Go(j, "role"),
               UNCHANGED <<src, saw>>
        PROVE  Asks(k)'
    <3>1. CASE k = j
      BY <1>0, <2>0, <2>3, <3>1
      DEF Go, TypeOK, Asks, Decommissioning, Running, MoveSteps, Purged
    <3>2. CASE k # j
      BY <1>0, <1>3, <2>0, <2>3, <3>2 DEF TypeOK
    <3>. QED BY <3>1, <3>2
  <2>. QED BY <1>13, <2>1, <2>2, <2>3 DEF TakeTarget, CreateTarget, BuildingRows
<1>14. ASSUME NEW r \in Rows, NEW w \in Writes, Route(r, w) \/ Serve(r, w) PROVE Asks(k)'
  BY <1>1, <1>14 DEF Route, Serve, job
<1>15. CASE UNCHANGED vars
  BY <1>1, <1>15 DEF vars, job
<1>. QED
  BY <1>4, <1>5, <1>6, <1>7, <1>8, <1>9, <1>10, <1>11, <1>12, <1>13, <1>14, <1>15
  DEF Next, Provisioning, Deleting, Moving, RunStep, Jobs

(* The registry's locks and indexes hold through every step: at any time   *)
(* one row of the company is live, no two rows share a place, and a purge  *)
(* stands alone.                                                           *)
THEOREM RegistryInvariance == Spec => []RegistryInv
<1>1. Init => RegistryInv
  <2>1. ASSUME Init PROVE BookInv
    <3>1. /\ \A k \in Jobs : pending[k] = NoChange /\ ~Purged(k) /\ pending[k].row = None
          /\ company
      BY <2>1 DEF Init, NoChange, Purged
    <3>2. OneLive
      BY <2>1 DEF Init, OneLive, LiveRows, Live
    <3>3. OwnPlaces
      <4>1. \A q, r \in Rows : status[q] # "absent" /\ status[r] # "absent" => q = r
        BY <2>1 DEF Init
      <4>. QED BY <3>1, <4>1 DEF OwnPlaces, Claimed
    <3>. QED BY <3>1, <3>2, <3>3
         DEF BookInv, Unwritten, Allowed, OneWriter, PurgeAlone, GoneForGood, Jobs
  <2>2. ASSUME Init, NEW k \in Jobs PROVE Asks(k)
    BY <2>2 DEF Init, Asks, Decommissioning, Running, MoveSteps, Purged, NoChange
  <2>. QED BY <2>1, <2>2 DEF RegistryInv
<1>2. LifecycleInv /\ RegistryInv /\ [Next]_vars => RegistryInv'
  BY BookKeeps, AsksKeeps DEF RegistryInv, Jobs
<1>. QED BY <1>1, <1>2, LifecycleInvariance, PTL DEF Spec

-----------------------------------------------------------------------------
(* One script at a time moves the company.                                 *)
OneScript == \A i, j \in Scripts : i = j

(* What a step may do to the statuses, a flip apart: a live row stays      *)
(* live, beside a live row a building one stays building, and no row       *)
(* becomes live beside another.                                            *)
KindsKeep ==
  \A r \in Rows :
    /\ status[r] \in Live => status'[r] \in Live
    /\ LiveRows # {} /\ status[r] \in Building => status'[r] \in Building
    /\ status'[r] \in Live => status[r] \in Live \/ LiveRows = {}

LEMMA TransitionKinds ==
  ASSUME LifecycleInv, NEW j, NEW q \in Rows, NEW from, NEW to, Transition(j, q, from, to),
         \/ from \in Live /\ to \in Live
         \/ from \in Building /\ to \in Building
  PROVE  KindsKeep
  BY DEF Transition, KindsKeep, LifecycleInv, TypeOK, Live, Building

LEMMA KindsKept ==
  ASSUME LifecycleInv, RegistryInv, [Next]_vars, company', \A j \in Scripts : ~Flip(j)
  PROVE  company /\ KindsKeep
<1>0. TypeOK /\ BookInv
  BY DEF LifecycleInv, RegistryInv
<1>a. ASSUME UNCHANGED status PROVE KindsKeep
  BY <1>a DEF KindsKeep
<1>1. CASE UNCHANGED <<status, company>>
  BY <1>1, <1>a
<1>2. ASSUME NEW j \in Requests, Answer(j) PROVE company /\ KindsKeep
  <2>0. j \in Jobs
    BY DEF Jobs
  <2>1. company /\ ~Purged(j)
    BY <1>2 DEF Answer
  <2>2. \A r \in Rows : status'[r] = IF r = pending[j].row THEN pending[j].to ELSE status[r]
    BY <1>2, <2>1 DEF Answer
  <2>3. Allowed(j) /\ pending[j] # NoChange
    BY <1>0, <1>2, <2>0 DEF BookInv, Answer
  <2>4. \/ pending[j].to \in Building /\ status[pending[j].row] \in Building \cup {"absent"}
        \/ pending[j].to \in Live /\ status[pending[j].row] \in Live
    BY <2>1, <2>3, StatusesMembers DEF Allowed, Building
  <2>5. Live \cap (Building \cup {"absent"}) = {}
    BY DEF Live, Building
  <2>. QED BY <2>1, <2>2, <2>4, <2>5 DEF KindsKeep
<1>3. ASSUME NEW j \in Requests, Activate(j) PROVE company /\ KindsKeep
  <2>1. company = company' /\ (LiveRows # {} => UNCHANGED status)
    BY <1>3 DEF Activate, Transition
  <2>2. \A r \in Rows : status[r] \in Live => LiveRows # {}
    BY DEF LiveRows
  <2>3. CASE LiveRows # {}
    BY <1>a, <2>1, <2>3
  <2>4. CASE LiveRows = {}
    BY <2>1, <2>2, <2>4 DEF KindsKeep
  <2>. QED BY <2>1, <2>3, <2>4
<1>4. ASSUME NEW j \in Jobs, MarkFailed(j) PROVE company /\ KindsKeep
  <2>1. tgt[j] \in Rows /\ company = company' /\ Transition(j, tgt[j], "provisioning", "failed")
    BY <1>0, <1>4 DEF MarkFailed, RegistryInv, Asks, Running, TypeOK
  <2>. QED BY <2>1, TransitionKinds, StatusesMembers
<1>5. ASSUME NEW j \in Scripts, Suspend(j) \/ Restore(j) PROVE company /\ KindsKeep
  <2>1. j \in Jobs /\ src[j] \in Rows /\ company = company'
    BY <1>0, <1>5 DEF Suspend, Restore, RegistryInv, Asks, MoveSteps, TypeOK, Jobs
  <2>2. \E from, to \in Live : Transition(j, src[j], from, to)
    BY <1>5, StatusesMembers DEF Suspend, Restore
  <2>. QED BY <2>1, <2>2, TransitionKinds
<1>6. ASSUME NEW j \in Scripts, NEW s \in Servers, TakeTarget(j, s) PROVE company /\ KindsKeep
  <2>1. PICK b \in Rows : UNCHANGED status \/ Transition(j, b, "failed", "provisioning")
    BY <1>6 DEF TakeTarget, BuildingRows
  <2>2. company = company'
    BY <1>6 DEF TakeTarget
  <2>. QED BY <1>a, <2>1, <2>2, TransitionKinds, StatusesMembers
<1>7. ASSUME NEW j \in Scripts, NEW s \in Servers, CreateTarget(j, s) PROVE company /\ KindsKeep
  <2>1. company = company'
    BY <1>7 DEF CreateTarget
  <2>2. ASSUME NEW r \in Rows, IsNext(r), status' = [status EXCEPT ![r] = "provisioning"]
        PROVE  KindsKeep
    <3>1. status[r] = "absent"
      BY <2>2 DEF IsNext, LifecycleInv, Fits
    <3>. QED BY <1>0, <2>2, <3>1 DEF KindsKeep, TypeOK, Live, Building
  <2>. QED BY <1>7, <1>a, <2>1, <2>2 DEF CreateTarget
<1>8. ASSUME NEW j \in Requests, RequestBegins(j) PROVE UNCHANGED <<status, company>>
  BY <1>8 DEF RequestBegins, BeginProvisioning, Switch, BeginDelete, registry
<1>9. ASSUME NEW j \in Requests,
             ResumeBuilding(j) \/ (\E s \in Servers : CreateRow(j, s)) \/ Deleting(j)
             \/ RollBack(j) \/ RequestFails(j)
      PROVE  UNCHANGED <<status, company>>
  BY <1>9 DEF ResumeBuilding, CreateRow, Deleting, Retire, Park, Revoke, Purge, RollBack,
              RequestFails, registry
<1>10. ASSUME NEW j \in Scripts, BeginMove(j) \/ Wipe(j) \/ Copy(j) \/ Verify(j) \/ Die(j)
       PROVE  UNCHANGED <<status, company>>
  BY <1>10 DEF BeginMove, Wipe, Copy, Verify, Die, registry
<1>11. ASSUME NEW j \in Jobs, EnsureRole(j) \/ EnsureDatabase(j) \/ Migrate(j) \/ StepFails(j)
       PROVE  UNCHANGED <<status, company>>
  BY <1>11 DEF EnsureRole, EnsureDatabase, Migrate, StepFails, registry
<1>12. ASSUME \/ Restart
              \/ \E r \in Rows, w \in Writes : Route(r, w) \/ Serve(r, w)
              \/ UNCHANGED vars
       PROVE  UNCHANGED <<status, company>>
  BY <1>12 DEF Restart, Route, Serve, vars, registry
<1>. QED
  BY <1>1, <1>2, <1>3, <1>4, <1>5, <1>6, <1>7, <1>8, <1>9, <1>10, <1>11, <1>12
  DEF Next, Provisioning, Moving, RunStep

(* Nobody but a job itself moves it, a crash of the requests apart.        *)
LEMMA ScriptStays ==
  ASSUME LifecycleInv, NEW j \in Scripts, NEW i \in Jobs, i # j,
         \/ i \in Requests /\ (\/ RequestBegins(i) \/ Provisioning(i) \/ Deleting(i)
                               \/ Answer(i) \/ RollBack(i) \/ RequestFails(i))
         \/ RunStep(i)
  PROVE  at'[j] = at[j] /\ src'[j] = src[j] /\ tgt'[j] = tgt[j]
<1>0. TypeOK /\ j \in Jobs
  BY DEF LifecycleInv, Jobs
<1>1. ASSUME NEW step, Go(i, step) PROVE at'[j] = at[j]
  BY <1>0, <1>1 DEF Go, TypeOK
<1>2. ASSUME Done(i) PROVE at'[j] = at[j] /\ src'[j] = src[j] /\ tgt'[j] = tgt[j]
  BY <1>0, <1>2 DEF Done, Go, TypeOK
<1>3. CASE RunStep(i)
  BY <1>1, <1>2, <1>3 DEF RunStep, EnsureRole, EnsureDatabase, Migrate, StepFails, MarkFailed
<1>4. CASE RequestBegins(i)
  <2>1. CASE BeginProvisioning(i)
    BY <1>0, <1>1, <2>1 DEF BeginProvisioning, TypeOK
  <2>2. CASE BeginDelete(i)
    BY <1>0, <1>1, <2>2 DEF BeginDelete, TypeOK
  <2>3. CASE UNCHANGED job
    BY <2>3 DEF job
  <2>. QED BY <1>4, <2>1, <2>2, <2>3 DEF RequestBegins, Switch
<1>5. CASE Provisioning(i)
  <2>1. CASE ResumeBuilding(i) \/ Activate(i)
    BY <1>1, <1>2, <2>1 DEF ResumeBuilding, Activate
  <2>2. ASSUME NEW s \in Servers, CreateRow(i, s)
        PROVE  at'[j] = at[j] /\ src'[j] = src[j] /\ tgt'[j] = tgt[j]
    BY <1>0, <1>1, <1>2, <2>2 DEF CreateRow, TypeOK
  <2>. QED BY <1>5, <2>1, <2>2 DEF Provisioning
<1>6. CASE Deleting(i) \/ Answer(i) \/ RollBack(i) \/ RequestFails(i)
  BY <1>1, <1>2, <1>6 DEF Deleting, Retire, Park, Revoke, Purge, Answer, RollBack, RequestFails, job
<1>. QED BY <1>3, <1>4, <1>5, <1>6

(* Past the copy. *)
Carrying == {"verifying", "flipping"}

(* What the script goes on to.                                             *)
ScriptGoesOn(j) ==
  \/ at'[j] = at[j] /\ src'[j] = src[j] /\ tgt'[j] = tgt[j]
  \/ /\ src'[j] = src[j] /\ tgt'[j] = tgt[j]
     /\ at[j] \in Running /\ at'[j] \in MoveSteps \ {"suspending"}
     /\ at'[j] \in Carrying => Copy(j) \/ Verify(j)
  \/ at'[j] \notin MoveSteps \ {"suspending"}
  \/ at'[j] = "restoring" /\ src'[j] = src[j] /\ at[j] = "targeting"
  \/ at'[j] = "targeting" /\ src'[j] \in Rows /\ status'[src'[j]] = "suspended"
  \/ /\ at'[j] = "role" /\ at[j] = "targeting" /\ src'[j] = src[j]
     /\ tgt'[j] \in Rows /\ status'[tgt'[j]] \in Building

LEMMA ScriptSteps ==
  ASSUME LifecycleInv, RegistryInv, OneScript, [Next]_vars, NEW j \in Scripts
  PROVE  ScriptGoesOn(j)
<1>0. TypeOK /\ j \in Jobs /\ j \notin Requests
  BY DEF LifecycleInv, Jobs
<1>1. ASSUME NEW i \in Jobs, i # j,
             \/ i \in Requests /\ (\/ RequestBegins(i) \/ Provisioning(i) \/ Deleting(i)
                                   \/ Answer(i) \/ RollBack(i) \/ RequestFails(i))
             \/ RunStep(i)
      PROVE  ScriptGoesOn(j)
  BY <1>1, ScriptStays DEF ScriptGoesOn
<1>2. CASE Done(j)
  BY <1>0, <1>2 DEF Done, Go, TypeOK, ScriptGoesOn, Running, MoveSteps
<1>3. CASE RunStep(j)
  <2>1. CASE ~Done(j)
    <3>1. UNCHANGED <<src, tgt>> /\ at[j] \in Running
          /\ \E step \in MoveSteps \ ({"suspending"} \cup Carrying) : Go(j, step)
      BY <1>0, <1>3, <2>1 DEF RunStep, EnsureRole, EnsureDatabase, Migrate, StepFails, MarkFailed,
                   Running, MoveSteps, Carrying
    <3>. QED BY <1>0, <3>1 DEF Go, TypeOK, ScriptGoesOn
  <2>. QED BY <1>2, <2>1
<1>4. CASE BeginMove(j)
  <2>1. PICK r \in Rows : /\ src' = [src EXCEPT ![j] = r] /\ UNCHANGED status
                          /\ \/ Go(j, "suspending")
                             \/ Go(j, "targeting") /\ status[r] = "suspended"
    BY <1>4 DEF BeginMove, LiveRows, registry
  <2>. QED BY <1>0, <2>1 DEF Go, TypeOK, ScriptGoesOn
<1>5. CASE Suspend(j)
  <2>1. CASE status[src[j]] = "active"
    <3>1. src[j] \in Rows
      BY <1>0, <1>5 DEF RegistryInv, Asks, Suspend, MoveSteps, TypeOK
    <3>2. /\ status' = [status EXCEPT ![src[j]] = "suspended"]
          /\ Go(j, "targeting") /\ UNCHANGED src
      BY <1>5, <2>1 DEF Suspend, Transition
    <3>. QED BY <1>0, <3>1, <3>2 DEF Go, TypeOK, ScriptGoesOn
  <2>. QED BY <1>2, <1>5, <2>1 DEF Suspend
<1>6. ASSUME NEW s \in Servers, TakeTarget(j, s) \/ CreateTarget(j, s) PROVE ScriptGoesOn(j)
  <2>1. ASSUME NEW b \in Rows, tgt' = [tgt EXCEPT ![j] = b], Go(j, "role"), UNCHANGED src,
               status'[b] \in Building, at[j] = "targeting"
        PROVE  ScriptGoesOn(j)
    BY <1>0, <2>1 DEF Go, TypeOK, ScriptGoesOn
  <2>2. CASE Go(j, "restoring") /\ UNCHANGED src /\ at[j] = "targeting"
    BY <1>0, <2>2 DEF Go, TypeOK, ScriptGoesOn
  <2>3. CASE TakeTarget(j, s)
    <3>1. PICK b \in BuildingRows :
            \/ Done(j)
            \/ /\ \/ Transition(j, b, "failed", "provisioning")
                  \/ UNCHANGED status
               /\ tgt' = [tgt EXCEPT ![j] = b] /\ Go(j, "role") /\ UNCHANGED src
      BY <2>3 DEF TakeTarget
    <3>2. b \in Rows /\ status[b] \in Building /\ at[j] = "targeting"
      BY <2>3 DEF BuildingRows, TakeTarget
    <3>3. Transition(j, b, "failed", "provisioning") => status'[b] \in Building
      BY <1>0, <3>2 DEF Transition, TypeOK, Building
    <3>. QED BY <1>2, <2>1, <3>1, <3>2, <3>3
  <2>4. CASE CreateTarget(j, s)
    <3>1. \/ Done(j)
          \/ Go(j, "restoring") /\ UNCHANGED src
          \/ \E r \in Rows : /\ status' = [status EXCEPT ![r] = "provisioning"]
                             /\ tgt' = [tgt EXCEPT ![j] = r] /\ Go(j, "role") /\ UNCHANGED src
      BY <2>4 DEF CreateTarget
    <3>2. at[j] = "targeting"
      BY <2>4 DEF CreateTarget
    <3>3. ASSUME NEW r \in Rows, status' = [status EXCEPT ![r] = "provisioning"]
          PROVE  status'[r] \in Building
      BY <1>0, <3>3 DEF TypeOK, Building
    <3>. QED BY <1>2, <2>1, <2>2, <3>1, <3>2, <3>3
  <2>. QED BY <1>6, <2>3, <2>4
<1>7. CASE Restore(j) \/ Flip(j) \/ Die(j)
  BY <1>2, <1>7 DEF Restore, Flip, Die
<1>8. CASE Wipe(j) \/ Copy(j) \/ Verify(j)
  <2>1. UNCHANGED <<src, tgt>> /\ at[j] \in Running
        /\ \E step \in MoveSteps \ {"suspending"} : Go(j, step)
    BY <1>8 DEF Wipe, Copy, Verify, Running, MoveSteps
  <2>2. at'[j] \in Carrying => Copy(j) \/ Verify(j)
    BY <1>0, <1>8 DEF Wipe, Go, TypeOK, Carrying
  <2>. QED BY <1>0, <2>1, <2>2 DEF Go, TypeOK, ScriptGoesOn
<1>9. CASE \/ Restart
           \/ \E r \in Rows, w \in Writes : Route(r, w) \/ Serve(r, w)
           \/ UNCHANGED vars
  BY <1>0, <1>9 DEF Restart, Route, Serve, vars, job, ScriptGoesOn
<1>10. \A i \in Scripts : i = j
  BY DEF OneScript
<1>. QED
  BY <1>0, <1>1, <1>3, <1>4, <1>5, <1>6, <1>7, <1>8, <1>9, <1>10 DEF Next, Moving, Jobs

(* What every step does to a move under way. *)
LEMMA MovesKeep ==
  ASSUME OneScript, LifecycleInv, RegistryInv, MoveInv, [Next]_vars
  PROVE  MoveInv'
<1> SUFFICES ASSUME company', NEW j \in Scripts PROVE Moves(j)'
  BY DEF MoveInv
<1>0. j \in Jobs
  BY DEF Jobs
<1>1. ScriptGoesOn(j)
  BY ScriptSteps
<1>2. CASE \E i \in Scripts : Flip(i)
  <2>1. at'[j] = "idle"
    BY <1>0, <1>2 DEF OneScript, Flip, Done, Go, LifecycleInv, TypeOK
  <2>. QED BY <2>1 DEF Moves, Running, MoveSteps
<1>3. CASE \A i \in Scripts : ~Flip(i)
  <2>1. KindsKeep /\ Moves(j)
    BY <1>3, KindsKept DEF MoveInv
  <2>2. /\ at[j] \in MoveSteps => src[j] \in Rows
        /\ at[j] \in Running => tgt[j] \in Rows
    BY <1>0 DEF RegistryInv, Asks, LifecycleInv, TypeOK, MoveSteps
  <2>3. at[j] \in MoveSteps \ {"suspending"} => LiveRows # {} /\ status'[src[j]] \in Live
    BY <2>1, <2>2 DEF Moves, KindsKeep, LiveRows
  <2>4. at[j] \in Running => status'[tgt[j]] \in Building
    BY <2>1, <2>2, <2>3 DEF Moves, KindsKeep, Running, MoveSteps
  <2>. QED BY <1>1, <2>3, <2>4, StatusesMembers DEF ScriptGoesOn, Moves, Running, MoveSteps
<1>. QED BY <1>2, <1>3

(* The rows of the only script's move stay what they were when it took     *)
(* them up: the source live, the target building.                          *)
THEOREM MoveInvariance == OneScript => (Spec => []MoveInv)
<1> SUFFICES ASSUME OneScript PROVE Spec => []MoveInv
  OBVIOUS
<1>1. Init => MoveInv
  BY DEF Init, MoveInv, Moves, Running, MoveSteps, Jobs
<1>2. LifecycleInv /\ RegistryInv /\ MoveInv /\ [Next]_vars => MoveInv'
  BY MovesKeep
<1>. QED BY <1>1, <1>2, LifecycleInvariance, RegistryInvariance, PTL DEF Spec

(* While one script moves the company, no retry, late run, resume or       *)
(* decommission of it makes the move wipe the tables of a live row.        *)
THEOREM WipesSpareLiveRows == OneScript => (Spec => WipesSpareLive)
<1> SUFFICES ASSUME OneScript PROVE Spec => WipesSpareLive
  OBVIOUS
<1>1. ASSUME LifecycleInv, RegistryInv, MoveInv, NEW j \in Scripts, Wipe(j)
      PROVE  status[tgt[j]] \notin Live
  <2>0. j \in Jobs /\ at[j] \in Running
    BY <1>1 DEF Jobs, Wipe, Running
  <2>1. CASE company
    BY <1>1, <2>0, <2>1 DEF MoveInv, Moves, Live, Building
  <2>2. CASE ~company
    <3>1. tgt[j] \in Rows
      BY <1>1, <2>0 DEF RegistryInv, Asks, LifecycleInv, TypeOK
    <3>. QED BY <1>1, <2>2, <3>1 DEF RegistryInv, BookInv, GoneForGood, Live
  <2>. QED BY <2>1, <2>2
<1>2. LifecycleInv /\ RegistryInv /\ MoveInv
      => [\A j \in Scripts : Wipe(j) => status[tgt[j]] \notin Live]_vars
  BY <1>1
<1>. QED
  BY <1>2, LifecycleInvariance, RegistryInvariance, MoveInvariance, PTL DEF WipesSpareLive

-----------------------------------------------------------------------------
(* Nobody asks for a suspension while a script moves the company.          *)
NotSuspending == "suspend" \notin Verbs

LEMMA PlacesStay ==
  ASSUME LifecycleInv, [Next]_vars
  PROVE  PlacesKeep
<1>1. ASSUME NEW r \in Rows, NEW s, IsNext(r), place' = [place EXCEPT ![r] = s]
      PROVE  PlacesKeep
  BY <1>1 DEF IsNext, PlacesKeep, LifecycleInv, TypeOK
<1>2. CASE UNCHANGED place
  BY <1>2 DEF PlacesKeep
<1>3. ASSUME NEW j, NEW s, CreateRow(j, s) PROVE PlacesKeep
  BY <1>1, <1>2, <1>3 DEF CreateRow
<1>4. ASSUME NEW j, NEW s, CreateTarget(j, s) PROVE PlacesKeep
  BY <1>1, <1>2, <1>4 DEF CreateTarget
<1>5. ASSUME NEW j, RequestBegins(j) \/ Deleting(j) \/ Answer(j) \/ RollBack(j) \/ RequestFails(j)
                    \/ ResumeBuilding(j) \/ Activate(j)
      PROVE  UNCHANGED place
  BY <1>5 DEF RequestBegins, BeginProvisioning, Switch, BeginDelete, Deleting, Retire, Park, Revoke,
              Purge, Answer, RollBack, RequestFails, ResumeBuilding, Activate, registry
<1>6. ASSUME NEW j, RunStep(j) \/ BeginMove(j) \/ Suspend(j) \/ Restore(j) \/ Wipe(j) \/ Copy(j)
                    \/ Verify(j) \/ Flip(j) \/ Die(j) \/ \E s \in Servers : TakeTarget(j, s)
      PROVE  UNCHANGED place
  BY <1>6 DEF RunStep, EnsureRole, EnsureDatabase, Migrate, StepFails, MarkFailed, BeginMove, Suspend,
              Restore, Wipe, Copy, Verify, Flip, Die, TakeTarget, registry
<1>7. CASE Restart \/ (\E r \in Rows, w \in Writes : Route(r, w) \/ Serve(r, w)) \/ UNCHANGED vars
  BY <1>2, <1>7 DEF Restart, Route, Serve, vars, registry
<1>. QED
  BY <1>2, <1>3, <1>4, <1>5, <1>6, <1>7 DEF Next, Provisioning, Moving

LEMMA ParkedStay ==
  ASSUME LifecycleInv, [Next]_vars, NothingParked'
  PROVE  NothingParked
<1>1. CASE UNCHANGED parked
  BY <1>1 DEF NothingParked
<1>2. ASSUME NEW j, Park(j) PROVE NothingParked
  BY <1>2 DEF Park, NothingParked, LifecycleInv, TypeOK
<1>3. ASSUME NEW j, RequestBegins(j) \/ Retire(j) \/ Revoke(j) \/ Purge(j)
                    \/ Answer(j) \/ RollBack(j) \/ RequestFails(j)
                    \/ Provisioning(j)
      PROVE  UNCHANGED parked
  BY <1>3 DEF RequestBegins, BeginProvisioning, Switch, BeginDelete, Retire, Revoke,
              Purge, Answer, RollBack, RequestFails, Provisioning, ResumeBuilding, Activate,
              CreateRow, server
<1>4. ASSUME NEW j, RunStep(j) \/ Moving(j) PROVE UNCHANGED parked
  BY <1>4 DEF RunStep, EnsureRole, EnsureDatabase, Migrate, StepFails, MarkFailed, Moving, BeginMove,
              Suspend, Restore, Wipe, Copy, Verify, Flip, Die, TakeTarget, CreateTarget, server
<1>5. CASE Restart \/ (\E r \in Rows, w \in Writes : Route(r, w) \/ Serve(r, w)) \/ UNCHANGED vars
  BY <1>1, <1>5 DEF Restart, Route, Serve, vars, server
<1>. QED
  BY <1>1, <1>2, <1>3, <1>4, <1>5 DEF Next, Deleting

(* Only the script's own suspension suspends a row.                        *)
NoneSuspended == \A r \in Rows : status'[r] = "suspended" => status[r] = "suspended"

LEMMA SuspendedKept ==
  ASSUME NotSuspending, LifecycleInv, RegistryInv, [Next]_vars,
         NoneAsked,
         \A j \in Scripts : ~Suspend(j)
  PROVE  NoneSuspended
<1>0. TypeOK
  BY DEF LifecycleInv
<1>1. CASE UNCHANGED status
  BY <1>1 DEF NoneSuspended
<1>2. ASSUME NEW j, NEW r, NEW from, NEW to, to # "suspended",
             UNCHANGED status \/ Transition(j, r, from, to)
      PROVE  NoneSuspended
  BY <1>0, <1>2 DEF Transition, TypeOK, NoneSuspended
<1>3. ASSUME NEW j \in Requests, Answer(j) PROVE NoneSuspended
  <2>1. j \in Jobs
    BY DEF Jobs
  <2>. QED BY <1>3, <2>1 DEF Answer, NoneSuspended, NoneAsked
<1>4. ASSUME NEW j, Activate(j) PROVE NoneSuspended
  BY <1>2, <1>4 DEF Activate
<1>5. ASSUME NEW j, MarkFailed(j) \/ Restore(j) PROVE NoneSuspended
  BY <1>2, <1>5 DEF MarkFailed, Restore
<1>6. ASSUME NEW j, NEW s, TakeTarget(j, s) PROVE NoneSuspended
  BY <1>2, <1>6 DEF TakeTarget
<1>7. ASSUME NEW j, NEW s, CreateTarget(j, s) PROVE NoneSuspended
  BY <1>0, <1>1, <1>7 DEF CreateTarget, TypeOK, NoneSuspended
<1>8. ASSUME NEW j, Flip(j) PROVE NoneSuspended
  BY <1>0, <1>8 DEF Flip, TypeOK, NoneSuspended
<1>9. ASSUME NEW j, RequestBegins(j) \/ Deleting(j) \/ RollBack(j) \/ RequestFails(j)
                    \/ ResumeBuilding(j) \/ \E s \in Servers : CreateRow(j, s)
      PROVE  UNCHANGED status
  BY <1>9 DEF RequestBegins, BeginProvisioning, Switch, BeginDelete, Deleting, Retire, Park, Revoke,
              Purge, RollBack, RequestFails, ResumeBuilding, CreateRow, registry
<1>10. ASSUME NEW j, EnsureRole(j) \/ EnsureDatabase(j) \/ Migrate(j) \/ StepFails(j) \/ BeginMove(j)
                     \/ Wipe(j) \/ Copy(j) \/ Verify(j) \/ Die(j)
       PROVE  UNCHANGED status
  BY <1>10 DEF EnsureRole, EnsureDatabase, Migrate, StepFails, BeginMove, Wipe, Copy, Verify, Die,
               registry
<1>11. CASE Restart \/ (\E r \in Rows, w \in Writes : Route(r, w) \/ Serve(r, w)) \/ UNCHANGED vars
  BY <1>1, <1>11 DEF Restart, Route, Serve, vars, registry
<1>. QED
  BY <1>1, <1>3, <1>4, <1>5, <1>6, <1>7, <1>8, <1>9, <1>10, <1>11
  DEF Next, Provisioning, Moving, RunStep

LEMMA AskedKept ==
  ASSUME NotSuspending, LifecycleInv, [Next]_vars,
         NoneAsked
  PROVE  NoneAsked'
<1>0. TypeOK /\ NoChange.to = "absent"
  BY DEF LifecycleInv, NoChange
<1>1. CASE UNCHANGED pending
  BY <1>1 DEF NoneAsked
<1>2. ASSUME NEW j, NEW row, NEW to, to # "suspended",
             pending' = [pending EXCEPT ![j] = [row |-> row, to |-> to]]
      PROVE  NoneAsked'
  BY <1>0, <1>2 DEF TypeOK, NoneAsked
<1>a. ASSUME NEW j, pending' = [pending EXCEPT ![j] = NoChange] PROVE NoneAsked'
  BY <1>2, <1>a DEF NoChange
<1>3. ASSUME NEW j, NEW r, NEW from, NEW to, to # "suspended", TransitionInRequest(j, r, from, to)
      PROVE  NoneAsked'
  <2>1. \/ UNCHANGED pending
        \/ pending' = [pending EXCEPT ![j] = [row |-> r, to |-> to]]
    BY <1>3 DEF TransitionInRequest
  <2>. QED BY <1>1, <1>2, <1>3, <2>1
<1>4. ASSUME NEW j, RequestBegins(j) PROVE NoneAsked'
  <2>1. ASSUME NEW verb \in Verbs \cap {"suspend", "resume"}, Switch(j, verb) PROVE NoneAsked'
    <3>1. verb # "suspend"
      BY <2>1 DEF NotSuspending
    <3>. QED BY <1>3, <2>1, <3>1 DEF Switch
  <2>. QED BY <1>1, <1>4, <2>1 DEF RequestBegins, BeginProvisioning, BeginDelete
<1>5. ASSUME NEW j, ResumeBuilding(j) \/ Retire(j) PROVE NoneAsked'
  BY <1>1, <1>3, <1>5 DEF ResumeBuilding, Retire
<1>6. ASSUME NEW j, NEW s, CreateRow(j, s) PROVE NoneAsked'
  <2>1. \/ UNCHANGED pending
        \/ \E r \in Rows, to \in Building : pending' = [pending EXCEPT ![j] = [row |-> r, to |-> to]]
    BY <1>6 DEF CreateRow, Building
  <2>2. "suspended" \notin Building
    BY DEF Building
  <2>. QED BY <1>1, <1>2, <2>1, <2>2
<1>7. ASSUME NEW j, Purge(j) PROVE NoneAsked'
  <2>1. \/ pending' = [pending EXCEPT ![j] = NoChange]
        \/ pending' = [pending EXCEPT ![j] = [row |-> src[j], to |-> "purged"]]
    BY <1>7 DEF Purge
  <2>. QED BY <1>2, <1>a, <2>1
<1>8. ASSUME NEW j, Answer(j) \/ RollBack(j) \/ RequestFails(j) PROVE NoneAsked'
  BY <1>a, <1>8 DEF Answer, RollBack, RequestFails
<1>9. CASE Restart
  BY <1>0, <1>9 DEF Restart, NoneAsked
<1>10. ASSUME NEW j, RunStep(j) \/ Moving(j) \/ Activate(j) \/ Park(j) \/ Revoke(j)
       PROVE  UNCHANGED pending
  BY <1>10 DEF RunStep, EnsureRole, EnsureDatabase, Migrate, StepFails, MarkFailed, Moving, BeginMove,
               Suspend, Restore, Wipe, Copy, Verify, Flip, Die, TakeTarget, CreateTarget, Activate,
               Park, Revoke
<1>11. CASE (\E r \in Rows, w \in Writes : Route(r, w) \/ Serve(r, w)) \/ UNCHANGED vars
  BY <1>1, <1>11 DEF Route, Serve, vars
<1>. QED
  BY <1>1, <1>4, <1>5, <1>6, <1>7, <1>8, <1>9, <1>10, <1>11 DEF Next, Provisioning, Deleting

(* The rows of a move under way, and where they are. *)
LEMMA MovePlaces ==
  ASSUME LifecycleInv, RegistryInv, NEW j \in Scripts, at[j] \in Running
  PROVE  /\ src[j] \in Rows /\ place[src[j]] \in Places
         /\ tgt[j] \in Rows /\ place[tgt[j]] \in Servers /\ place[tgt[j]] \in Places
         /\ MoveInv /\ company =>
              /\ status[src[j]] \in Live
              /\ \A r \in LiveRows : r = src[j] /\ place[r] # place[tgt[j]]
<1>0. j \in Jobs /\ at[j] \in MoveSteps
  BY DEF Jobs, MoveSteps
<1>1. src[j] \in Rows /\ tgt[j] \in Rows
  BY <1>0 DEF LifecycleInv, TypeOK, RegistryInv, Asks
<1>2. place[src[j]] \in Places /\ place[tgt[j]] \in Servers /\ place[tgt[j]] \in Places
  BY <1>0, <1>1 DEF LifecycleInv, TypeOK, Holds, Places
<1>3. ASSUME MoveInv, company
      PROVE  /\ status[src[j]] \in Live
             /\ \A r \in LiveRows : r = src[j] /\ place[r] # place[tgt[j]]
  <2>1. status[src[j]] \in Live /\ status[tgt[j]] \in Building
    BY <1>3 DEF MoveInv, Moves, Running, MoveSteps
  <2>2. \A r \in LiveRows : r = src[j]
    BY <1>1, <2>1 DEF RegistryInv, BookInv, OneLive, LiveRows
  <2>3. Claimed(src[j]) /\ Claimed(tgt[j]) /\ src[j] # tgt[j]
    BY <2>1 DEF Claimed, Live, Building
  <2>4. place[src[j]] # place[tgt[j]]
    BY <1>1, <2>3 DEF RegistryInv, BookInv, OwnPlaces
  <2>. QED BY <2>1, <2>2, <2>4
<1>. QED BY <1>1, <1>2, <1>3

(* Which steps change a database's contents. *)
LEMMA DataSteps ==
  ASSUME [Next]_vars
  PROVE  \/ UNCHANGED <<data, calls>>
         \/ \E r \in Rows, w \in Writes : Route(r, w) \/ Serve(r, w)
         \/ \E j \in Jobs : EnsureDatabase(j)
         \/ \E j \in Scripts : Wipe(j) \/ Copy(j)
<1>1. ASSUME NEW j, RequestBegins(j) \/ Provisioning(j) \/ Deleting(j)
                    \/ Answer(j) \/ RollBack(j) \/ RequestFails(j)
      PROVE  UNCHANGED <<data, calls>>
  BY <1>1 DEF RequestBegins, BeginProvisioning, Switch, BeginDelete, Provisioning, ResumeBuilding,
              CreateRow, Activate, Deleting, Retire, Park, Revoke, Purge, Answer, RollBack, RequestFails
<1>2. ASSUME NEW j, EnsureRole(j) \/ Migrate(j) \/ StepFails(j) \/ MarkFailed(j)
      PROVE  UNCHANGED <<data, calls>>
  BY <1>2 DEF EnsureRole, Migrate, StepFails, MarkFailed
<1>3. ASSUME NEW j, \/ BeginMove(j) \/ Suspend(j) \/ Restore(j) \/ Verify(j) \/ Flip(j) \/ Die(j)
                    \/ \E s \in Servers : TakeTarget(j, s) \/ CreateTarget(j, s)
      PROVE  UNCHANGED <<data, calls>>
  BY <1>3 DEF BeginMove, Suspend, Restore, Verify, Flip, Die, TakeTarget, CreateTarget
<1>4. CASE Restart \/ UNCHANGED vars
  BY <1>4 DEF Restart, vars
<1>. QED BY <1>1, <1>2, <1>3, <1>4 DEF Next, Moving, RunStep

(* Nothing the move answers for is missing from a live row's database, as long as  *)
(* none was renamed away.                                                  *)
LEMMA LiveHoldKept ==
  ASSUME OneScript, LifecycleInv, RegistryInv, RegistryInv', MoveInv, WriteInv, [Next]_vars,
         NothingParked, company'
  PROVE  LiveHold' /\ NoneYet'
<1>0. TypeOK /\ LiveHold /\ NoneYet /\ Carried
  BY DEF LifecycleInv, WriteInv
<1>1. CASE \E j \in Scripts : Flip(j)
  <2>0. PICK j \in Scripts : Flip(j)
    BY <1>1
  <2>1. /\ UNCHANGED <<place, company, data, calls>> /\ company
        /\ at[j] = "flipping" /\ at[j] \in Running
    BY <2>0 DEF Flip, server, Running
  <2>2. src[j] \in Rows /\ tgt[j] \in Rows
    BY <2>1, MovePlaces
  <2>3. CASE status[src[j]] = "suspended" /\ status[tgt[j]] = "provisioning"
    <3>1. status' = [status EXCEPT ![src[j]] = "retired", ![tgt[j]] = "active"]
      BY <2>0, <2>3 DEF Flip
    <3>2. status'[tgt[j]] = "active"
      BY <1>0, <2>2, <3>1 DEF TypeOK
    <3>3. LiveRows' = {tgt[j]}
      BY <2>2, <3>2 DEF LiveRows, Live, RegistryInv, BookInv, OneLive
    <3>4. Kept \subseteq data[place[tgt[j]]]
      BY <1>0, <2>1, <2>3 DEF Carried, Carries
    <3>. QED BY <2>1, <3>3, <3>4 DEF LiveHold, NoneYet, Kept
  <2>4. CASE ~(status[src[j]] = "suspended" /\ status[tgt[j]] = "provisioning")
    <3>1. UNCHANGED status
      BY <2>0, <2>4 DEF Flip
    <3>. QED BY <1>0, <2>1, <3>1 DEF LiveHold, NoneYet, LiveRows, Kept
  <2>. QED BY <2>3, <2>4
<1>2. CASE \A j \in Scripts : ~Flip(j)
  <2>0. KindsKeep /\ company /\ PlacesKeep
    BY <1>2, KindsKept, PlacesStay
  <2>1. /\ LiveRows \subseteq LiveRows'
        /\ LiveRows' \subseteq LiveRows \/ LiveRows = {}
    BY <2>0 DEF KindsKeep, LiveRows
  <2>2. \A r \in LiveRows : place'[r] = place[r] /\ place[r] \in Places
    <3>1. \A r \in LiveRows : r \in Rows /\ status[r] # "absent"
      BY DEF LiveRows, Live
    <3>2. \A r \in LiveRows : place[r] # None
      BY <3>1 DEF LifecycleInv, Fits
    <3>. QED BY <1>0, <2>0, <3>1, <3>2 DEF PlacesKeep, TypeOK
  <2>3. CASE UNCHANGED <<data, calls>>
    BY <1>0, <2>0, <2>1, <2>2, <2>3 DEF LiveHold, NoneYet, Kept
  <2>4. ASSUME NEW r \in Rows, NEW w \in Writes, Route(r, w) \/ Serve(r, w) PROVE LiveHold' /\ NoneYet'
    <3>1. CASE Route(r, w)
      BY <1>0, <2>0, <2>1, <2>2, <3>1 DEF Route, registry, LiveHold, NoneYet, LiveRows, Kept
    <3>2. CASE Serve(r, w)
      <4>1. LiveRows' = LiveRows /\ place' = place
            /\ data' = [data EXCEPT ![place[r]] = @ \cup {w}]
        BY <3>2 DEF Serve, LiveRows, registry
      <4>2. \A q \in LiveRows : data[place[q]] \subseteq data'[place[q]]
        BY <1>0, <2>2, <4>1 DEF TypeOK
      <4>3. CASE Left(r)
        <5>1. Kept' \subseteq Kept
          BY <3>2, <4>3 DEF Serve, Kept
        <5>. QED BY <1>0, <2>0, <4>1, <4>2, <5>1 DEF LiveHold, NoneYet
      <4>4. CASE ~Left(r)
        <5>1. r \in LiveRows
          BY <4>4 DEF Left, LiveRows, Live
        <5>2. \A q \in LiveRows : q = r
          BY <5>1 DEF RegistryInv, BookInv, OneLive
        <5>3. data'[place[r]] = data[place[r]] \cup {w} /\ Kept' \subseteq Kept \cup {w}
          BY <1>0, <2>2, <3>2, <4>1, <4>4, <5>1 DEF TypeOK, Serve, Kept
        <5>. QED BY <1>0, <4>1, <5>1, <5>2, <5>3 DEF LiveHold, NoneYet
      <4>. QED BY <4>3, <4>4
    <3>. QED BY <2>4, <3>1, <3>2
  <2>5. ASSUME UNCHANGED <<status, calls>>,
               \A r \in LiveRows : data[place[r]] \subseteq data'[place[r]]
        PROVE  LiveHold' /\ NoneYet'
    <3>1. LiveRows' = LiveRows
      BY <2>5 DEF LiveRows
    <3>. QED BY <1>0, <2>0, <2>2, <2>5, <3>1 DEF LiveHold, NoneYet, Kept
  <2>6. ASSUME NEW j \in Jobs, EnsureDatabase(j) PROVE LiveHold' /\ NoneYet'
    <3>1. ASSUME NEW r \in LiveRows PROVE data[place[r]] \subseteq data'[place[r]]
      <4>1. place[r] \in Servers => database[place[r]] = "ready"
        BY DEF LiveRows, LifecycleInv, Fits, Delivered, NothingParked
      <4>2. place[tgt[j]] \in Servers
        BY <1>0, <2>6 DEF EnsureDatabase, RegistryInv, Asks, Running, LifecycleInv, Holds
      <4>3. CASE database[place[tgt[j]]] = "none"
        <5>1. place[r] # place[tgt[j]]
          BY <4>1, <4>2, <4>3
        <5>. QED BY <1>0, <2>2, <2>6, <5>1 DEF EnsureDatabase, TypeOK
      <4>4. CASE database[place[tgt[j]]] # "none"
        BY <2>6, <4>4 DEF EnsureDatabase
      <4>. QED BY <4>3, <4>4
    <3>. QED BY <2>5, <2>6, <3>1 DEF EnsureDatabase, registry
  <2>7. ASSUME NEW j \in Scripts, Wipe(j) \/ Copy(j) PROVE LiveHold' /\ NoneYet'
    <3>1. \A r \in LiveRows : place[r] # place[tgt[j]]
      BY <2>0, <2>7, MovePlaces DEF Wipe, Copy, Running
    <3>2. \A r \in LiveRows : data'[place[r]] = data[place[r]]
      BY <1>0, <2>2, <2>7, <3>1 DEF Wipe, Copy, TypeOK
    <3>. QED BY <2>5, <2>7, <3>2 DEF Wipe, Copy, registry
  <2>. QED BY <2>3, <2>4, <2>6, <2>7, DataSteps
<1>. QED BY <1>1, <1>2

(* What the script carries over. *)
LEMMA CarriedKept ==
  ASSUME OneScript, NotSuspending, LifecycleInv, RegistryInv, MoveInv, WriteInv, [Next]_vars,
         NothingParked, company'
  PROVE  Carried'
<1> SUFFICES ASSUME NEW j \in Scripts, at'[j] \in Carrying PROVE Carries(j)'
  BY DEF Carried, Carries, Carrying
<1>0. /\ TypeOK /\ LiveHold /\ NoneYet /\ Carried /\ NoneAsked
      /\ j \in Jobs /\ Carrying \subseteq Running
  BY DEF LifecycleInv, WriteInv, Jobs, Carrying, Running
<1>1. /\ src'[j] = src[j] /\ tgt'[j] = tgt[j] /\ at[j] \in Running
      /\ at'[j] = at[j] \/ Copy(j) \/ Verify(j)
  BY <1>0, ScriptSteps DEF ScriptGoesOn, Carrying, Running, MoveSteps
<1>2. ~Flip(j) /\ ~Suspend(j)
  BY <1>0, <1>1 DEF Flip, Done, Go, TypeOK, Suspend, Carrying, Running
<1>3. company /\ KindsKeep /\ NoneSuspended
  BY <1>0, <1>2, KindsKept, SuspendedKept DEF OneScript
<1>4. /\ Carries(j) /\ status[src[j]] \in Live
      /\ src[j] \in LiveRows /\ \A r \in LiveRows : r = src[j]
      /\ src[j] \in Rows /\ tgt[j] \in Rows
      /\ place[src[j]] \in Places /\ place[tgt[j]] \in Places /\ place[tgt[j]] \in Servers
  BY <1>0, <1>1, <1>3, MovePlaces DEF Carried, LiveRows
<1>5. place'[src[j]] = place[src[j]] /\ place'[tgt[j]] = place[tgt[j]]
  BY <1>0, <1>4, PlacesStay DEF PlacesKeep, Places
<1>7. CASE Copy(j)
  <2>1. data'[place[tgt[j]]] = data[place[tgt[j]]] \cup data[place[src[j]]] /\ Kept' = Kept
    BY <1>0, <1>4, <1>7 DEF Copy, TypeOK, Kept
  <2>2. Kept \subseteq data[place[src[j]]]
    BY <1>0, <1>4 DEF LiveHold
  <2>. QED BY <1>1, <1>5, <2>1, <2>2 DEF Carries
<1>8. CASE Verify(j)
  <2>1. UNCHANGED <<data, calls, status>> /\ at[j] = "verifying"
    BY <1>8 DEF Verify, registry
  <2>. QED BY <1>1, <1>4, <1>5, <2>1 DEF Carries, Kept
<1>9. CASE at'[j] = at[j] /\ ~Copy(j)
  <2>0. at[j] \in Carrying
    BY <1>9
  <2>1. CASE UNCHANGED <<data, calls>>
    BY <1>1, <1>3, <1>4, <1>5, <1>9, <2>1 DEF Carries, NoneSuspended, Kept
  <2>2. ASSUME NEW r \in Rows, NEW w \in Writes, Route(r, w) \/ Serve(r, w) PROVE Carries(j)'
    <3>1. UNCHANGED status /\ data[place[tgt[j]]] \subseteq data'[place[tgt[j]]]
      <4>1. UNCHANGED data \/ data' = [data EXCEPT ![place[r]] = data[place[r]] \cup {w}]
        BY <2>2 DEF Route, Serve
      <4>2. UNCHANGED status
        BY <2>2 DEF Route, Serve, registry
      <4>. QED BY <1>0, <1>4, <4>1, <4>2 DEF TypeOK
    <3>2. status[src[j]] = "suspended" => Kept' \subseteq Kept
      <4>1. CASE Route(r, w)
        BY <4>1 DEF Route, Kept
      <4>2. CASE Serve(r, w) /\ Left(r)
        BY <4>2 DEF Serve, Kept
      <4>3. CASE ~Left(r)
        BY <1>4, <2>0, <4>3 DEF Left, LiveRows, Live, Carrying
      <4>. QED BY <2>2, <4>1, <4>2, <4>3
    <3>. QED BY <1>1, <1>4, <1>5, <1>9, <3>1, <3>2 DEF Carries
  <2>3. ASSUME NEW i \in Jobs, EnsureDatabase(i) PROVE Carries(j)'
    <3>1. place[tgt[i]] \in Servers /\ UNCHANGED <<calls, status>>
      BY <1>0, <2>3 DEF EnsureDatabase, RegistryInv, Asks, Running, LifecycleInv, Holds, registry
    <3>2. CASE database[place[tgt[i]]] # "none"
      BY <1>1, <1>4, <1>5, <1>9, <2>3, <3>1, <3>2 DEF EnsureDatabase, Carries, Kept
    <3>3. CASE database[place[tgt[i]]] = "none"
      <4>1. place[tgt[j]] # place[tgt[i]]
        <5>1. at[j] \in Migrated
          BY <2>0 DEF Carrying, Migrated
        <5>2. Delivered(tgt[j])
          BY <1>0, <1>4, <5>1 DEF LifecycleInv, Holds
        <5>. QED BY <1>4, <3>1, <3>3, <5>2 DEF Delivered, NothingParked
      <4>2. data'[place[tgt[j]]] = data[place[tgt[j]]]
        BY <1>0, <1>4, <2>3, <4>1 DEF EnsureDatabase, TypeOK
      <4>. QED BY <1>1, <1>4, <1>5, <1>9, <3>1, <4>2 DEF Carries, Kept
    <3>. QED BY <3>2, <3>3
  <2>4. ~\E i \in Scripts : Wipe(i) \/ Copy(i)
    <3>1. ~Wipe(j)
      BY <2>0 DEF Wipe, Carrying
    <3>. QED BY <1>9, <3>1 DEF OneScript
  <2>. QED BY <2>1, <2>2, <2>3, <2>4, DataSteps
<1>. QED BY <1>1, <1>7, <1>8, <1>9

(* One script, and nobody suspends the company but it.                     *)
THEOREM WriteInvariance == OneScript /\ NotSuspending => (Spec => []WriteInv)
<1> SUFFICES ASSUME OneScript, NotSuspending PROVE Spec => []WriteInv
  OBVIOUS
<1>1. Init => WriteInv
  BY DEF Init, WriteInv, NoneAsked, NoChange, LiveHold, NoneYet, Carried, Carries, Kept, Jobs
<1>2. ASSUME LifecycleInv, RegistryInv, RegistryInv', MoveInv, WriteInv, [Next]_vars
      PROVE  WriteInv'
  <2>1. NoneAsked'
    BY <1>2, AskedKept DEF WriteInv
  <2>2. ASSUME NothingParked' PROVE (LiveHold /\ NoneYet /\ Carried)'
    <3>0. NothingParked
      BY <1>2, <2>2, ParkedStay
    <3>1. CASE company'
      BY <1>2, <3>0, <3>1, LiveHoldKept, CarriedKept
    <3>2. CASE ~company'
      BY <1>2, <3>2 DEF RegistryInv, BookInv, GoneForGood, LiveHold, NoneYet, Carried, LiveRows, Live
    <3>. QED BY <3>1, <3>2
  <2>. QED BY <2>1, <2>2 DEF WriteInv
<1>. QED
  BY <1>1, <1>2, LifecycleInvariance, RegistryInvariance, MoveInvariance, PTL DEF Spec

(* Whatever the company was answered for is in the database it works in,   *)
(* across a move that crashed anywhere, was run again or whose source was  *)
(* resumed under it, and whatever provisioning runs of it go on beside it: *)
(* also what a request routed before the suspension wrote after it, unless *)
(* it came after the move's copy and so is one of the late.                *)
THEOREM WritesAreKept == OneScript /\ NotSuspending => (Spec => []NoWriteLost)
<1> SUFFICES ASSUME OneScript, NotSuspending PROVE Spec => []NoWriteLost
  OBVIOUS
<1>1. WriteInv => NoWriteLost
  BY StatusesMembers DEF WriteInv, NothingParked, LiveHold, NoWriteLost, LiveRows, Kept
<1>. QED BY <1>1, WriteInvariance, PTL
=============================================================================
