---------------------- MODULE AmbientTransactionProofs ----------------------
(***************************************************************************)
(* AmbientTransaction keeps its types, names the action on every open      *)
(* transaction, tells no success over dropped work, and implements         *)
(* UnitOfWork, for any databases and statements. The last two hold of      *)
(* handlers that heed the failure of every statement which is not a        *)
(* savepoint; the inductive invariant carries that as a condition of two   *)
(* of its parts, so that the rest holds of every handler.                  *)
(***************************************************************************)
EXTENDS AmbientTransaction, TLAPS

USE DEF Rejected

FailuresHeeded == Unheeded \subseteq Savepoints

(* finish's loop and reapply's go over every transaction there is, once.   *)
Listed ==
  /\ \A d \in Databases :
       trx[d] # "none" <=> \E i \in 1..Len(opened) : opened[i] = d
  /\ \A i, j \in 1..Len(opened) : opened[i] = opened[j] => i = j

(* Nobody but the request's end, or its client's, finishes it.             *)
Finished ==
  /\ ~state.mutating
       => /\ \A d \in Databases : trx[d] = "none"
          /\ \A q \in Queries : query[q].facade = "plain"
  /\ state.finished => res.closed \/ res.ended # None
  /\ res.closed \/ res.sent # None => state.finished \/ ~state.mutating
  /\ res.sent # None => res.ended # None
  /\ finishing # None
       => /\ state.finished /\ state.mutating
          /\ finishing.caller = "end"
               => /\ res.sent = None /\ res.ended # None
                  /\ finishing.ok <=> res.ended = "ok"
          /\ finishing.caller = "close" => res.closed /\ ~finishing.ok

(* What the loop has passed is settled, and kept only for a success.       *)
Resolved ==
  /\ \A d \in Databases : trx[d] = "committed" => res.ended = "ok"
  /\ finishing # None
       => \A i \in 1..Len(opened) :
            i < finishing.at => trx[opened[i]] \in Completed \cup Rejected
  /\ \A q \in Queries :
       query[q].stage = "inTrx"
         => trx[query[q].db] \in {"open", "aborted"} \cup Completed

(* A success has no failure behind it that aborted anything.               *)
HeededFailures ==
  /\ \A d \in Databases :
       trx[d] = "aborted" => \E q \in Queries \ Unheeded : query[q].stage = "failed"
  /\ res.ended = "ok"
       => /\ \A q \in Queries \ Unheeded : query[q].stage # "failed"
          /\ \A q \in Queries \ Loose : query[q].stage \notin {"built", "waiting"}

Truthful ==
  /\ finishing # None /\ finishing.ok /\ ~finishing.failures
       => \A i \in 1..Len(opened) :
            i < finishing.at => trx[opened[i]] = "committed"
  /\ res.sent = "ok" /\ ~res.closed
       => \A d \in Databases : trx[d] \in {"none", "committed"}

(* What setAuditAction's loop has passed, and what joined since, carries   *)
(* the action.                                                             *)
Renamed ==
  /\ renaming.step = "never" => renaming.at = 1
  /\ renaming.step # "never" => state.action
  /\ renaming.step = "running"
       => \A i \in 1..Len(opened) :
            i < renaming.at /\ trx[opened[i]] \in {"applying", "open"}
              => setting[opened[i]]
  /\ renaming.step = "done"
       => \A d \in Databases : trx[d] \in {"applying", "open"} => setting[d]

-----------------------------------------------------------------------------
(* The types.                                                              *)

LEMMA InitTypes == Init => TypeOK
<1> SUFFICES ASSUME Init PROVE TypeOK
  OBVIOUS
<1>1. PICK job \in BOOLEAN, mutating \in BOOLEAN :
        /\ state = [mutating |-> mutating, armed |-> job, detached |-> FALSE,
                    finished |-> FALSE, action |-> FALSE]
        /\ res = [source |-> IF job THEN "job" ELSE "api", ended |-> None,
                  sent |-> None, closed |-> FALSE]
  BY DEF Init
<1>2. state \in [mutating : BOOLEAN, armed : BOOLEAN, detached : BOOLEAN,
                finished : BOOLEAN, action : BOOLEAN]
  BY <1>1
<1>3. res \in [source : {"api", "job"}, ended : {None, "ok", "error"},
              sent : {None, "ok", "error", "unknown"}, closed : BOOLEAN]
  BY <1>1
<1> QED BY <1>2, <1>3 DEF Init, TypeOK, TrxStates, Stages, Positions

LEMMA EnsureTrxTypes ==
  ASSUME TypeOK, NEW d \in Databases, EnsureTrx(d)
  PROVE  trx' \in [Databases -> TrxStates] /\ opened' \in Seq(Databases)
<1>1. CASE trx[d] = "none"
  <2>1. trx' = [trx EXCEPT ![d] = "opening"] /\ opened' = Append(opened, d)
    BY <1>1 DEF EnsureTrx
  <2>2. "opening" \in TrxStates
    BY DEF TrxStates, Pending
  <2> QED BY <2>1, <2>2 DEF TypeOK
<1>2. CASE trx[d] # "none"
  BY <1>2 DEF EnsureTrx, TypeOK
<1> QED BY <1>1, <1>2

LEMMA StageTypes ==
  ASSUME TypeOK, NEW q \in Queries, NEW s \in Stages, Stage(q, s),
         query[q].db \in Databases
  PROVE  /\ query' \in [Queries -> [db : Databases \cup {None},
                                    facade : {"plain", "ambient"}, stage : Stages]]
         /\ \A r \in Queries : query'[r].stage = "idle" \/ query'[r].db \in Databases
<1>1. query[q] \in [db : Databases \cup {None}, facade : {"plain", "ambient"},
                   stage : Stages]
  BY DEF TypeOK
<1>2. [query[q] EXCEPT !.stage = s] \in [db : Databases \cup {None},
                                       facade : {"plain", "ambient"}, stage : Stages]
  BY <1>1
<1>3. query' = [query EXCEPT ![q] = [query[q] EXCEPT !.stage = s]]
  BY DEF Stage
<1>4. [query[q] EXCEPT !.stage = s].db = query[q].db
  BY <1>1
<1> QED BY <1>2, <1>3, <1>4 DEF TypeOK

LEMMA FinishTypes ==
  ASSUME TypeOK, NEW ok \in BOOLEAN, NEW caller \in {"end", "close"},
         FinishAuditRequest(ok, caller)
  PROVE  /\ state' \in [mutating : BOOLEAN, armed : BOOLEAN, detached : BOOLEAN,
                        finished : BOOLEAN, action : BOOLEAN]
         /\ finishing' \in [at : Positions, ok : BOOLEAN, failures : BOOLEAN,
                            caller : {"end", "close"}]
<1>1. finishing' = [at |-> 1, ok |-> ok, failures |-> FALSE, caller |-> caller]
  BY DEF FinishAuditRequest
<1>2. state' = [state EXCEPT !.finished = TRUE]
  BY DEF FinishAuditRequest
<1>3. state' \in [mutating : BOOLEAN, armed : BOOLEAN, detached : BOOLEAN,
                 finished : BOOLEAN, action : BOOLEAN]
  BY <1>2 DEF TypeOK
<1>4. 1 \in Positions
  BY DEF Positions
<1>5. finishing' \in [at : Positions, ok : BOOLEAN, failures : BOOLEAN,
                     caller : {"end", "close"}]
  BY <1>1, <1>4
<1> QED BY <1>3, <1>5

(* The five ways of one turn of the loop, as one. *)
LEMMA FinishOneSettles ==
  ASSUME FinishOne
  PROVE  \E s \in Completed \cup Rejected, failed \in BOOLEAN :
           /\ trx' = [trx EXCEPT ![opened[finishing.at]] = s]
           /\ finishing' = [finishing EXCEPT !.at = @ + 1, !.failures = @ \/ failed]
<1> DEFINE Resolve(s, failed) ==
             /\ trx' = [trx EXCEPT ![opened[finishing.at]] = s]
             /\ finishing' = [finishing EXCEPT !.at = @ + 1, !.failures = @ \/ failed]
<1>1. \/ Resolve("unopened", TRUE) \/ Resolve("stranded", TRUE)
      \/ Resolve("committed", FALSE)
      \/ Resolve("committed", TRUE) \/ Resolve("rolledback", TRUE)
      \/ Resolve("rolledback", FALSE)
  BY DEF FinishOne
<1> HIDE DEF Resolve
<1>2. \E s \in Completed \cup Rejected, failed \in BOOLEAN : Resolve(s, failed)
  BY <1>1 DEF Completed
<1> QED BY <1>2 DEF Resolve

LEMMA StepTypes == TypeOK /\ [Next]_vars => TypeOK'
<1> SUFFICES ASSUME TypeOK, [Next]_vars PROVE TypeOK'
  OBVIOUS
<1> USE DEF Positions
<1>1. CASE ArmAudit
  BY <1>1 DEF ArmAudit, TypeOK
<1>2. CASE DetachAuditRequest
  BY <1>2 DEF DetachAuditRequest, TypeOK
<1>3. CASE SetAuditAction
  BY <1>3 DEF SetAuditAction, TypeOK
<1>4. CASE ReapplyAuditSetting
  <2>1. renaming' \in [at : Positions, step : {"never", "running", "done", "failed"}]
    BY <1>4 DEF ReapplyAuditSetting, TypeOK
  <2>2. setting' \in [Databases -> BOOLEAN]
    BY <1>4 DEF ReapplyAuditSetting, TypeOK
  <2> QED BY <1>4, <2>1, <2>2 DEF ReapplyAuditSetting, TypeOK
<1>5. ASSUME NEW q \in Queries, NEW d \in Databases, Build(q, d) PROVE TypeOK'
  BY <1>5 DEF Build, TypeOK, Stages
<1>6. ASSUME NEW q \in Queries, NEW d \in Databases, OpenSavepoint(q, d)
      PROVE TypeOK'
  <2>1. trx' \in [Databases -> TrxStates] /\ opened' \in Seq(Databases)
    BY <1>6, EnsureTrxTypes DEF OpenSavepoint
  <2> QED BY <1>6, <2>1 DEF OpenSavepoint, TypeOK, Stages
<1>7. ASSUME NEW q \in Queries, BindLazily(q) PROVE TypeOK'
  <2>1. query[q].db \in Databases
    BY <1>7 DEF BindLazily, TypeOK
  <2>2. trx' \in [Databases -> TrxStates] /\ opened' \in Seq(Databases)
    BY <1>7, <2>1, EnsureTrxTypes DEF BindLazily
  <2> QED BY <1>7, <2>1, <2>2, StageTypes DEF BindLazily, TypeOK, Stages
<1>8. ASSUME NEW q \in Queries, RunOnPool(q) PROVE TypeOK'
  <2>1. query[q].db \in Databases
    BY <1>8 DEF RunOnPool, TypeOK
  <2> QED BY <1>8, <2>1, StageTypes DEF RunOnPool, TypeOK, Stages
<1>9. ASSUME NEW q \in Queries, RunInTrx(q) PROVE TypeOK'
  <2>1. query[q].db \in Databases
    BY <1>9 DEF RunInTrx, TypeOK
  <2>2. trx' \in [Databases -> TrxStates]
    <3>1. trx' = trx \/ \E s \in {"aborted", trx[query[q].db]} : trx' = [trx EXCEPT ![query[q].db] = s]
      BY <1>9 DEF RunInTrx
    <3>2. trx[query[q].db] \in TrxStates /\ "aborted" \in TrxStates
      BY <2>1 DEF TypeOK, TrxStates
    <3> QED BY <3>1, <3>2 DEF TypeOK
  <2>3. \E s \in Stages : Stage(q, s)
    BY <1>9 DEF RunInTrx, Stages
  <2> QED BY <1>9, <2>1, <2>2, <2>3, StageTypes DEF RunInTrx, TypeOK
<1>10. ASSUME NEW d \in Databases, OpenTransaction(d) PROVE TypeOK'
  <2>1. /\ \E s \in {"applying", "unopened"} : trx' = [trx EXCEPT ![d] = s]
        /\ setting' = setting \/ setting' = [setting EXCEPT ![d] = state.action]
        /\ UNCHANGED <<state, opened, query, renaming, finishing, res>>
    BY <1>10 DEF OpenTransaction
  <2>2. state.action \in BOOLEAN
    BY DEF TypeOK
  <2>3. trx' \in [Databases -> TrxStates]
    BY <2>1 DEF TypeOK, TrxStates, Pending
  <2>4. setting' \in [Databases -> BOOLEAN]
    BY <2>1, <2>2 DEF TypeOK
  <2> QED BY <2>1, <2>3, <2>4 DEF TypeOK
<1>11. ASSUME NEW d \in Databases, ApplyAuditSetting(d) PROVE TypeOK'
  BY <1>11 DEF ApplyAuditSetting, TypeOK, TrxStates
<1>12. ASSUME NEW s \in {"ok", "error"}, End(s) PROVE TypeOK'
  <2>1. res' \in [source : {"api", "job"}, ended : {None, "ok", "error"},
                 sent : {None, "ok", "error", "unknown"}, closed : BOOLEAN]
    <3>1. \E t \in {None, "ok", "error", "unknown"} :
            res' = [res EXCEPT !.ended = s, !.sent = t]
      <4>1. CASE state.finished \/ ~state.mutating
        <5>1. res' = [res EXCEPT !.ended = s, !.sent = s] /\ s \in {"ok", "error"}
          BY <1>12, <4>1 DEF End
        <5> QED BY <5>1
      <4>2. CASE ~(state.finished \/ ~state.mutating)
        <5>1. res' = [res EXCEPT !.ended = s]
          BY <1>12, <4>2 DEF End
        <5>2. res' = [res EXCEPT !.ended = s, !.sent = res.sent]
          BY <5>1 DEF TypeOK
        <5>3. res.sent \in {None, "ok", "error", "unknown"}
          BY DEF TypeOK
        <5> QED BY <5>2, <5>3
      <4> QED BY <4>1, <4>2
    <3> QED BY <1>12, <3>1 DEF TypeOK
  <2>2. \/ UNCHANGED <<state, finishing>>
        \/ FinishAuditRequest(s = "ok", "end")
    BY <1>12 DEF End
  <2> QED BY <1>12, <2>1, <2>2, FinishTypes DEF End, TypeOK
<1>13. CASE Close
  <2>1. res' \in [source : {"api", "job"}, ended : {None, "ok", "error"},
                 sent : {None, "ok", "error", "unknown"}, closed : BOOLEAN]
    BY <1>13 DEF Close, TypeOK
  <2>2. \/ UNCHANGED <<state, finishing>>
        \/ FinishAuditRequest(FALSE, "close")
    BY <1>13 DEF Close
  <2> QED BY <1>13, <2>1, <2>2, FinishTypes DEF Close, TypeOK
<1>14. CASE FinishOne
  <2>1. finishing \in [at : Positions, ok : BOOLEAN, failures : BOOLEAN,
                      caller : {"end", "close"}]
    BY <1>14 DEF FinishOne, TypeOK
  <2>2. PICK s \in Completed \cup Rejected, failed \in BOOLEAN :
          /\ trx' = [trx EXCEPT ![opened[finishing.at]] = s]
          /\ finishing' = [finishing EXCEPT !.at = @ + 1, !.failures = @ \/ failed]
    BY <1>14, FinishOneSettles
  <2> DEFINE more == finishing.failures \/ failed
  <2>5. finishing.at + 1 \in Positions /\ more \in BOOLEAN
    BY <2>1
  <2>6. finishing' = [finishing EXCEPT !.at = finishing.at + 1, !.failures = more]
    BY <2>2
  <2> HIDE DEF more
  <2>3. finishing' \in [at : Positions, ok : BOOLEAN, failures : BOOLEAN,
                       caller : {"end", "close"}]
    BY <2>1, <2>5, <2>6
  <2>4. trx' \in [Databases -> TrxStates]
    BY <2>2 DEF TypeOK, TrxStates
  <2> QED BY <1>14, <2>3, <2>4 DEF FinishOne, TypeOK
<1>15. CASE FinishAll
  BY <1>15 DEF FinishAll, TypeOK
<1>16. CASE UNCHANGED vars
  BY <1>16 DEF vars, TypeOK
<1> QED BY <1>1, <1>2, <1>3, <1>4, <1>5, <1>6, <1>7, <1>8, <1>9, <1>10, <1>11,
           <1>12, <1>13, <1>14, <1>15, <1>16 DEF Next, Over

(* Every variable of the request, its statements and its transactions      *)
(* keeps its type, whatever the client and the databases do.               *)
THEOREM TypeInvariance == Spec => []TypeOK
  BY InitTypes, StepTypes, PTL DEF Spec
-----------------------------------------------------------------------------
(* Who touches the flags.                                                  *)
LEMMA StateMoves ==
  ASSUME [Next]_vars
  PROVE  \/ \E s \in {"ok", "error"} : End(s) /\ FinishAuditRequest(s = "ok", "end")
         \/ Close /\ FinishAuditRequest(FALSE, "close")
         \/ UNCHANGED state
         \/ ArmAudit /\ state' = [state EXCEPT !.armed = TRUE]
         \/ DetachAuditRequest /\ state' = [state EXCEPT !.detached = TRUE]
         \/ SetAuditAction /\ state' = [state EXCEPT !.action = TRUE]
  BY DEF Next, ArmAudit, DetachAuditRequest, SetAuditAction, ReapplyAuditSetting, Build,
         OpenSavepoint, BindLazily, RunOnPool, RunInTrx, OpenTransaction,
         ApplyAuditSetting, End, Close, FinishOne, FinishAll, Over, vars

(* The flags only ever rise.                                               *)
LEMMA FlagSteps ==
  ASSUME TypeOK, [Next]_vars
  PROVE  /\ state'.mutating = state.mutating
         /\ state.action => state'.action
         /\ state.finished => state'.finished
<1>1. CASE UNCHANGED state
  BY <1>1
<1>2. CASE \/ state' = [state EXCEPT !.armed = TRUE]
           \/ state' = [state EXCEPT !.detached = TRUE]
           \/ state' = [state EXCEPT !.action = TRUE]
           \/ state' = [state EXCEPT !.finished = TRUE]
  BY <1>2 DEF TypeOK
<1> QED BY <1>1, <1>2, StateMoves DEF FinishAuditRequest

(* A transaction's first query makes room for it.                          *)
Opens(d) ==
  /\ trx[d] = "none"
  /\ trx' = [trx EXCEPT ![d] = "opening"]
  /\ opened' = Append(opened, d)
  /\ ~state.finished
  /\ \E q \in Queries : BindLazily(q) \/ OpenSavepoint(q, d)
  /\ UNCHANGED <<state, setting, renaming, finishing, res>>

(* A query that is no savepoint fails in an open one.                      *)
Aborts(q) ==
  /\ q \notin Savepoints
  /\ trx[query[q].db] = "open"
  /\ trx' = [trx EXCEPT ![query[q].db] = "aborted"]
  /\ Stage(q, "failed")
  /\ UNCHANGED <<state, opened, setting, renaming, finishing, res>>

LEMMA EnsureTrxOpens ==
  ASSUME NEW d \in Databases, EnsureTrx(d), ~state.finished,
         \E q \in Queries : BindLazily(q) \/ OpenSavepoint(q, d),
         UNCHANGED <<state, setting, renaming, finishing, res>>
  PROVE  UNCHANGED <<trx, opened>> \/ Opens(d)
  BY DEF EnsureTrx, Opens

(* Who touches the transactions.                                           *)
LEMMA TrxMoves ==
  ASSUME TypeOK, [Next]_vars
  PROVE  \/ UNCHANGED <<trx, opened>>
         \/ \E d \in Databases : Opens(d) \/ OpenTransaction(d) \/ ApplyAuditSetting(d)
         \/ \E q \in Queries : query[q].db \in Databases /\ Aborts(q)
         \/ FinishOne
<1>1. ASSUME NEW q \in Queries, NEW d \in Databases, OpenSavepoint(q, d)
      PROVE  UNCHANGED <<trx, opened>> \/ Opens(d)
  <2>1. ~state.finished
    BY <1>1 DEF OpenSavepoint, IsAmbientAuditActive
  <2>2. EnsureTrx(d) /\ UNCHANGED <<state, setting, renaming, finishing, res>>
    BY <1>1 DEF OpenSavepoint
  <2> QED BY <1>1, <2>1, <2>2, EnsureTrxOpens
<1>2. ASSUME NEW q \in Queries, BindLazily(q)
      PROVE  UNCHANGED <<trx, opened>> \/ \E d \in Databases : Opens(d)
  <2>1. query[q].db \in Databases
    BY <1>2 DEF BindLazily, TypeOK
  <2>2. /\ EnsureTrx(query[q].db) /\ ~state.finished
        /\ UNCHANGED <<state, setting, renaming, finishing, res>>
    BY <1>2 DEF BindLazily
  <2> QED BY <1>2, <2>1, <2>2, EnsureTrxOpens
<1>3. ASSUME NEW q \in Queries, RunInTrx(q)
      PROVE  UNCHANGED <<trx, opened>> \/ (query[q].db \in Databases /\ Aborts(q))
  <2>1. query[q].db \in Databases
    BY <1>3 DEF RunInTrx, TypeOK
  <2>2. UNCHANGED <<state, opened, setting, renaming, finishing, res>>
    BY <1>3 DEF RunInTrx
  <2>3. CASE UNCHANGED trx
    BY <2>2, <2>3
  <2>4. CASE /\ Stage(q, "failed")
             /\ trx' = [trx EXCEPT ![query[q].db] =
                          IF @ = "open" /\ q \notin Savepoints THEN "aborted" ELSE @]
    <3>1. CASE trx[query[q].db] = "open" /\ q \notin Savepoints
      BY <2>1, <2>2, <2>4, <3>1 DEF Aborts
    <3>2. CASE ~(trx[query[q].db] = "open" /\ q \notin Savepoints)
      <4>1. trx' = [trx EXCEPT ![query[q].db] = trx[query[q].db]]
        BY <2>4, <3>2
      <4> QED BY <2>2, <4>1 DEF TypeOK
    <3> QED BY <3>1, <3>2
  <2> QED BY <1>3, <2>3, <2>4 DEF RunInTrx
<1> QED
  BY <1>1, <1>2, <1>3
  DEF Next, ArmAudit, DetachAuditRequest, SetAuditAction, ReapplyAuditSetting, Build,
      RunOnPool, End, Close, FinishAll, Over, vars

LEMMA ListedStep ==
  ASSUME TypeOK, Listed, [Next]_vars
  PROVE  Listed'
<1>1. CASE UNCHANGED <<trx, opened>>
  BY <1>1 DEF Listed
<1>2. ASSUME NEW d \in Databases, Opens(d) PROVE Listed'
  <2>1. /\ Len(opened') = Len(opened) + 1 /\ Len(opened) \in Nat
        /\ \A i \in 1..Len(opened) : opened'[i] = opened[i]
        /\ opened'[Len(opened) + 1] = d
    BY <1>2 DEF Opens, TypeOK
  <2>2. \A i \in 1..Len(opened) : opened[i] # d
    BY <1>2 DEF Opens, Listed
  <2>3. \A e \in Databases : trx'[e] # "none" <=> trx[e] # "none" \/ e = d
    BY <1>2 DEF Opens, TypeOK
  <2>4. \A e \in Databases :
          trx'[e] # "none" <=> \E i \in 1..Len(opened') : opened'[i] = e
    BY <2>1, <2>3 DEF Listed
  <2>5. \A i, j \in 1..Len(opened') : opened'[i] = opened'[j] => i = j
    BY <2>1, <2>2 DEF Listed
  <2> QED BY <2>4, <2>5 DEF Listed
<1>3. ASSUME NEW d \in Databases, NEW s \in TrxStates \ {"none"},
             trx[d] # "none", trx' = [trx EXCEPT ![d] = s], UNCHANGED opened
      PROVE  Listed'
  BY <1>3 DEF Listed, TypeOK
<1>4. ASSUME NEW d \in Databases, OpenTransaction(d) \/ ApplyAuditSetting(d)
      PROVE  Listed'
  BY <1>3, <1>4 DEF OpenTransaction, ApplyAuditSetting, TrxStates, Pending
<1>5. ASSUME NEW q \in Queries, query[q].db \in Databases, Aborts(q) PROVE Listed'
  BY <1>3, <1>5 DEF Aborts, TrxStates
<1>6. CASE FinishOne
  <2>1. finishing.at \in 1..Len(opened)
    BY <1>6 DEF FinishOne, TypeOK, Positions
  <2>2. opened[finishing.at] \in Databases /\ trx[opened[finishing.at]] # "none"
    BY <1>6, <2>1 DEF FinishOne, TypeOK
  <2>3. UNCHANGED opened
    BY <1>6 DEF FinishOne
  <2> QED BY <1>3, <1>6, <2>2, <2>3, FinishOneSettles DEF TrxStates, Completed
<1> QED BY <1>1, <1>2, <1>4, <1>5, <1>6, TrxMoves

(* Who touches the response and the loop that settles it.                  *)
LEMMA ResMoves ==
  ASSUME [Next]_vars
  PROVE  \/ UNCHANGED <<res, finishing>>
         \/ \E s \in {"ok", "error"} : End(s)
         \/ Close \/ FinishOne \/ FinishAll
  BY DEF Next, ArmAudit, DetachAuditRequest, SetAuditAction, ReapplyAuditSetting, Build,
         OpenSavepoint, BindLazily, RunOnPool, RunInTrx, OpenTransaction,
         ApplyAuditSetting, Over, vars

(* A statement that is run or settled is on the facade it was built with.  *)
LEMMA PlainStaysPlain ==
  ASSUME TypeOK, [Next]_vars, ~state.mutating,
         \A q \in Queries : query[q].facade = "plain"
  PROVE  \A q \in Queries : query'[q].facade = "plain"
<1>1. ASSUME NEW q \in Queries, NEW s, Stage(q, s)
      PROVE  \A r \in Queries : query'[r].facade = "plain"
  BY <1>1 DEF Stage, TypeOK
<1>2. ASSUME NEW q \in Queries, NEW d \in Databases, Build(q, d)
      PROVE  \A r \in Queries : query'[r].facade = "plain"
  <2>1. ~IsAmbientAuditActive
    BY DEF IsAmbientAuditActive
  <2> QED BY <1>2, <2>1 DEF Build, TypeOK
<1>3. ASSUME NEW q \in Queries, NEW d \in Databases PROVE ~OpenSavepoint(q, d)
  BY DEF OpenSavepoint, IsAmbientAuditActive
<1>4. CASE UNCHANGED query
  BY <1>4
<1> QED
  BY <1>1, <1>2, <1>3, <1>4
  DEF Next, ArmAudit, DetachAuditRequest, SetAuditAction, ReapplyAuditSetting,
      BindLazily, RunOnPool, RunInTrx, OpenTransaction, ApplyAuditSetting, End, Close,
      FinishOne, FinishAll, Over, vars

(* The end of a request, field by field.                                   *)
FinishMoves(ok, caller) ==
  /\ finishing' # None /\ state'.finished
  /\ finishing'.at = 1
  /\ finishing'.failures = FALSE
  /\ finishing'.ok <=> ok
  /\ finishing'.caller = caller

LEMMA FinishSteps ==
  ASSUME TypeOK, NEW ok \in BOOLEAN, NEW caller \in {"end", "close"},
         FinishAuditRequest(ok, caller)
  PROVE  FinishMoves(ok, caller)
<1>1. finishing' = [at |-> 1, ok |-> ok, failures |-> FALSE, caller |-> caller]
  BY DEF FinishAuditRequest
<1>2. state' = [state EXCEPT !.finished = TRUE]
  BY DEF FinishAuditRequest
<1>3. state'.finished
  BY <1>2 DEF TypeOK
<1>4. finishing' \in [at : Nat, ok : BOOLEAN, failures : BOOLEAN,
                     caller : {"end", "close"}]
  BY <1>1
<1>5. finishing' # None
  BY <1>4, AmbientAssumption
<1> QED BY <1>1, <1>3, <1>5 DEF FinishMoves

LEMMA TypeOfFinishing ==
  ASSUME TypeOK, finishing # None
  PROVE  finishing \in [at : Positions, ok : BOOLEAN, failures : BOOLEAN,
                       caller : {"end", "close"}]
  BY DEF TypeOK

LEMMA FinishedStep ==
  ASSUME TypeOK, Listed, Finished, [Next]_vars
  PROVE  Finished'
<1>1. state'.mutating = state.mutating /\ (state.finished => state'.finished)
  BY FlagSteps
<1>2. ~state'.mutating
        => /\ \A d \in Databases : trx'[d] = "none"
           /\ \A q \in Queries : query'[q].facade = "plain"
  <2> SUFFICES ASSUME ~state.mutating
               PROVE  /\ \A d \in Databases : trx'[d] = "none"
                      /\ \A q \in Queries : query'[q].facade = "plain"
    BY <1>1
  <2>1. \A q \in Queries : query'[q].facade = "plain"
    BY PlainStaysPlain DEF Finished
  <2>2. \A d \in Databases : trx[d] = "none"
    BY DEF Finished
  <2>3. ASSUME NEW d \in Databases PROVE ~Opens(d)
    BY DEF Opens, BindLazily, OpenSavepoint, IsAmbientAuditActive, Finished
  <2>4. ~FinishOne
    BY DEF FinishOne, Finished
  <2>5. ASSUME NEW d \in Databases PROVE ~OpenTransaction(d) /\ ~ApplyAuditSetting(d)
    BY <2>2 DEF OpenTransaction, ApplyAuditSetting
  <2>6. ASSUME NEW q \in Queries, query[q].db \in Databases PROVE ~Aborts(q)
    BY <2>2, <2>6 DEF Aborts
  <2> QED BY <2>1, <2>2, <2>3, <2>4, <2>5, <2>6, TrxMoves
<1>3. CASE UNCHANGED <<res, finishing>>
  <2>1. state'.finished = state.finished
    BY <1>3, StateMoves, AmbientAssumption DEF End, Close, FinishAuditRequest, TypeOK
  <2> QED BY <1>1, <1>2, <1>3, <2>1 DEF Finished
<1>4. ASSUME NEW s \in {"ok", "error"}, End(s) PROVE Finished'
  <2>1. res.ended = None /\ res'.ended = s /\ res'.closed = res.closed
    BY <1>4 DEF End, TypeOK
  <2>2. CASE state.finished \/ ~state.mutating
    <3>1. res'.sent = s /\ UNCHANGED <<state, finishing>>
      BY <1>4, <2>2 DEF End, TypeOK
    <3> QED BY <1>2, <2>1, <2>2, <3>1, AmbientAssumption DEF Finished
  <2>3. CASE ~(state.finished \/ ~state.mutating)
    <3>1. FinishAuditRequest(s = "ok", "end") /\ res'.sent = res.sent
      BY <1>4, <2>3 DEF End, TypeOK
    <3>2. FinishMoves(s = "ok", "end")
      BY <3>1, FinishSteps
    <3>3. ~res.closed /\ res.sent = None
      BY <2>3 DEF Finished
    <3> QED BY <1>1, <1>2, <2>1, <2>3, <3>1, <3>2, <3>3, AmbientAssumption
            DEF Finished, FinishMoves
  <2> QED BY <2>2, <2>3
<1>5. CASE Close
  <2>1. /\ res.sent = None /\ ~res.closed /\ res'.closed
        /\ res'.sent = res.sent /\ res'.ended = res.ended
    BY <1>5 DEF Close, TypeOK
  <2>2. CASE state.finished \/ ~state.mutating
    <3>1. UNCHANGED <<state, finishing>>
      BY <1>5, <2>2 DEF Close
    <3> QED BY <1>2, <2>1, <2>2, <3>1 DEF Finished
  <2>3. CASE ~(state.finished \/ ~state.mutating)
    <3>1. FinishMoves(FALSE, "close")
      BY <1>5, <2>3, FinishSteps DEF Close
    <3> QED BY <1>1, <1>2, <2>1, <2>3, <3>1 DEF Finished, FinishMoves
  <2> QED BY <2>2, <2>3
<1>6. CASE FinishOne
  <2>1. UNCHANGED <<state, res>> /\ finishing # None
    BY <1>6 DEF FinishOne
  <2>2. finishing'.caller = finishing.caller /\ finishing'.ok = finishing.ok
    BY <1>6, FinishOneSettles, TypeOfFinishing DEF FinishOne
  <2> QED BY <1>2, <2>1, <2>2 DEF Finished
<1>7. CASE FinishAll
  <2>1. /\ finishing # None /\ finishing' = None /\ UNCHANGED state
        /\ res'.ended = res.ended /\ res'.closed = res.closed
    BY <1>7 DEF FinishAll, TypeOK
  <2>2. res' = res \/ res.ended # None
    BY <1>7, <2>1, TypeOfFinishing DEF FinishAll, Finished
  <2> QED BY <1>2, <2>1, <2>2 DEF Finished
<1> QED BY <1>3, <1>4, <1>5, <1>6, <1>7, ResMoves

-----------------------------------------------------------------------------
(* One turn of the loop, case by case: for a success it keeps what is      *)
(* open, and drops nothing unless the transaction was aborted.             *)
Turn(s, failed) ==
  /\ trx' = [trx EXCEPT ![opened[finishing.at]] = s]
  /\ finishing' # None
  /\ finishing'.at = finishing.at + 1
  /\ finishing'.ok = finishing.ok /\ finishing'.caller = finishing.caller
  /\ finishing'.failures <=> finishing.failures \/ failed

LEMMA TurnTaken ==
  ASSUME TypeOK, FinishOne
  PROVE  /\ finishing # None /\ finishing.at \in 1..Len(opened)
         /\ opened[finishing.at] \in Databases
         /\ UNCHANGED <<state, opened, setting, query, renaming, res>>
         /\ \/ \E s \in Rejected : trx[opened[finishing.at]] = s /\ Turn(s, TRUE)
            \/ /\ trx[opened[finishing.at]] = "open" /\ finishing.ok
               /\ \E failed \in BOOLEAN : Turn("committed", failed)
            \/ /\ trx[opened[finishing.at]] = "open"
               /\ \E failed \in BOOLEAN :
                    (finishing.ok => failed) /\ Turn("rolledback", failed)
            \/ trx[opened[finishing.at]] = "aborted" /\ Turn("rolledback", FALSE)
<1>1. /\ finishing # None /\ finishing.at \in 1..Len(opened)
      /\ UNCHANGED <<state, opened, setting, query, renaming, res>>
  BY DEF FinishOne, TypeOK, Positions
<1>2. opened[finishing.at] \in Databases
  BY <1>1 DEF TypeOK
<1> DEFINE Resolve(s, failed) ==
             /\ trx' = [trx EXCEPT ![opened[finishing.at]] = s]
             /\ finishing' = [finishing EXCEPT !.at = @ + 1, !.failures = @ \/ failed]
<1>3. ASSUME NEW s, NEW failed \in BOOLEAN, Resolve(s, failed)
      PROVE  Turn(s, failed)
  <2>1. finishing \in [at : Positions, ok : BOOLEAN, failures : BOOLEAN,
                      caller : {"end", "close"}]
    BY <1>1, TypeOfFinishing
  <2> DEFINE more == finishing.failures \/ failed
  <2>2. finishing' = [finishing EXCEPT !.at = finishing.at + 1, !.failures = more]
    BY <1>3
  <2>3. more \in BOOLEAN /\ finishing.at + 1 \in Nat
    BY <2>1 DEF Positions
  <2> HIDE DEF more
  <2>4. /\ finishing'.at = finishing.at + 1 /\ finishing'.failures = more
        /\ finishing'.ok = finishing.ok /\ finishing'.caller = finishing.caller
    BY <2>1, <2>2
  <2>5. finishing' \in [at : Nat, ok : BOOLEAN, failures : BOOLEAN,
                       caller : {"end", "close"}]
    BY <2>1, <2>2, <2>3
  <2>6. finishing' # None
    BY <2>5, AmbientAssumption
  <2> QED BY <1>3, <2>4, <2>6 DEF Turn, more
<1>4. \/ \E s \in Rejected : trx[opened[finishing.at]] = s /\ Resolve(s, TRUE)
      \/ /\ trx[opened[finishing.at]] = "open" /\ finishing.ok
         /\ Resolve("committed", TRUE) \/ Resolve("committed", FALSE)
      \/ /\ trx[opened[finishing.at]] = "open"
         /\ \/ Resolve("rolledback", TRUE)
            \/ ~finishing.ok /\ Resolve("rolledback", FALSE)
      \/ trx[opened[finishing.at]] = "aborted" /\ Resolve("rolledback", FALSE)
  BY DEF FinishOne
<1> HIDE DEF Resolve
<1>5. TRUE \in BOOLEAN /\ FALSE \in BOOLEAN
  OBVIOUS
<1> QED BY <1>1, <1>2, <1>3, <1>4, <1>5

(* A statement that is in a transaction was there, or found it open.       *)
LEMMA InTrxMoves ==
  ASSUME TypeOK, [Next]_vars, NEW q \in Queries, query'[q].stage = "inTrx"
  PROVE  /\ query[q].stage # "idle" /\ query'[q].db = query[q].db
         /\ \/ query[q].stage = "inTrx"
            \/ trx[query[q].db] = "open" /\ UNCHANGED trx
<1>1. ASSUME NEW r \in Queries, NEW s \in Stages, Stage(r, s), query[r].stage # "idle"
      PROVE  /\ query[q].stage # "idle" /\ query'[q].db = query[q].db
             /\ query[q].stage = "inTrx" \/ (q = r /\ s = "inTrx")
  <2>1. CASE q = r
    BY <1>1, <2>1 DEF Stage, TypeOK
  <2>2. CASE q # r
    BY <1>1, <2>2 DEF Stage, TypeOK
  <2> QED BY <2>1, <2>2
<1>2. ASSUME NEW r \in Queries, NEW d \in Databases,
             Build(r, d) \/ OpenSavepoint(r, d)
      PROVE  UNCHANGED query[q]
  BY <1>2 DEF Build, OpenSavepoint, TypeOK
<1>3. ASSUME NEW r \in Queries, BindLazily(r) \/ RunOnPool(r) \/ RunInTrx(r)
      PROVE  /\ query[q].stage # "idle" /\ query'[q].db = query[q].db
             /\ \/ query[q].stage = "inTrx"
                \/ trx[query[q].db] = "open" /\ UNCHANGED trx
  <2>1. PICK s \in Stages : /\ Stage(r, s) /\ query[r].stage # "idle"
                            /\ s = "inTrx" => trx[query[r].db] = "open" /\ UNCHANGED trx
    BY <1>3 DEF BindLazily, RunOnPool, RunInTrx, Stages
  <2> QED BY <1>1, <2>1
<1>4. CASE UNCHANGED query
  BY <1>4
<1> QED
  BY <1>2, <1>3, <1>4
  DEF Next, ArmAudit, DetachAuditRequest, SetAuditAction, ReapplyAuditSetting,
      OpenTransaction, ApplyAuditSetting, End, Close, FinishOne, FinishAll, Over, vars

LEMMA ResolvedStep ==
  ASSUME TypeOK, Listed, Finished, Resolved, [Next]_vars
  PROVE  Resolved'
<1>1. \A d \in Databases : trx'[d] = "committed" => res'.ended = "ok"
  <2> SUFFICES ASSUME NEW d \in Databases, trx'[d] = "committed"
               PROVE  res'.ended = "ok"
    OBVIOUS
  <2>1. trx[d] = "committed" => res'.ended = "ok"
    BY ResMoves, AmbientAssumption DEF Resolved, End, Close, FinishOne, FinishAll, TypeOK
  <2>2. CASE FinishOne
    <3>1. (finishing # None /\ finishing.ok) \/ trx[d] = "committed"
      BY <2>2, TurnTaken DEF Turn, TypeOK
    <3>2. finishing # None /\ finishing.ok => res.ended = "ok"
      BY TypeOfFinishing DEF Finished
    <3> QED BY <2>1, <2>2, <3>1, <3>2, TurnTaken
  <2>3. CASE UNCHANGED trx
    BY <2>1, <2>3
  <2>4. ASSUME NEW e \in Databases, NEW s \in TrxStates \ {"committed"},
               trx' = [trx EXCEPT ![e] = s]
        PROVE  trx[d] = "committed"
    BY <2>4 DEF TypeOK
  <2> QED BY <2>1, <2>2, <2>3, <2>4, TrxMoves
          DEF Opens, OpenTransaction, ApplyAuditSetting, Aborts, TrxStates, Pending
<1>2. finishing' # None
        => \A i \in 1..Len(opened') :
             i < finishing'.at => trx'[opened'[i]] \in Completed \cup Rejected
  <2> SUFFICES ASSUME finishing' # None, NEW i \in 1..Len(opened'), i < finishing'.at
               PROVE  trx'[opened'[i]] \in Completed \cup Rejected
    OBVIOUS
  <2>1. CASE FinishOne
    BY <2>1, TurnTaken DEF Turn, Resolved, TypeOK, Completed
  <2>2. CASE finishing # None /\ ~FinishOne
    <3>1. state.finished /\ UNCHANGED finishing
      BY <2>2, ResMoves DEF End, Close, FinishAll, Finished
    <3>2. ASSUME NEW d \in Databases PROVE ~Opens(d)
      BY <3>1 DEF Opens
    <3>3. UNCHANGED opened
      BY <2>2, <3>2, TrxMoves DEF OpenTransaction, ApplyAuditSetting, Aborts
    <3>4. /\ opened[i] \in Databases
          /\ trx[opened[i]] \in Completed \cup Rejected
      BY <2>2, <3>1, <3>3 DEF Resolved, TypeOK
    <3> QED BY <2>2, <3>2, <3>3, <3>4, TrxMoves
            DEF OpenTransaction, ApplyAuditSetting, Aborts, TypeOK, Completed
  <2>3. CASE finishing = None
    <3>1. \/ \E s \in {"ok", "error"} : FinishAuditRequest(s = "ok", "end")
          \/ FinishAuditRequest(FALSE, "close")
      BY <2>3, ResMoves DEF End, Close, FinishOne, FinishAll
    <3>2. finishing'.at = 1
      BY <3>1 DEF FinishAuditRequest
    <3>3. Len(opened') \in Nat
      BY StepTypes DEF TypeOK
    <3> QED BY <3>2, <3>3
  <2> QED BY <2>1, <2>2, <2>3
<1>3. \A q \in Queries :
        query'[q].stage = "inTrx"
          => trx'[query'[q].db] \in {"open", "aborted"} \cup Completed
  <2> SUFFICES ASSUME NEW q \in Queries, query'[q].stage = "inTrx"
               PROVE  trx'[query'[q].db] \in {"open", "aborted"} \cup Completed
    OBVIOUS
  <2>1. query'[q].db = query[q].db /\ query[q].db \in Databases
    BY InTrxMoves DEF TypeOK
  <2>2. CASE trx[query[q].db] = "open" /\ UNCHANGED trx
    BY <2>1, <2>2
  <2>3. CASE query[q].stage = "inTrx"
    <3>1. trx[query[q].db] \in {"open", "aborted"} \cup Completed
      BY <2>3 DEF Resolved
    <3>2. CASE FinishOne
      BY <2>1, <3>1, <3>2, TurnTaken DEF Turn, TypeOK, Completed
    <3> QED BY <2>1, <3>1, <3>2, TrxMoves
            DEF Opens, OpenTransaction, ApplyAuditSetting, Aborts, TypeOK, Completed
  <2> QED BY <2>2, <2>3, InTrxMoves
<1> QED BY <1>1, <1>2, <1>3 DEF Resolved

-----------------------------------------------------------------------------
(* The action.                                                             *)
LEMMA RenamingMoves ==
  ASSUME [Next]_vars
  PROVE  \/ UNCHANGED <<renaming, setting>>
         \/ SetAuditAction \/ ReapplyAuditSetting
         \/ \E d \in Databases : OpenTransaction(d)
  BY DEF Next, ArmAudit, DetachAuditRequest, Build, OpenSavepoint, BindLazily, RunOnPool,
         RunInTrx, ApplyAuditSetting, End, Close, FinishOne, FinishAll, Over, vars

LEMMA RenamedStep ==
  ASSUME TypeOK, Listed, Renamed, [Next]_vars
  PROVE  Renamed'
<1>1. renaming'.step # "never" => state'.action
  <2>1. CASE SetAuditAction
    BY <2>1 DEF SetAuditAction, TypeOK
  <2>2. CASE ~SetAuditAction
    <3>1. renaming'.step # "never" => renaming.step # "never"
      BY <2>2, RenamingMoves DEF ReapplyAuditSetting, OpenTransaction
    <3> QED BY <3>1, FlagSteps DEF Renamed
  <2> QED BY <2>1, <2>2
(* What carries the action goes on carrying it, and an opening takes it up. *)
<1>2. ASSUME NEW d \in Databases, renaming.step \in {"running", "done"},
             trx[d] # "none", trx[d] \in {"applying", "open"} => setting[d],
             trx'[d] \in {"applying", "open"}
      PROVE  setting'[d]
  <2>1. CASE OpenTransaction(d)
    <3>1. state.action
      BY <1>2 DEF Renamed
    <3>2. trx'[d] = "applying" /\ setting' = [setting EXCEPT ![d] = state.action]
      BY <1>2, <2>1 DEF OpenTransaction, TypeOK
    <3> QED BY <3>1, <3>2 DEF TypeOK
  <2>2. CASE ~OpenTransaction(d)
    <3>1. trx[d] \in {"applying", "open"}
      <4>1. CASE FinishOne
        BY <1>2, <4>1, TurnTaken DEF Turn, TypeOK
      <4>2. CASE UNCHANGED trx
        BY <1>2, <4>2
      <4>3. ASSUME NEW e \in Databases, Opens(e) \/ OpenTransaction(e)
            PROVE  trx[d] \in {"applying", "open"}
        BY <1>2, <2>2, <4>3 DEF Opens, OpenTransaction, TypeOK
      <4>4. ASSUME NEW e \in Databases, ApplyAuditSetting(e)
            PROVE  trx[d] \in {"applying", "open"}
        BY <1>2, <4>4 DEF ApplyAuditSetting, TypeOK
      <4>5. ASSUME NEW q \in Queries, query[q].db \in Databases, Aborts(q)
            PROVE  trx[d] \in {"applying", "open"}
        BY <1>2, <4>5 DEF Aborts, TypeOK
      <4> QED BY <4>1, <4>2, <4>3, <4>4, <4>5, TrxMoves
    <3>2. setting[d]
      BY <1>2, <3>1
    <3>3. ASSUME NEW e \in Databases, OpenTransaction(e) PROVE setting'[d] = setting[d]
      BY <2>2, <3>3 DEF OpenTransaction, TypeOK
    <3>4. CASE ReapplyAuditSetting
      BY <3>2, <3>4 DEF ReapplyAuditSetting, TypeOK
    <3>5. CASE SetAuditAction
      BY <3>2, <3>5 DEF SetAuditAction
    <3> QED BY <3>2, <3>3, <3>4, <3>5, RenamingMoves
  <2> QED BY <2>1, <2>2
<1>3. ASSUME NEW d \in Databases, trx'[d] \in {"applying", "open"}
      PROVE  trx[d] # "none"
  BY <1>3, TrxMoves, TurnTaken
  DEF Opens, OpenTransaction, ApplyAuditSetting, Aborts, Turn, TypeOK
<1>4. renaming'.step = "never" => renaming'.at = 1
  BY RenamingMoves DEF Renamed, SetAuditAction, ReapplyAuditSetting, OpenTransaction, TypeOK
<1>5. ASSUME renaming'.step = "running", NEW i \in 1..Len(opened'), i < renaming'.at,
             trx'[opened'[i]] \in {"applying", "open"}
      PROVE  setting'[opened'[i]]
  <2>1. opened'[i] \in Databases
    BY <1>5, StepTypes DEF TypeOK
  <2>2. CASE SetAuditAction
    BY <1>5, <2>2 DEF SetAuditAction, Renamed, TypeOK
  <2>3. CASE ReapplyAuditSetting
    <3>1. /\ UNCHANGED <<trx, opened>> /\ renaming.step = "running"
          /\ renaming.at \in 1..Len(opened) /\ renaming'.at = renaming.at + 1
          /\ setting' = [setting EXCEPT ![opened[renaming.at]] = TRUE]
      BY <1>5, <2>3 DEF ReapplyAuditSetting, TypeOK, Positions
    <3>2. CASE opened[i] = opened[renaming.at]
      BY <2>1, <3>1, <3>2 DEF TypeOK
    <3>3. CASE opened[i] # opened[renaming.at]
      <4>1. i < renaming.at
        BY <1>5, <3>1, <3>3 DEF TypeOK, Positions
      <4>2. setting[opened[i]]
        BY <1>5, <3>1, <4>1 DEF Renamed
      <4> QED BY <2>1, <3>1, <3>3, <4>2 DEF TypeOK
    <3> QED BY <3>2, <3>3
  <2>4. CASE ~SetAuditAction /\ ~ReapplyAuditSetting
    <3>1. UNCHANGED renaming
      BY <2>4, RenamingMoves DEF OpenTransaction
    <3>2. trx[opened'[i]] # "none"
      BY <1>3, <1>5, <2>1
    <3>3. i \in 1..Len(opened) /\ opened'[i] = opened[i]
      <4>1. CASE UNCHANGED opened
        BY <4>1
      <4>2. ASSUME NEW d \in Databases, Opens(d)
            PROVE  i \in 1..Len(opened) /\ opened'[i] = opened[i]
        BY <3>2, <4>2 DEF Opens, TypeOK
      <4> QED BY <4>1, <4>2, TrxMoves, TurnTaken
              DEF OpenTransaction, ApplyAuditSetting, Aborts
    <3>4. trx[opened[i]] \in {"applying", "open"} => setting[opened[i]]
      BY <1>5, <3>1, <3>3 DEF Renamed
    <3> QED BY <1>2, <1>5, <2>1, <3>1, <3>2, <3>3, <3>4
  <2> QED BY <2>2, <2>3, <2>4
<1>6. ASSUME renaming'.step = "done", NEW d \in Databases,
             trx'[d] \in {"applying", "open"}
      PROVE  setting'[d]
  <2>1. CASE renaming.step = "done"
    BY <1>2, <1>3, <1>6, <2>1 DEF Renamed
  <2>2. CASE renaming.step # "done"
    <3>1. /\ UNCHANGED <<trx, opened, setting>> /\ renaming.step = "running"
          /\ renaming.at > Len(opened)
      BY <1>6, <2>2, RenamingMoves
      DEF SetAuditAction, ReapplyAuditSetting, OpenTransaction, TypeOK
    <3>2. PICK i \in 1..Len(opened) : opened[i] = d
      BY <1>3, <1>6 DEF Listed
    <3>3. i < renaming.at
      BY <3>1, <3>2 DEF TypeOK, Positions
    <3> QED BY <1>6, <3>1, <3>2, <3>3 DEF Renamed
  <2> QED BY <2>1, <2>2
<1> QED BY <1>1, <1>4, <1>5, <1>6 DEF Renamed

Inv == TypeOK /\ Listed /\ Finished /\ Resolved /\ Renamed

LEMMA InvInitially == Init => Inv
<1> SUFFICES ASSUME Init PROVE Inv
  OBVIOUS
<1>1. TypeOK
  BY InitTypes
<1>2. /\ opened = <<>> /\ finishing = None
      /\ renaming = [at |-> 1, step |-> "never"]
      /\ \A d \in Databases : trx[d] = "none"
      /\ \A q \in Queries : query[q].stage = "idle" /\ query[q].facade = "plain"
  BY DEF Init
<1>3. ~state.finished /\ ~res.closed /\ res.sent = None /\ res.ended = None
  BY DEF Init
<1> QED BY <1>1, <1>2, <1>3 DEF Inv, Listed, Finished, Resolved, Renamed

LEMMA InvStep == Inv /\ [Next]_vars => Inv'
  BY StepTypes, ListedStep, FinishedStep, ResolvedStep, RenamedStep DEF Inv

LEMMA Invariance == Spec => []Inv
  BY InvInitially, InvStep, PTL DEF Spec

(* setAuditAction keeps its promise for any number of databases, whether a *)
(* transaction was open, was being opened or was opened afterwards.        *)
THEOREM ActionsReach == Spec => []ActionReachesEveryTransaction
<1>1. Inv => ActionReachesEveryTransaction
  BY DEF Inv, Renamed, ActionReachesEveryTransaction
<1> QED BY <1>1, Invariance, PTL

-----------------------------------------------------------------------------
(* The heeded failures, and what is told of them.                          *)

(* A statement goes forward, and starts only where its handler still runs. *)
LEMMA StageMoves ==
  ASSUME TypeOK, [Next]_vars, NEW q \in Queries
  PROVE  \/ query'[q].stage = query[q].stage
         \/ /\ query[q].stage = "idle" /\ Runs(q)
            /\ query'[q].stage \in {"built", "waiting"}
         \/ query[q].stage \in {"built", "waiting"}
<1>1. ASSUME NEW r \in Queries, NEW s, Stage(r, s), query[r].stage \in {"built", "waiting"}
      PROVE  \/ query'[q].stage = query[q].stage
             \/ query[q].stage \in {"built", "waiting"}
  BY <1>1 DEF Stage, TypeOK
<1>2. ASSUME NEW r \in Queries, NEW d \in Databases,
             Build(r, d) \/ OpenSavepoint(r, d)
      PROVE  \/ query'[q].stage = query[q].stage
             \/ /\ query[q].stage = "idle" /\ Runs(q)
                /\ query'[q].stage \in {"built", "waiting"}
  BY <1>2 DEF Build, OpenSavepoint, TypeOK
<1>3. ASSUME NEW r \in Queries, BindLazily(r) \/ RunOnPool(r) \/ RunInTrx(r)
      PROVE  \/ query'[q].stage = query[q].stage
             \/ query[q].stage \in {"built", "waiting"}
  BY <1>1, <1>3 DEF BindLazily, RunOnPool, RunInTrx
<1>4. CASE UNCHANGED query
  BY <1>4
<1> QED
  BY <1>2, <1>3, <1>4
  DEF Next, ArmAudit, DetachAuditRequest, SetAuditAction, ReapplyAuditSetting,
      OpenTransaction, ApplyAuditSetting, End, Close, FinishOne, FinishAll, Over, vars

LEMMA HeededStep ==
  ASSUME FailuresHeeded, TypeOK, HeededFailures, [Next]_vars
  PROVE  HeededFailures'
<1>1. ASSUME NEW d \in Databases, trx'[d] = "aborted"
      PROVE  \E q \in Queries \ Unheeded : query'[q].stage = "failed"
  <2>1. CASE trx[d] = "aborted"
    <3>1. PICK q \in Queries \ Unheeded : query[q].stage = "failed"
      BY <2>1 DEF HeededFailures
    <3> QED BY <3>1, StageMoves
  <2>2. ASSUME NEW q \in Queries, Aborts(q)
        PROVE  \E r \in Queries \ Unheeded : query'[r].stage = "failed"
    <3>1. q \notin Unheeded /\ query'[q].stage = "failed"
      BY <2>2 DEF Aborts, Stage, TypeOK, FailuresHeeded
    <3> QED BY <3>1
  <2>3. CASE trx[d] # "aborted"
    BY <1>1, <2>2, <2>3, TrxMoves, TurnTaken
    DEF Opens, OpenTransaction, ApplyAuditSetting, Turn, TypeOK
  <2> QED BY <2>1, <2>3
<1>2. ASSUME res'.ended = "ok"
      PROVE  /\ \A q \in Queries \ Unheeded : query'[q].stage # "failed"
             /\ \A q \in Queries \ Loose : query'[q].stage \notin {"built", "waiting"}
  <2>1. CASE res.ended = "ok"
    BY <2>1, StageMoves, AmbientAssumption DEF HeededFailures, Runs
  <2>2. CASE res.ended # "ok"
    <3>1. Heeded /\ UNCHANGED query
      BY <1>2, <2>2, ResMoves DEF End, Close, FinishOne, FinishAll, TypeOK
    <3> QED BY <3>1 DEF Heeded
  <2> QED BY <2>1, <2>2
<1> QED BY <1>1, <1>2 DEF HeededFailures

LEMMA OnlyMutatingOpens ==
  ASSUME Finished, NEW d \in Databases, Opens(d)
  PROVE  state.mutating /\ ~state.finished
  BY DEF Opens, BindLazily, OpenSavepoint, IsAmbientAuditActive, Finished

(* What the loop of a success has passed without a failure is kept.        *)
LEMMA KeptStep ==
  ASSUME TypeOK, Listed, Finished, HeededFailures, Truthful, [Next]_vars,
         finishing' # None, finishing'.ok, ~finishing'.failures,
         NEW i \in 1..Len(opened'), i < finishing'.at
  PROVE  trx'[opened'[i]] = "committed"
<1>1. CASE FinishOne
  <2>1. \E s \in Completed \cup Rejected, failed \in BOOLEAN : Turn(s, failed)
    BY <1>1, TurnTaken DEF Completed
  <2>2. PICK s \in Completed \cup Rejected, failed \in BOOLEAN : Turn(s, failed)
    BY <2>1
  <2>3. finishing.ok /\ ~finishing.failures /\ ~failed
    <3>1. finishing'.ok = finishing.ok
      BY <2>2 DEF Turn
    <3>2. finishing'.failures <=> finishing.failures \/ failed
      BY <2>2 DEF Turn
    <3>3. finishing.ok
      BY <3>1
    <3>4. ~(finishing.failures \/ failed)
      BY <3>2
    <3> QED BY <3>3, <3>4
  <2>4. i \in 1..Len(opened) /\ opened'[i] = opened[i] /\ opened[i] \in Databases
    <3>1. UNCHANGED opened
      BY <1>1 DEF FinishOne
    <3> QED BY <3>1 DEF TypeOK
  <2>5. CASE i = finishing.at
    <3>1. finishing # None /\ res.ended = "ok"
      BY <1>1, <2>3, TurnTaken, TypeOfFinishing DEF Finished
    <3>2. trx[opened[i]] # "aborted"
      BY <2>4, <3>1 DEF HeededFailures
    <3>3. Turn("committed", FALSE)
      BY <1>1, <2>3, <2>5, <3>2, TurnTaken DEF Turn
    <3> QED BY <2>4, <2>5, <3>3 DEF Turn, TypeOK
  <2>6. CASE i # finishing.at
    <3>1. i < finishing.at /\ finishing.at \in 1..Len(opened)
      BY <1>1, <2>2, <2>6, TurnTaken DEF Turn
    <3>2. trx[opened[i]] = "committed" /\ opened[i] # opened[finishing.at]
      BY <1>1, <2>3, <2>4, <2>6, <3>1, TurnTaken DEF Truthful, Listed
    <3> QED BY <2>2, <2>4, <3>2 DEF Turn, TypeOK
  <2> QED BY <2>5, <2>6
<1>2. CASE finishing # None /\ ~FinishOne
  <2>1. state.finished /\ UNCHANGED finishing
    BY <1>2, ResMoves DEF End, Close, FinishAll, Finished
  <2>2. ASSUME NEW d \in Databases PROVE ~Opens(d)
    BY <2>1 DEF Opens
  <2>3. UNCHANGED opened
    BY <1>2, <2>2, TrxMoves DEF OpenTransaction, ApplyAuditSetting, Aborts
  <2>4. opened[i] \in Databases /\ trx[opened[i]] = "committed"
    BY <1>2, <2>1, <2>3 DEF Truthful, TypeOK
  <2> QED BY <1>2, <2>2, <2>3, <2>4, TrxMoves
          DEF OpenTransaction, ApplyAuditSetting, Aborts, TypeOK
<1>3. CASE finishing = None
  <2>1. \/ \E s \in {"ok", "error"} : FinishAuditRequest(s = "ok", "end")
        \/ FinishAuditRequest(FALSE, "close")
    BY <1>3, ResMoves DEF End, Close, FinishOne, FinishAll
  <2>2. finishing'.at = 1
    BY <2>1 DEF FinishAuditRequest
  <2>3. Len(opened') \in Nat
    BY StepTypes DEF TypeOK
  <2> QED BY <2>2, <2>3
<1> QED BY <1>1, <1>2, <1>3

(* A success is sent once all is kept, and nothing is opened behind it.    *)
LEMMA SentStep ==
  ASSUME TypeOK, Listed, Finished, Truthful, [Next]_vars,
         res'.sent = "ok", ~res'.closed, NEW d \in Databases
  PROVE  trx'[d] \in {"none", "committed"}
<1>1. CASE res.sent = "ok" /\ ~res.closed
  <2>1. trx[d] \in {"none", "committed"} /\ (state.finished \/ ~state.mutating)
    BY <1>1, AmbientAssumption DEF Truthful, Finished
  <2>2. ~FinishOne
    <3>1. finishing # None => finishing.caller \in {"end", "close"}
      BY TypeOfFinishing
    <3> QED BY <1>1, <3>1, AmbientAssumption DEF FinishOne, Finished
  <2> QED BY <2>1, <2>2, OnlyMutatingOpens, TrxMoves
          DEF OpenTransaction, ApplyAuditSetting, Aborts, TypeOK
<1>2. CASE ~(res.sent = "ok" /\ ~res.closed)
  <2>1. ASSUME NEW s \in {"ok", "error"}, End(s) PROVE trx[d] = "none"
    <3>1. res.ended = None /\ ~res.closed
      BY <2>1 DEF End, TypeOK
    <3>2. ~state.finished
      BY <3>1 DEF Finished
    <3>3. ~state.mutating
      BY <1>2, <2>1, <3>1, <3>2 DEF End, TypeOK
    <3> QED BY <3>3 DEF Finished
  <2>2. CASE FinishAll
    <3>1. /\ finishing # None /\ finishing.at > Len(opened)
          /\ finishing.caller = "end" /\ ~finishing.failures /\ res.ended = "ok"
      BY <1>2, <2>2, TypeOfFinishing DEF FinishAll, Finished, TypeOK
    <3>2. finishing.ok /\ finishing.at \in Nat /\ Len(opened) \in Nat
      BY <3>1, TypeOfFinishing DEF Finished, TypeOK, Positions
    <3>3. \A i \in 1..Len(opened) : trx[opened[i]] = "committed"
      BY <3>1, <3>2 DEF Truthful
    <3> QED BY <2>2, <3>3 DEF FinishAll, Listed
  <2>3. UNCHANGED trx
    BY <1>2, ResMoves DEF End, Close, FinishOne, FinishAll, TypeOK
  <2>4. FinishAll \/ \E s \in {"ok", "error"} : End(s)
    BY <1>2, ResMoves DEF Close, FinishOne, TypeOK
  <2> QED BY <2>1, <2>2, <2>3, <2>4
<1> QED BY <1>1, <1>2

LEMMA TruthfulStep ==
  ASSUME TypeOK, Listed, Finished, HeededFailures, Truthful, [Next]_vars
  PROVE  Truthful'
  BY KeptStep, SentStep DEF Truthful

SoundInv == HeededFailures /\ Truthful

LEMMA SoundInitially == Init => SoundInv
<1> SUFFICES ASSUME Init PROVE SoundInv
  OBVIOUS
<1>1. /\ finishing = None
      /\ \A d \in Databases : trx[d] = "none"
      /\ res.sent = None /\ res.ended = None
  BY DEF Init
<1> QED BY <1>1, AmbientAssumption DEF SoundInv, HeededFailures, Truthful

LEMMA SoundInvariance == FailuresHeeded => (Spec => []SoundInv)
<1> SUFFICES ASSUME FailuresHeeded PROVE Spec => []SoundInv
  OBVIOUS
<1>1. Inv /\ SoundInv /\ [Next]_vars => SoundInv'
  BY HeededStep, TruthfulStep DEF Inv, SoundInv
<1> QED BY <1>1, SoundInitially, Invariance, PTL DEF Spec

(* Where the failure of every statement that is not a savepoint is heeded, *)
(* a client that is told of a success finds all of its request's work      *)
(* committed, on any number of databases.                                  *)
THEOREM SuccessIsCommitted == FailuresHeeded => (Spec => []NeverOkOverRollback)
<1> SUFFICES ASSUME FailuresHeeded PROVE Spec => []NeverOkOverRollback
  OBVIOUS
<1>1. Inv /\ SoundInv => NeverOkOverRollback
  <2> SUFFICES ASSUME Inv, SoundInv, res.sent = "ok", ~res.closed,
                      NEW q \in Queries, query[q].stage = "inTrx"
               PROVE  trx[query[q].db] = "committed"
    BY DEF NeverOkOverRollback
  <2>1. query[q].db \in Databases
    BY DEF Inv, TypeOK
  <2>2. trx[query[q].db] \in {"open", "aborted"} \cup Completed
    BY DEF Inv, Resolved
  <2>3. trx[query[q].db] \in {"none", "committed"}
    BY <2>1 DEF SoundInv, Truthful
  <2> QED BY <2>2, <2>3 DEF Completed
<1> QED BY <1>1, Invariance, SoundInvariance, PTL

-----------------------------------------------------------------------------
(* The refinement.                                                         *)

LEMMA InitRefines == Init => Unit!Init
<1> SUFFICES ASSUME Init PROVE Unit!Init
  OBVIOUS
<1>1. /\ \A d \in Databases : trx[d] = "none"
      /\ res.sent = None /\ ~res.closed
  BY DEF Init
<1> QED BY <1>1 DEF Unit!Init, workOf

(* A transaction that comes to its end settles its database's work.        *)
LEMMA EndSettles ==
  ASSUME TypeOK, UNCHANGED res, NEW d \in Databases,
         trx[d] \in Pending \cup {"open", "aborted"},
         NEW s \in Completed \cup Rejected, trx' = [trx EXCEPT ![d] = s]
  PROVE  Unit!Settle(d)
<1>1. workOf(d) = "pending"
  BY DEF workOf, Pending
<1>2. workOf(d)' \in Unit!Fates
  BY DEF workOf, Completed, Unit!Fates, TypeOK
<1>3. \A e \in Databases : e # d => workOf(e)' = workOf(e)
  BY DEF workOf, TypeOK
<1>4. [e \in Databases |-> workOf(e)]'
        = [[e \in Databases |-> workOf(e)] EXCEPT ![d] = workOf(d)']
  BY <1>3
<1> QED BY <1>1, <1>2, <1>4 DEF Unit!Settle

LEMMA MoveStutters ==
  ASSUME TypeOK, UNCHANGED res, \A d \in Databases : workOf(d)' = workOf(d)
  PROVE  UNCHANGED Unit!vars
  BY DEF Unit!vars

LEMMA StepRefines ==
  ASSUME Inv, SoundInv, [Next]_vars
  PROVE  [Unit!Next]_(Unit!vars)
<1> USE DEF Inv
<1>1. ASSUME NEW d \in Databases, Opens(d) PROVE Unit!Begin(d)
  <2>1. res.sent = None /\ ~res.closed
    BY <1>1, OnlyMutatingOpens DEF Finished
  <2>2. workOf(d) = "untouched" /\ workOf(d)' = "pending"
    BY <1>1 DEF Opens, workOf, TypeOK
  <2>3. \A e \in Databases : e # d => workOf(e)' = workOf(e)
    BY <1>1 DEF Opens, workOf, TypeOK
  <2>4. [e \in Databases |-> workOf(e)]'
          = [[e \in Databases |-> workOf(e)] EXCEPT ![d] = "pending"]
    BY <2>2, <2>3
  <2>5. UNCHANGED res
    BY <1>1 DEF Opens
  <2> QED BY <2>1, <2>2, <2>4, <2>5 DEF Unit!Begin
<1>2. ASSUME NEW d \in Databases, OpenTransaction(d) \/ ApplyAuditSetting(d)
      PROVE  Unit!Settle(d) \/ UNCHANGED Unit!vars
  <2>1. UNCHANGED res /\ trx[d] \in Pending
    BY <1>2 DEF OpenTransaction, ApplyAuditSetting, Pending
  <2>2. CASE \E s \in Rejected : trx' = [trx EXCEPT ![d] = s]
    BY <2>1, <2>2, EndSettles
  <2>3. CASE \E s \in {"applying", "open"} : trx' = [trx EXCEPT ![d] = s]
    BY <2>1, <2>3, MoveStutters DEF workOf, TypeOK, Pending
  <2> QED BY <1>2, <2>2, <2>3 DEF OpenTransaction, ApplyAuditSetting
<1>3. ASSUME NEW q \in Queries, query[q].db \in Databases, Aborts(q)
      PROVE  UNCHANGED Unit!vars
  BY <1>3, MoveStutters DEF Aborts, workOf, TypeOK
<1>4. CASE FinishOne
  <2> DEFINE d == opened[finishing.at]
  <2>1. d \in Databases /\ UNCHANGED res
    BY <1>4, TurnTaken
  <2>2. CASE \E s \in Rejected : trx[d] = s /\ trx' = [trx EXCEPT ![d] = s]
    BY <2>1, <2>2, MoveStutters DEF workOf, TypeOK
  <2>3. CASE /\ trx[d] \in {"open", "aborted"}
             /\ \E s \in Completed : trx' = [trx EXCEPT ![d] = s]
    <3>1. Unit!Settle(d)
      BY <2>1, <2>3, EndSettles
    <3> QED BY <2>1, <3>1 DEF Unit!Next
  <2> QED BY <1>4, <2>2, <2>3, TurnTaken DEF Turn, Completed
<1>5. CASE UNCHANGED trx
  <2>1. \A d \in Databases : workOf(d)' = workOf(d)
    BY <1>5 DEF workOf
  <2>2. CASE UNCHANGED res
    BY <2>1, <2>2, MoveStutters
  <2>3. ASSUME NEW s \in {"ok", "error"}, End(s)
        PROVE  Unit!Reply(s) \/ UNCHANGED Unit!vars
    <3>1. res.ended = None /\ res.sent = None /\ res'.closed = res.closed
      BY <2>3 DEF End, TypeOK, Finished
    <3>2. CASE res.closed
      BY <2>1, <3>1, <3>2 DEF Unit!vars
    <3>3. CASE ~res.closed /\ res'.sent = res.sent
      BY <2>1, <3>1, <3>3 DEF Unit!vars
    <3>4. CASE ~res.closed /\ res'.sent # res.sent
      <4>1. ~state.mutating /\ res'.sent = s
        BY <2>3, <3>1, <3>4 DEF End, TypeOK, Finished
      <4>2. \A d \in Databases : workOf(d) = "untouched"
        BY <4>1 DEF Finished, workOf
      <4> QED BY <2>1, <3>1, <3>4, <4>1, <4>2 DEF Unit!Reply
    <3> QED BY <3>2, <3>3, <3>4
  <2>4. CASE Close
    <3>1. res.sent = None /\ ~res.closed /\ res'.closed
      BY <2>4 DEF Close, TypeOK
    <3> QED BY <2>1, <3>1 DEF Unit!Next, Unit!Abandon
  <2>5. CASE FinishAll
    <3>1. res'.closed = res.closed /\ res'.ended = res.ended
      BY <2>5 DEF FinishAll, TypeOK
    <3>2. CASE res.closed
      BY <2>1, <3>1, <3>2 DEF Unit!vars
    <3>3. CASE ~res.closed
      <4>1. /\ finishing # None /\ finishing.caller = "end" /\ res.sent = None
            /\ finishing.at > Len(opened) /\ finishing.at \in Nat /\ Len(opened) \in Nat
        BY <2>5, <3>3, TypeOfFinishing DEF FinishAll, Finished, TypeOK, Positions
      <4>2. res'.sent \in Unit!Answers /\ res'.sent \in {"unknown", res.ended}
        BY <2>5, <4>1, AmbientAssumption DEF FinishAll, Finished, TypeOK, Unit!Answers
      <4>3. \A d \in Databases : trx[d] \in Completed \cup Rejected \cup {"none"}
        BY <4>1 DEF Listed, Resolved
      <4>4. \A d \in Databases : workOf(d) # "pending"
        BY <4>3 DEF workOf, Completed
      <4>5. ASSUME res'.sent = "ok", NEW d \in Databases PROVE workOf(d) # "discarded"
        <5>1. trx[d] \in {"none", "committed"}
          BY <1>5, <3>1, <3>3, <4>5, SentStep DEF SoundInv
        <5> QED BY <5>1 DEF workOf
      <4>6. ASSUME res'.sent = "error", NEW d \in Databases PROVE workOf(d) # "durable"
        <5>1. res.ended = "error"
          BY <4>2, <4>6
        <5>2. trx[d] # "committed"
          BY <5>1 DEF Resolved
        <5> QED BY <5>2 DEF workOf
      <4>7. Unit!Reply(res'.sent)
        BY <2>1, <3>1, <3>3, <4>1, <4>4, <4>5, <4>6 DEF Unit!Reply
      <4> QED BY <4>2, <4>7 DEF Unit!Next
    <3> QED BY <3>2, <3>3
  <2> QED BY <2>2, <2>3, <2>4, <2>5, ResMoves DEF FinishOne, Unit!Next, Unit!Answers
<1> QED BY <1>1, <1>2, <1>3, <1>4, <1>5, TrxMoves DEF Unit!Next

(* Where those failures are heeded, the ambient transaction is a unit of   *)
(* work, whatever it opens, runs, commits and loses, and whenever its      *)
(* client leaves.                                                          *)
THEOREM AmbientIsUnitOfWork == FailuresHeeded => (Spec => ImplementsUnitOfWork)
<1> SUFFICES ASSUME FailuresHeeded PROVE Spec => Unit!Spec
  BY DEF ImplementsUnitOfWork
<1>1. Inv /\ SoundInv /\ [Next]_vars => [Unit!Next]_(Unit!vars)
  BY StepRefines
<1> QED BY <1>1, InitRefines, Invariance, SoundInvariance, PTL DEF Spec, Unit!Spec
=============================================================================
