------------------------- MODULE AmbientTransaction -------------------------
(***************************************************************************)
(* src/database/audit-context.ts, src/database/registry.ts (the ambient    *)
(* facade) and src/middlewares/audit-context.middleware.ts: the             *)
(* transactions that a mutating request, or a job, opens by the way.       *)
(*                                                                         *)
(* db(key) decides when a query is BUILT whether it belongs to the         *)
(* request; the query decides when it is AWAITED whether it runs in the    *)
(* request's transaction, which the first one to be awaited opens, or on   *)
(* the pool. The response commits or rolls back whatever is open before    *)
(* its bytes leave, and so does the client that goes away. Each await of   *)
(* the code is a step of its own here; a statement and its result are one  *)
(* step, since a connection runs what it is sent in order.                 *)
(***************************************************************************)
EXTENDS Naturals, Sequences

CONSTANTS
  Databases,    \* the PhysicalKeys one request may reach
  Queries,      \* the statements it may run: the bound on their number
  Savepoints,   \* those that are a db(key).transaction(...) of a DAO
  Unheeded,     \* those whose failure the handler catches and goes on
  Loose,        \* those of them that it does not even await
  None

ASSUME AmbientAssumption ==
  /\ Savepoints \subseteq Queries /\ Unheeded \subseteq Queries
  /\ Loose \subseteq Unheeded
  /\ None \notin {"ok", "error", "unknown", "gone"} \cup Databases
  /\ None \notin [at : Nat, ok : BOOLEAN, failures : BOOLEAN, caller : {"end", "close"}]

VARIABLES
  state,       \* AuditRequestState: its flags, and whether the action is named
  opened,      \* the keys of state.trx in insertion order
  trx,         \* what has become of each database's transaction
  setting,     \* whether its mobius.audit setting carries the action
  query,       \* of each statement: its database, facade and stage
  renaming,    \* where setAuditAction's loop is
  finishing,   \* where finishAuditRequest's loop is
  res          \* the response: what the handler ended it with, what was sent

vars == <<state, opened, trx, setting, query, renaming, finishing, res>>

Pending == {"opening", "applying"}
Completed == {"committed", "rolledback"}
(* The opening's promise is rejected: no BEGIN was answered, or it was and *)
(* the setting that follows it failed.                                     *)
Rejected == {"unopened", "stranded"}
TrxStates == {"none", "open", "aborted"} \cup Pending \cup Completed \cup Rejected
Stages == {"idle", "built", "waiting", "inTrx", "onPool", "failed"}
Positions == Nat \ {0}

TypeOK ==
  /\ state \in [mutating : BOOLEAN, armed : BOOLEAN, detached : BOOLEAN,
               finished : BOOLEAN, action : BOOLEAN]
  /\ opened \in Seq(Databases)
  /\ trx \in [Databases -> TrxStates]
  /\ setting \in [Databases -> BOOLEAN]
  /\ query \in [Queries -> [db : Databases \cup {None},
                            facade : {"plain", "ambient"}, stage : Stages]]
  /\ \A q \in Queries : query[q].stage = "idle" \/ query[q].db \in Databases
  /\ renaming \in [at : Positions, step : {"never", "running", "done", "failed"}]
  /\ finishing \in [at : Positions, ok : BOOLEAN, failures : BOOLEAN,
                    caller : {"end", "close"}] \cup {None}
  /\ res \in [source : {"api", "job"}, ended : {None, "ok", "error"},
              sent : {None, "ok", "error", "unknown"}, closed : BOOLEAN]

(* beginAuditRequest: a request that is not armed yet; withAuditContext: a *)
(* job, which is armed from the start and has no client to lose.           *)
Init ==
  /\ \E job, mutating \in BOOLEAN :
       /\ job => mutating
       /\ state = [mutating |-> mutating, armed |-> job, detached |-> FALSE,
                   finished |-> FALSE, action |-> FALSE]
       /\ res = [source |-> IF job THEN "job" ELSE "api", ended |-> None,
                 sent |-> None, closed |-> FALSE]
  /\ opened = <<>>
  /\ trx = [d \in Databases |-> "none"]
  /\ setting = [d \in Databases |-> FALSE]
  /\ query = [q \in Queries |-> [db |-> None, facade |-> "plain", stage |-> "idle"]]
  /\ renaming = [at |-> 1, step |-> "never"]
  /\ finishing = None

IsAmbientAuditActive ==
  state.mutating /\ state.armed /\ ~state.detached /\ ~state.finished

Stage(q, s) == query' = [query EXCEPT ![q].stage = s]

-----------------------------------------------------------------------------
(* The handler's side. After it has answered with success only what it     *)
(* never awaited goes on; an error may leave any branch of a Promise.all.  *)
Runs(q) == res.ended = "ok" => q \in Loose

(* armAudit, behind the lookups of the actor. *)
ArmAudit ==
  /\ state.mutating /\ ~state.armed /\ res.ended = None
  /\ state' = [state EXCEPT !.armed = TRUE]
  /\ UNCHANGED <<opened, trx, setting, query, renaming, finishing, res>>

(* detachAudit, on the routes that talk to S3. *)
DetachAuditRequest ==
  /\ ~state.detached /\ res.ended = None /\ res.source = "api"
  /\ state' = [state EXCEPT !.detached = TRUE]
  /\ UNCHANGED <<opened, trx, setting, query, renaming, finishing, res>>

(* Mutant of Build: outside a tenant's scope the key resolves to nothing. *)
BuildUnscoped(q, d) ==
  /\ Runs(q) /\ query[q].stage = "idle"
  /\ q \in Savepoints => ~IsAmbientAuditActive
  /\ query' = [query EXCEPT ![q] =
                 [db |-> None, stage |-> "built",
                  facade |-> IF IsAmbientAuditActive THEN "ambient" ELSE "plain"]]
  /\ UNCHANGED <<state, opened, trx, setting, renaming, finishing, res>>

(* db(key)(...): the facade is chosen here, and nothing runs yet. *)
Build(q, d) ==
  /\ Runs(q) /\ query[q].stage = "idle"
  /\ q \in Savepoints => ~IsAmbientAuditActive
  /\ query' = [query EXCEPT ![q] =
                 [db |-> d, stage |-> "built",
                  facade |-> IF IsAmbientAuditActive THEN "ambient" ELSE "plain"]]
  /\ UNCHANGED <<state, opened, trx, setting, renaming, finishing, res>>

(* ensureTrx memoises the promise of the opening, not its transaction: *)
(* whoever comes second waits for the first one's.                     *)
EnsureTrx(d) ==
  IF trx[d] = "none"
  THEN /\ trx' = [trx EXCEPT ![d] = "opening"]
       /\ opened' = Append(opened, d)
  ELSE UNCHANGED <<trx, opened>>

(* A DAO's own transaction asks ensureTrx in the turn db() gives the facade. *)
OpenSavepoint(q, d) ==
  /\ Runs(q) /\ query[q].stage = "idle"
  /\ q \in Savepoints /\ IsAmbientAuditActive
  /\ EnsureTrx(d)
  /\ query' = [query EXCEPT ![q] = [db |-> d, stage |-> "waiting", facade |-> "ambient"]]
  /\ UNCHANGED <<state, setting, renaming, finishing, res>>

(* Mutant of BindLazily: the choice made by db(key) is the last word. *)
BindAsBuilt(q) ==
  /\ query[q].stage = "built" /\ query[q].facade = "ambient"
  /\ EnsureTrx(query[q].db)
  /\ Stage(q, "waiting")
  /\ UNCHANGED <<state, setting, renaming, finishing, res>>

(* The query is awaited: bindLazily reads `finished` only now. *)
BindLazily(q) ==
  /\ query[q].stage = "built" /\ query[q].facade = "ambient"
  /\ ~state.finished
  /\ EnsureTrx(query[q].db)
  /\ Stage(q, "waiting")
  /\ UNCHANGED <<state, setting, renaming, finishing, res>>

(* A plain facade, or a query that was built in time and awaited too late: *)
(* it runs on the pool and commits by itself.                              *)
RunOnPool(q) ==
  /\ query[q].stage = "built"
  /\ query[q].facade = "plain" \/ state.finished
  /\ Stage(q, "onPool") \/ Stage(q, "failed")
  /\ UNCHANGED <<state, opened, trx, setting, renaming, finishing, res>>

(* Mutant of RunInTrx: a DAO's transaction is not a savepoint. *)
RunInTrxFlat(q) ==
  LET d == query[q].db IN
  /\ query[q].stage = "waiting" /\ trx[d] \notin Pending
  /\ \/ /\ trx[d] = "open" /\ Stage(q, "inTrx")
        /\ UNCHANGED trx
     \/ /\ Stage(q, "failed")
        /\ trx' = [trx EXCEPT ![d] = IF @ = "open" THEN "aborted" ELSE @]
  /\ UNCHANGED <<state, opened, setting, renaming, finishing, res>>

(* The opening has settled: the query runs on the transaction it finds. An  *)
(* error aborts the transaction, or only the savepoint; a transaction that  *)
(* was not opened, is aborted or is over answers nothing but errors.        *)
RunInTrx(q) ==
  LET d == query[q].db IN
  /\ query[q].stage = "waiting" /\ trx[d] \notin Pending
  /\ \/ /\ trx[d] = "open" /\ Stage(q, "inTrx")
        /\ UNCHANGED trx
     \/ /\ Stage(q, "failed")
        /\ trx' = [trx EXCEPT ![d] =
                     IF @ = "open" /\ q \notin Savepoints THEN "aborted" ELSE @]
  /\ UNCHANGED <<state, opened, setting, renaming, finishing, res>>

-----------------------------------------------------------------------------
(* The opening: BEGIN, then set_config with the setting as it is by then. *)
OpenTransaction(d) ==
  /\ trx[d] = "opening"
  /\ \/ /\ trx' = [trx EXCEPT ![d] = "applying"]
        /\ setting' = [setting EXCEPT ![d] = state.action]
     \/ /\ trx' = [trx EXCEPT ![d] = "unopened"]
        /\ UNCHANGED setting
  /\ UNCHANGED <<state, opened, query, renaming, finishing, res>>

(* A setting that fails rejects the promise of a transaction that has begun:*)
(* its handle is lost with it, and nobody can commit it or roll it back.    *)
ApplyAuditSetting(d) ==
  /\ trx[d] = "applying"
  /\ \E s \in {"open", "stranded"} : trx' = [trx EXCEPT ![d] = s]
  /\ UNCHANGED <<state, opened, setting, query, renaming, finishing, res>>

(* setAuditAction: the action is named here, and below it is set on every  *)
(* transaction that is open or being opened, those that join meanwhile     *)
(* included.                                                               *)
SetAuditAction ==
  /\ renaming.step = "never" /\ res.ended = None
  /\ state' = [state EXCEPT !.action = TRUE]
  /\ renaming' = [renaming EXCEPT !.step = "running"]
  /\ UNCHANGED <<opened, trx, setting, query, finishing, res>>

(* Mutant of ReapplyAuditSetting: it does not wait for an opening. *)
ReapplyToTheOpen ==
  /\ renaming.step = "running"
  /\ setting' = [d \in Databases |-> setting[d] \/ trx[d] = "open"]
  /\ renaming' = [renaming EXCEPT !.step = "done"]
  /\ UNCHANGED <<state, opened, trx, query, finishing, res>>

ReapplyAuditSetting ==
  /\ renaming.step = "running"
  /\ \/ /\ renaming.at > Len(opened)
        /\ renaming' = [renaming EXCEPT !.step = "done"]
        /\ UNCHANGED setting
     \/ /\ renaming.at <= Len(opened)
        /\ LET d == opened[renaming.at] IN
           /\ trx[d] \notin Pending
           /\ IF trx[d] = "open"
              THEN /\ setting' = [setting EXCEPT ![d] = TRUE]
                   /\ renaming' = [renaming EXCEPT !.at = @ + 1]
              ELSE /\ renaming' = [renaming EXCEPT !.step = "failed"]
                   /\ UNCHANGED setting
  /\ UNCHANGED <<state, opened, trx, query, finishing, res>>

-----------------------------------------------------------------------------
(* The handler ends the response, or the job's function returns or throws. *)
(* A success has awaited what it awaits, and heeded what it heeds.         *)
Heeded ==
  /\ \A q \in Queries \ Loose : query[q].stage \notin {"built", "waiting"}
  /\ \A q \in Queries \ Unheeded : query[q].stage # "failed"
  /\ renaming.step \in {"never", "done"}

(* finishAuditRequest: the first caller closes the request for good. *)
FinishAuditRequest(ok, caller) ==
  /\ state' = [state EXCEPT !.finished = TRUE]
  /\ finishing' = [at |-> 1, ok |-> ok, failures |-> FALSE, caller |-> caller]

(* res.end, wrapped, or the end of withAuditContext. When the client's close *)
(* got there first, finish has nothing left to do and the bytes go nowhere.  *)
End(status) ==
  /\ res.ended = None
  /\ status = "ok" => Heeded
  /\ IF state.finished \/ ~state.mutating
     THEN /\ res' = [res EXCEPT !.ended = status, !.sent = status]
          /\ UNCHANGED <<state, finishing>>
     ELSE /\ FinishAuditRequest(status = "ok", "end")
          /\ res' = [res EXCEPT !.ended = status]
  /\ UNCHANGED <<opened, trx, setting, query, renaming>>

(* The socket's `close`, before the response has been written. *)
Close ==
  /\ res.source = "api" /\ res.sent = None /\ ~res.closed
  /\ res' = [res EXCEPT !.closed = TRUE]
  /\ IF state.finished \/ ~state.mutating
     THEN UNCHANGED <<state, finishing>>
     ELSE FinishAuditRequest(FALSE, "close")
  /\ UNCHANGED <<opened, trx, setting, query, renaming>>

(* One turn of finish's loop: it waits for the opening, then commits or     *)
(* rolls back; a rejected opening is a failure and is left as it is, begun  *)
(* or not. A COMMIT that fails leaves the outcome open; PostgreSQL      *)
(* answers the COMMIT of an aborted transaction by rolling it back, and     *)
(* knex takes that for success.                                            *)
FinishOne ==
  /\ finishing # None
  /\ finishing.at <= Len(opened)
  /\ LET d == opened[finishing.at]
         Resolve(s, failed) ==
           /\ trx' = [trx EXCEPT ![d] = s]
           /\ finishing' = [finishing EXCEPT !.at = @ + 1,
                                             !.failures = @ \/ failed]
     IN \/ trx[d] \in Rejected /\ Resolve(trx[d], TRUE)
        \/ trx[d] = "open" /\ finishing.ok /\ Resolve("committed", FALSE)
        \/ trx[d] = "open" /\ finishing.ok /\ Resolve("committed", TRUE)
        \/ trx[d] = "open" /\ finishing.ok /\ Resolve("rolledback", TRUE)
        \/ trx[d] = "open" /\ ~finishing.ok /\ Resolve("rolledback", FALSE)
        \/ trx[d] = "open" /\ ~finishing.ok /\ Resolve("rolledback", TRUE)
        \/ trx[d] = "aborted" /\ Resolve("rolledback", FALSE)
  /\ UNCHANGED <<state, opened, setting, query, renaming, res>>

(* Mutant of FinishAll: the handler's status is sent whatever COMMIT said. *)
FinishUnchecked ==
  /\ finishing # None
  /\ finishing.at > Len(opened)
  /\ finishing' = None
  /\ res' = IF finishing.caller = "close" THEN res
            ELSE [res EXCEPT !.sent = res.ended]
  /\ UNCHANGED <<state, opened, trx, setting, query, renaming>>

(* All are resolved: the response's bytes leave, as a 500 COMMIT_FAILED if  *)
(* any of them failed; a job rethrows its own error; after a close there is *)
(* nobody to tell.                                                          *)
FinishAll ==
  /\ finishing # None
  /\ finishing.at > Len(opened)
  /\ finishing' = None
  /\ res' = IF finishing.caller = "close" THEN res
            ELSE [res EXCEPT !.sent =
                    IF finishing.failures /\ (res.source = "api" \/ finishing.ok)
                    THEN "unknown" ELSE res.ended]
  /\ UNCHANGED <<state, opened, trx, setting, query, renaming>>

Over == res.sent # None /\ finishing = None /\ UNCHANGED vars

Next ==
  \/ ArmAudit \/ DetachAuditRequest \/ SetAuditAction \/ ReapplyAuditSetting
  \/ \E q \in Queries : \/ \E d \in Databases : Build(q, d) \/ OpenSavepoint(q, d)
                        \/ BindLazily(q) \/ RunOnPool(q) \/ RunInTrx(q)
  \/ \E d \in Databases : OpenTransaction(d) \/ ApplyAuditSetting(d)
  \/ \E s \in {"ok", "error"} : End(s)
  \/ Close \/ FinishOne \/ FinishAll
  \/ Over

Spec == Init /\ [][Next]_vars

(* The server answers a BEGIN, a set_config, a COMMIT or a ROLLBACK, if     *)
(* only by dropping the connection (knex's acquire and idle timeouts), and  *)
(* the event loop runs what is ready.                                       *)
FairSpec ==
  /\ Spec
  /\ \A d \in Databases : WF_vars(OpenTransaction(d)) /\ WF_vars(ApplyAuditSetting(d))
  /\ WF_vars(FinishOne) /\ WF_vars(FinishAll)

-----------------------------------------------------------------------------
(* "Answering 200 for work that was rolled back is the one outcome this    *)
(* design may never produce" (audit-context.middleware.ts:25): a client    *)
(* that is told of a success finds all of its request's work committed.    *)
NeverOkOverRollback ==
  res.sent = "ok" /\ ~res.closed
    => \A q \in Queries : query[q].stage = "inTrx" => trx[query[q].db] = "committed"

(* setAuditAction (audit-context.ts:186): once it is back, whatever a       *)
(* transaction records names the action, whenever it was opened.            *)
ActionReachesEveryTransaction ==
  renaming.step = "done" => \A d \in Databases : trx[d] = "open" => setting[d]

(* finishAuditRequest (audit-context.ts:237): a transaction that statements *)
(* were given to does not outlive its request, or it holds a pooled         *)
(* connection that nobody gives back; and one that is still being opened    *)
(* when the request ends is waited for and ended too. Not so a transaction  *)
(* whose BEGIN succeeds and whose setting then fails (registry.ts:409-411): *)
(* the loop gets its rejection, counts a failure, and leaves it begun on    *)
(* its connection. It ends up `stranded` here, which is no end; the property*)
(* says that this is the only transaction the code abandons.                *)
OnlyTheStrandedOutlive ==
  \A d \in Databases :
    /\ state.finished /\ trx[d] \in {"open", "aborted"} ~> trx[d] \in Completed
    /\ state.finished /\ trx[d] \in Pending ~> trx[d] \in Completed \cup Rejected

(* The refinement, which is about the work and not about the connections:   *)
(* no statement runs in a transaction whose opening was rejected, begun or  *)
(* not, so nothing in it can ever be kept; an aborted one is still to be    *)
(* settled, and a client that left is told nothing.                         *)
workOf(d) ==
  CASE trx[d] = "none" -> "untouched"
    [] trx[d] = "committed" -> "durable"
    [] trx[d] \in {"rolledback"} \cup Rejected -> "discarded"
    [] OTHER -> "pending"

Unit == INSTANCE UnitOfWork WITH
          work <- [d \in Databases |-> workOf(d)],
          answer <- IF res.closed THEN "gone" ELSE res.sent

(* The request is a unit of work for its handler and its client: kept or   *)
(* dropped as a whole on each database, settled before the answer, and told *)
(* truly.                                                                   *)
ImplementsUnitOfWork == Unit!Spec
=============================================================================
