---------------------------- MODULE SalesOrders ----------------------------
(***************************************************************************)
(* src/dao/sales-order/sales-order-lifecycle.dao.ts,                       *)
(* src/services/sales-order-fulfillment.service.ts,                        *)
(* src/services/production-order-generation.service.ts and the lifecycle   *)
(* of src/controllers/production-order: the fulfilment and voiding of a     *)
(* sales order, the cascade onto its production orders, the roll-up that    *)
(* fulfils it when the last of them is complete, and their generation.      *)
(*                                                                         *)
(* Every request runs in one transaction of PostgreSQL (read committed,    *)
(* AmbientTransaction): what it writes is its own, and locked, until it    *)
(* answers. A statement that finds a row locked waits, and then reads the  *)
(* row again; a deadlock makes one of its members fail. Quantities are      *)
(* abstracted to whether they cover an order. Scheduling, which touches no *)
(* other machine, and the edits of a sales order itself are left out.       *)
(***************************************************************************)
EXTENDS Naturals

CONSTANTS
  Sales,        \* sales orders (pedidos), each with its order_data row
  Ops,          \* production orders: the bound on their number
  Covering,     \* <<s, ops>>: the quantities of ops cover that of s
  Requests,     \* transactions under way at once
  None,
  Absent,       \* a production order that does not exist yet
  Deleted       \* and one that does not exist any more

ASSUME SalesAssumption ==
  /\ Covering \subseteq Sales \X SUBSET Ops
  /\ Sales \cap Ops = {} /\ None \notin Requests \cup Sales \cup Ops
  /\ {Absent, Deleted} \cap (Sales \cup {None}) = {} /\ Absent # Deleted

VARIABLES
  sale,         \* the sales orders, as committed
  op,           \* the production orders, as committed
  saleDraft,    \* the same, with what their lock's holder has written
  opDraft,
  owner,        \* the lock on each row
  req,          \* what each request is doing
  edited        \* history: the orders whose production orders were edited

vars == <<sale, op, saleDraft, opDraft, owner, req, edited>>

SalesVerbs == {"fulfil", "unfulfil", "void", "voidAll", "unvoid", "unvoidAll"}
GenerateVerbs == {"generate", "generateForced"}
LifecycleVerbs == {"complete", "uncomplete", "voidOp", "unvoidOp"}
EditVerbs == {"create", "rebind", "delete"}
Verbs == SalesVerbs \cup GenerateVerbs \cup LifecycleVerbs \cup EditVerbs
Steps == {"idle", "locking", "writing", "rolling", "cascading", "answering"}

(* A row bears the stamps (...At, ...ByUser) that are set on it. *)
SaleRows == SUBSET {"fulfilled", "voided"}
OpRows == [of : Sales \cup {None, Absent, Deleted}, stamps : SUBSET {"complete", "voided"}]
NoOp == [of |-> Absent, stamps |-> {}]
Gone == [NoOp EXCEPT !.of = Deleted]
Exists(row) == row.of \notin {Absent, Deleted}
Idle == [step |-> "idle", verb |-> "none", sale |-> None, op |-> None,
         targets |-> {}, retried |-> FALSE]

TypeOK ==
  /\ sale \in [Sales -> SaleRows] /\ saleDraft \in [Sales -> SaleRows]
  /\ op \in [Ops -> OpRows] /\ opDraft \in [Ops -> OpRows]
  /\ owner \in [Sales \cup Ops -> Requests \cup {None}]
  /\ req \in [Requests -> [step : Steps, verb : Verbs \cup {"none"},
                           sale : Sales \cup {None}, op : Ops \cup {None},
                           targets : SUBSET Ops, retried : BOOLEAN]]
  /\ \A r \in Requests :
       /\ req[r].step = "locking" => req[r].sale \in Sales
       /\ req[r].step \in {"writing", "rolling"} => req[r].op \in Ops
       /\ req[r].step = "rolling" => opDraft[req[r].op].of \in Sales
  /\ edited \subseteq Sales
  /\ \A s \in Sales : owner[s] = None => saleDraft[s] = sale[s]
  /\ \A o \in Ops : owner[o] = None => opDraft[o] = op[o]

Init ==
  /\ sale = [s \in Sales |-> {}]
  /\ op = [o \in Ops |-> NoOp]
  /\ saleDraft = sale /\ opDraft = op
  /\ owner = [x \in Sales \cup Ops |-> None]
  /\ req = [r \in Requests |-> Idle]
  /\ edited = {}

-----------------------------------------------------------------------------
(* Transactions.                                                           *)

Free(r, x) == owner[x] \in {None, r}
Take(r, xs) == owner' = [x \in Sales \cup Ops |-> IF x \in xs THEN r ELSE owner[x]]
Goto(r, step) == req' = [req EXCEPT ![r].step = step]

(* What a statement of r reads without a lock: what is committed, and its own. *)
Seen(r, o) == IF owner[o] = r THEN opDraft[o] ELSE op[o]
SeenOf(r, s) == {o \in Ops : Seen(r, o).of = s}

OpsOf(s) == {o \in Ops : op[o].of = s}

Setting == {"fulfil", "void", "voidAll", "complete", "voidOp"}
Completing == {"fulfil", "unfulfil", "complete", "uncomplete"}
Stamped(verb, stamp, stamps) == IF verb \in Setting THEN stamps \cup {stamp} ELSE stamps \ {stamp}

(* What a verb does to the stamps of a sales order, and of a production order. *)
SaleStamp(verb, row) == Stamped(verb, IF verb \in Completing THEN "fulfilled" ELSE "voided", row)
OpStamp(verb, row) ==
  [row EXCEPT !.stamps = Stamped(verb, IF verb \in Completing THEN "complete" ELSE "voided", @)]
Complete(row) == "complete" \in row.stamps

StampOp(r, o, row) ==
  /\ Take(r, {o})
  /\ opDraft' = [opDraft EXCEPT ![o] = row]

-----------------------------------------------------------------------------
(* A request begins: it reads, without a lock, what its lock will be.      *)
Start(r, verb, s, o, step) ==
  /\ req[r] = Idle
  /\ req' = [req EXCEPT ![r] = [Idle EXCEPT !.step = step, !.verb = verb,
                                             !.sale = s, !.op = o]]
  /\ UNCHANGED <<sale, op, saleDraft, opDraft, owner, edited>>

Transition(r, verb, s) == verb \in SalesVerbs /\ Start(r, verb, s, None, "locking")
Generate(r, verb, s) == verb \in GenerateVerbs /\ Start(r, verb, s, None, "locking")

(* Mutant of Lifecycle: a completion goes straight to its own row. *)
LifecycleUnlocked(r, verb, o) ==
  /\ verb \in LifecycleVerbs /\ Exists(op[o])
  /\ Start(r, verb, None, o, "writing")

(* A completion resolves its order first, to lock it first. *)
Lifecycle(r, verb, o) ==
  /\ verb \in LifecycleVerbs /\ Exists(op[o])
  /\ IF verb = "complete" /\ op[o].of \in Sales
     THEN Start(r, verb, op[o].of, o, "locking")
     ELSE Start(r, verb, None, o, "writing")

(* POST, PUT (which may bind the row to another order) and DELETE. *)
Edit(r, verb, s, o) ==
  /\ verb \in EditVerbs /\ (verb = "delete" => s = None)
  /\ IF verb = "create" THEN op[o] = NoOp ELSE Exists(op[o])
  /\ Start(r, verb, s, o, "writing")

-----------------------------------------------------------------------------
(* The lock on the sales order, which a completion takes for its order only. *)
LockSalesOrder(r) ==
  /\ req[r].step = "locking" /\ req[r].verb = "complete"
  /\ Free(r, req[r].sale)
  /\ Take(r, {req[r].sale})
  /\ Goto(r, "writing")
  /\ UNCHANGED <<sale, op, saleDraft, opDraft, edited>>

(* Repeats do nothing; a fulfilled order is not voided. *)
Refused(verb, row) ==
  \/ verb = "fulfil" /\ "fulfilled" \in row
  \/ verb = "unfulfil" /\ "fulfilled" \notin row
  \/ verb \in {"void", "voidAll"} /\ row # {}
  \/ verb \in {"unvoid", "unvoidAll"} /\ "voided" \notin row

(* Mutant of Cascades: it un-completes what is not complete. *)
CascadesSwapped(verb, row) ==
  \/ verb \in {"fulfil", "unfulfil"} /\ ~Complete(row)
  \/ verb = "voidAll" /\ "voided" \notin row.stamps
  \/ verb = "unvoidAll"

(* The rows of an order that its transition reaches. *)
Cascades(verb, row) ==
  \/ verb = "fulfil" /\ ~Complete(row)
  \/ verb = "unfulfil" /\ Complete(row)
  \/ verb = "voidAll" /\ "voided" \notin row.stamps
  \/ verb = "unvoidAll"

(* runTransition: the order is read again under its lock, stamped, and the *)
(* cascade's statement takes its snapshot.                                 *)
RunTransition(r) ==
  LET s == req[r].sale IN
  /\ req[r].step = "locking" /\ req[r].verb \in SalesVerbs /\ Free(r, s)
  /\ Take(r, {s})
  /\ IF Refused(req[r].verb, saleDraft[s])
     THEN /\ Goto(r, "answering")
          /\ UNCHANGED saleDraft
     ELSE /\ saleDraft' = [saleDraft EXCEPT ![s] = SaleStamp(req[r].verb, @)]
          /\ LET reached == {o \in SeenOf(r, s) : Cascades(req[r].verb, Seen(r, o))}
             IN req' = [req EXCEPT ![r].targets = reached,
                                   ![r].step = IF reached = {} THEN "answering"
                                               ELSE "cascading"]
  /\ UNCHANGED <<sale, op, opDraft, edited>>

(* The cascade locks row by row; one that it had to wait for is looked at *)
(* again, and left alone when it no longer fits.                          *)
Cascade(r, o) ==
  /\ req[r].step = "cascading" /\ o \in req[r].targets /\ Free(r, o)
  /\ IF opDraft[o].of = req[r].sale /\ Cascades(req[r].verb, opDraft[o])
     THEN StampOp(r, o, OpStamp(req[r].verb, opDraft[o]))
     ELSE UNCHANGED <<owner, opDraft>>
  /\ req' = [req EXCEPT ![r].targets = @ \ {o},
                        ![r].step = IF req[r].targets = {o} THEN "answering" ELSE @]
  /\ UNCHANGED <<sale, op, saleDraft, edited>>

(* A generated row is complete if its order is fulfilled. *)
Born(s, row) == [of |-> s, stamps |-> IF "fulfilled" \in row THEN {"complete"} ELSE {}]

(* Mutant of RunGeneration: the order is read without its lock. *)
RunGenerationUnlocked(r) ==
  LET s == req[r].sale
      unlocked(os) == [x \in Sales \cup Ops |-> IF x \in os THEN r ELSE owner[x]]
  IN
  /\ req[r].step = "locking" /\ req[r].verb \in GenerateVerbs
  /\ \E new \in SUBSET {o \in Ops : opDraft[o] = NoOp /\ owner[o] = None} :
       /\ IF \/ SeenOf(r, s) # {}
             \/ "voided" \in sale[s] /\ req[r].verb # "generateForced"
          THEN new = {} ELSE new # {}
       /\ owner' = unlocked(new)
       /\ opDraft' = [o \in Ops |->
            IF o \in new
            THEN Born(s, sale[s])
            ELSE opDraft[o]]
  /\ Goto(r, "answering")
  /\ UNCHANGED <<sale, op, saleDraft, edited>>

(* generate: all rows or none, and none when the order has some, or is      *)
(* voided and nobody insists.                                              *)
RunGeneration(r) ==
  LET s == req[r].sale IN
  /\ req[r].step = "locking" /\ req[r].verb \in GenerateVerbs /\ Free(r, s)
  /\ \E new \in SUBSET {o \in Ops : opDraft[o] = NoOp /\ owner[o] = None} :
       /\ IF \/ SeenOf(r, s) # {}
             \/ "voided" \in saleDraft[s] /\ req[r].verb # "generateForced"
          THEN new = {} ELSE new # {}
       /\ Take(r, {s} \cup new)
       /\ opDraft' = [o \in Ops |->
            IF o \in new
            THEN Born(s, saleDraft[s])
            ELSE opDraft[o]]
  /\ Goto(r, "answering")
  /\ UNCHANGED <<sale, op, saleDraft, edited>>

-----------------------------------------------------------------------------
(* setLifecycleTrx: unconditional; on a row deleted meanwhile it writes     *)
(* nothing. A completion of a bound row goes on to the roll-up.             *)
SetLifecycle(r) ==
  LET o == req[r].op IN
  /\ req[r].step = "writing" /\ req[r].verb \in LifecycleVerbs /\ Free(r, o)
  /\ IF Exists(opDraft[o])
     THEN StampOp(r, o, OpStamp(req[r].verb, opDraft[o]))
     ELSE UNCHANGED <<owner, opDraft>>
  /\ Goto(r, IF req[r].verb = "complete" /\ opDraft[o].of \in Sales
             THEN "rolling" ELSE "answering")
  /\ UNCHANGED <<sale, op, saleDraft, edited>>

(* Mutant of Completes: the count is read on another connection. *)
CompletesOutside(r, s) ==
  /\ OpsOf(s) # {} /\ <<s, OpsOf(s)>> \in Covering
  /\ \A o \in OpsOf(s) : Complete(op[o])

(* The rule of the roll-up, over what its transaction sees. *)
Completes(r, s) ==
  /\ SeenOf(r, s) # {} /\ <<s, SeenOf(r, s)>> \in Covering
  /\ \A o \in SeenOf(r, s) : Complete(Seen(r, o))

(* runRollUp: the order's row is locked, the count read, the stamp set. *)
RollUp(r) ==
  LET s == opDraft[req[r].op].of IN
  /\ req[r].step = "rolling" /\ Free(r, s)
  /\ Take(r, {s})
  /\ saleDraft' = [saleDraft EXCEPT ![s] = IF Completes(r, s) THEN @ \cup {"fulfilled"} ELSE @]
  /\ Goto(r, "answering")
  /\ UNCHANGED <<sale, op, opDraft, edited>>

(* The statement of a plain edit. *)
WriteEdit(r) ==
  LET o == req[r].op
      bound == [opDraft[o] EXCEPT !.of = req[r].sale] IN
  /\ req[r].step = "writing" /\ req[r].verb \in EditVerbs /\ Free(r, o)
  /\ IF IF req[r].verb = "create" THEN opDraft[o] = NoOp ELSE Exists(opDraft[o])
     THEN StampOp(r, o, IF req[r].verb = "delete" THEN Gone ELSE bound)
     ELSE UNCHANGED <<owner, opDraft>>
  /\ Goto(r, "answering")
  /\ UNCHANGED <<sale, op, saleDraft, edited>>

-----------------------------------------------------------------------------
(* The response. What the request wrote becomes everybody's.               *)
Commit(r) ==
  LET touched == {o \in Ops : owner[o] = r} IN
  /\ req[r].step = "answering"
  /\ sale' = [s \in Sales |-> IF owner[s] = r THEN saleDraft[s] ELSE sale[s]]
  /\ op' = [o \in Ops |-> IF owner[o] = r THEN opDraft[o] ELSE op[o]]
  /\ owner' = [x \in Sales \cup Ops |-> IF owner[x] = r THEN None ELSE owner[x]]
  /\ edited' = IF req[r].verb \in EditVerbs
               THEN edited \cup ((UNION {{op[o].of, opDraft[o].of} : o \in touched})
                                 \cap Sales)
               ELSE edited
  /\ req' = [req EXCEPT ![r] = Idle]
  /\ UNCHANGED <<saleDraft, opDraft>>

(* Mutant of Rollback: the order's stamp stays. *)
RollbackOps(r) ==
  /\ req[r].step # "idle"
  /\ opDraft' = [o \in Ops |-> IF owner[o] = r THEN op[o] ELSE opDraft[o]]
  /\ owner' = [x \in Sales \cup Ops |-> IF owner[x] = r THEN None ELSE owner[x]]
  /\ req' = [req EXCEPT ![r] = Idle]
  /\ UNCHANGED <<sale, saleDraft, op, edited>>

(* An error, or a client that goes away, at any step. *)
Rollback(r) ==
  /\ req[r].step # "idle"
  /\ saleDraft' = [s \in Sales |-> IF owner[s] = r THEN sale[s] ELSE saleDraft[s]]
  /\ opDraft' = [o \in Ops |-> IF owner[o] = r THEN op[o] ELSE opDraft[o]]
  /\ owner' = [x \in Sales \cup Ops |-> IF owner[x] = r THEN None ELSE owner[x]]
  /\ req' = [req EXCEPT ![r] = Idle]
  /\ UNCHANGED <<sale, op, edited>>

(* The rows a request may be waiting for. *)
Wanted(r) ==
  CASE req[r].step = "locking" -> {req[r].sale}
    [] req[r].step = "writing" -> {req[r].op}
    [] req[r].step = "rolling" -> {opDraft[req[r].op].of}
    [] req[r].step = "cascading" -> req[r].targets
    [] OTHER -> {}

WaitsFor(r, q) == r # q /\ \E x \in Wanted(r) : owner[x] = q

(* Two requests wait for each other. *)
Cycle(r, q) == WaitsFor(r, q) /\ WaitsFor(q, r)

(* A deadlock inside the roll-up fails its savepoint only: it is tried once *)
(* more, then dropped. Anywhere else it is an error (Rollback).             *)
RetryRollUp(r) ==
  /\ req[r].step = "rolling" /\ \E q \in Requests : Cycle(r, q)
  /\ req' = [req EXCEPT ![r].retried = TRUE,
                        ![r].step = IF req[r].retried THEN "answering" ELSE @]
  /\ UNCHANGED <<sale, op, saleDraft, opDraft, owner, edited>>

Next ==
  \E r \in Requests :
    \/ \E verb \in Verbs, s \in Sales : Transition(r, verb, s) \/ Generate(r, verb, s)
    \/ \E verb \in Verbs, o \in Ops : Lifecycle(r, verb, o)
    \/ \E verb \in Verbs, s \in Sales \cup {None}, o \in Ops : Edit(r, verb, s, o)
    \/ \E o \in Ops : Cascade(r, o)
    \/ LockSalesOrder(r) \/ RunTransition(r) \/ RunGeneration(r)
    \/ SetLifecycle(r) \/ RollUp(r) \/ WriteEdit(r) \/ RetryRollUp(r)
    \/ Commit(r) \/ Rollback(r)

Spec == Init /\ [][Next]_vars

-----------------------------------------------------------------------------
(* sales-order-fulfillment.service.ts:19: "the pedido behind it becomes      *)
(* cumplido" when the last production order is completed. There is no      *)
(* second event: an order all of whose rows are complete and cover it is   *)
(* fulfilled, or nothing will ever fulfil it by itself. Left out: orders   *)
(* whose production orders were created, bound elsewhere or deleted, which *)
(* rolls nothing up and can drop the roll-up of a row that it moved.       *)
RollUpNotLost ==
  \A s \in Sales \ edited :
    OpsOf(s) # {} /\ <<s, OpsOf(s)>> \in Covering /\ (\A o \in OpsOf(s) : Complete(op[o]))
      => "fulfilled" \in sale[s]

(* production-order.controller.ts:635: "sales_orders BEFORE                 *)
(* production_orders, always" leaves no cycle of waits among transitions,   *)
(* cascades, roll-ups and generations, until the first edit that creates,   *)
(* rebinds or deletes a production order commits: a completion that read    *)
(* the row's order before a rebind locks the wrong one first, and then      *)
(* there can be a cycle.                                                   *)
NoWaitCycle ==
  edited = {} => \A r, q \in Requests : ~Cycle(r, q)

(* sales-order-lifecycle.dao.ts:211: a fulfilled order is never voided,     *)
(* whatever completions and roll-ups run beside the request.               *)
VoidSparesFulfilled ==
  [][\A s \in Sales : "voided" \in sale'[s] \ sale[s] => "fulfilled" \notin sale'[s]]_vars

(* The reversal of a fulfilment reopens all the order's production orders   *)
(* (sales-order-lifecycle.dao.ts:200), those completed meanwhile included:  *)
(* no roll-up would fulfil it again.                                        *)
UnfulfilReopensAll ==
  [][\A s \in Sales \ edited : "fulfilled" \in sale[s] \ sale'[s]
       => \A o \in Ops : op'[o].of = s => ~Complete(op'[o])]_vars

(* lockSalesOrderTrx (production-order.dao.ts:413): of two generations for  *)
(* one order the second finds the first one's rows.                         *)
GenerationFindsNone ==
  [][\A r \in Requests, s \in Sales \ edited :
       /\ req[r].verb \in GenerateVerbs /\ req[r].sale = s /\ req'[r] = Idle
       /\ \E o \in Ops : op[o].of = Absent /\ op'[o].of = s
       => OpsOf(s) = {}]_vars
=============================================================================
