-------------------------- MODULE SalesOrdersProofs --------------------------
(***************************************************************************)
(* Theorems about SalesOrders, for any orders, quantities and number of    *)
(* requests. Everything follows from what a lock says of its holder: which *)
(* request may have written a row, at which step, and what.                *)
(***************************************************************************)
EXTENDS SalesOrders, TLAPS

USE SalesAssumption

(* Where a request is, which locks it has. *)
Shape(r) ==
  /\ req[r].step \in {"idle", "locking"} => \A x \in Sales \cup Ops : owner[x] # r
  /\ req[r].step = "locking" =>
       req[r].verb \in SalesVerbs \cup GenerateVerbs \cup {"complete"}
  /\ req[r].step = "writing" =>
       /\ req[r].verb \in LifecycleVerbs \cup EditVerbs
       /\ \A o \in Ops : owner[o] # r
  /\ req[r].step = "rolling" => req[r].verb = "complete" /\ owner[req[r].op] = r
  /\ req[r].step = "cascading" => req[r].verb \in SalesVerbs /\ owner[req[r].sale] = r
  /\ req[r].step # "cascading" => req[r].targets = {}
  /\ req[r].step # "idle" => req[r].verb # "none"
  /\ req[r].verb \in SalesVerbs \cup GenerateVerbs => req[r].sale \in Sales
  /\ req[r].verb \in LifecycleVerbs \cup EditVerbs => req[r].op \in Ops
  /\ req[r].verb = "complete" /\ req[r].step # "locking" /\ req[r].sale \in Sales
       => owner[req[r].sale] = r

(* What the holder of a production order's lock has written on it. *)
OpWritten(r, o) ==
  \/ /\ req[r].verb \in EditVerbs /\ req[r].step = "answering"
     /\ opDraft[o].of # Absent /\ opDraft[o].stamps \subseteq op[o].stamps
  \/ /\ req[r].verb \in LifecycleVerbs /\ req[r].step \in {"rolling", "answering"}
     /\ req[r].op = o /\ opDraft[o] = OpStamp(req[r].verb, op[o])
  \/ /\ req[r].verb \in SalesVerbs /\ req[r].step \in {"cascading", "answering"}
     /\ op[o].of = req[r].sale /\ opDraft[o] = OpStamp(req[r].verb, op[o])
     /\ owner[req[r].sale] = r
  \/ /\ req[r].verb \in GenerateVerbs /\ req[r].step = "answering"
     /\ op[o] = NoOp /\ opDraft[o] = Born(req[r].sale, sale[req[r].sale])
     /\ owner[req[r].sale] = r

(* What the holder of a sales order's lock has written on it. *)
SaleWritten(r, s) ==
  \/ /\ req[r].verb \in SalesVerbs /\ req[r].step \in {"cascading", "answering"}
     /\ req[r].sale = s
     /\ IF Refused(req[r].verb, sale[s])
        THEN saleDraft[s] = sale[s]
        ELSE saleDraft[s] = SaleStamp(req[r].verb, sale[s])
  \/ /\ req[r].verb \in GenerateVerbs /\ req[r].step = "answering"
     /\ req[r].sale = s /\ saleDraft[s] = sale[s]
  \/ /\ req[r].verb = "complete" /\ req[r].step \in {"writing", "rolling", "answering"}
     /\ saleDraft[s] \in {sale[s], sale[s] \cup {"fulfilled"}}
     /\ req[r].step # "answering" => saleDraft[s] = sale[s]

Written(r) ==
  /\ \A o \in Ops : owner[o] = r => OpWritten(r, o)
  /\ \A s \in Sales : owner[s] = r => SaleWritten(r, s)

(* A completion has the lock of its order, unless that order was edited. *)
Resolved(r) ==
  req[r].verb \in LifecycleVerbs =>
    /\ op[req[r].op].of # Absent
    /\ req[r].verb = "complete" /\ op[req[r].op].of \in Sales \ edited
         => req[r].sale = op[req[r].op].of

(* The rows that an unfulfilment has still to reopen. *)
Reopens(r) ==
  req[r].verb = "unfulfil" /\ req[r].sale \notin edited /\ owner[req[r].sale] = r
  /\ saleDraft[req[r].sale] # sale[req[r].sale] =>
    \A o \in Ops : op[o].of = req[r].sale =>
      \/ o \in req[r].targets
      \/ ~Complete(opDraft[o]) /\ (owner[o] = r \/ ~Complete(op[o]))

FindsNone(r) ==
  req[r].verb \in GenerateVerbs /\ req[r].sale \notin edited
  /\ (\E o \in Ops : owner[o] = r) => OpsOf(req[r].sale) = {}

RollsUp(r) ==
  req[r].verb = "complete" /\ req[r].step = "answering"
  /\ owner[req[r].op] = r /\ op[req[r].op].of \in Sales \ edited =>
    LET s == op[req[r].op].of
    IN Completes(r, s) => "fulfilled" \in saleDraft[s]

Targeted(r) ==
  \A o \in req[r].targets : op[o].of = req[r].sale \/ req[r].sale \in edited

Good(r) ==
  Shape(r) /\ Written(r) /\ Resolved(r) /\ Reopens(r) /\ FindsNone(r)
  /\ RollsUp(r) /\ Targeted(r)

Inv == TypeOK /\ RollUpNotLost /\ \A r \in Requests : Good(r)

-----------------------------------------------------------------------------
(* Types.                                                                  *)

Reqs == [step : Steps, verb : Verbs \cup {"none"}, sale : Sales \cup {None},
         op : Ops \cup {None}, targets : SUBSET Ops, retried : BOOLEAN]

LEMMA IdleType == Idle \in Reqs
  BY DEF Idle, Reqs, Steps

LEMMA RowTypes ==
  /\ NoOp \in OpRows /\ Gone \in OpRows
  /\ \A verb, row : row \in OpRows => OpStamp(verb, row) \in OpRows
                                      /\ OpStamp(verb, row).of = row.of
  /\ \A verb, row : row \in SaleRows => SaleStamp(verb, row) \in SaleRows
  /\ \A s \in Sales, row \in SaleRows : Born(s, row) \in OpRows
<1>1. NoOp \in OpRows /\ Gone \in OpRows
  BY DEF NoOp, Gone, OpRows
<1>2. ASSUME NEW verb, NEW row \in OpRows
      PROVE  OpStamp(verb, row) \in OpRows /\ OpStamp(verb, row).of = row.of
  <2> DEFINE stamp == IF verb \in Completing THEN "complete" ELSE "voided"
             new == Stamped(verb, stamp, row.stamps)
  <2>1. stamp \in {"complete", "voided"} /\ row.stamps \subseteq {"complete", "voided"}
    BY DEF OpRows
  <2>2. new \subseteq {"complete", "voided"}
    BY <2>1 DEF Stamped
  <2>3. OpStamp(verb, row) = [row EXCEPT !.stamps = new]
    BY DEF OpStamp
  <2> HIDE DEF new
  <2> QED BY <2>2, <2>3 DEF OpRows
<1>3. ASSUME NEW verb, NEW row \in SaleRows
      PROVE  SaleStamp(verb, row) \in SaleRows
  BY DEF SaleStamp, Stamped, SaleRows
<1>4. ASSUME NEW s \in Sales, NEW row \in SaleRows
      PROVE  Born(s, row) \in OpRows
  BY DEF Born, OpRows
<1> QED BY <1>1, <1>2, <1>3, <1>4

(* What the type says of the place a request has reached. *)
Placed(r) ==
  /\ req[r].step = "locking" => req[r].sale \in Sales
  /\ req[r].step \in {"writing", "rolling"} => req[r].op \in Ops
  /\ req[r].step = "rolling" => opDraft[req[r].op].of \in Sales

LEMMA Facts ==
  ASSUME Inv
  PROVE  /\ sale \in [Sales -> SaleRows] /\ saleDraft \in [Sales -> SaleRows]
         /\ op \in [Ops -> OpRows] /\ opDraft \in [Ops -> OpRows]
         /\ owner \in [Sales \cup Ops -> Requests \cup {None}]
         /\ req \in [Requests -> Reqs] /\ edited \subseteq Sales
         /\ \A r \in Requests : Good(r) /\ Placed(r) /\ req[r] \in Reqs /\ r # None
         /\ \A s \in Sales : owner[s] = None => saleDraft[s] = sale[s]
         /\ \A o \in Ops : owner[o] = None => opDraft[o] = op[o]
  BY DEF Inv, TypeOK, Reqs, Placed

(* The rows of r are r's: a step of it that commits nothing leaves what the *)
(* others know alone, if it completes no row of an order that another one  *)
(* has locked.                                                             *)
LEMMA OthersKeep ==
  ASSUME Inv, NEW r \in Requests, NEW j \in Reqs,
         req' = [req EXCEPT ![r] = j], UNCHANGED <<sale, op, edited>>,
         \A x \in Sales \cup Ops : owner'[x] = owner[x]
           \/ (owner[x] \in {None, r} /\ owner'[x] \in {None, r}),
         \A s \in Sales : owner[s] \in {None, r} \/ saleDraft'[s] = saleDraft[s],
         \A o \in Ops : owner[o] \in {None, r} \/ opDraft'[o] = opDraft[o],
         \A o \in Ops : Complete(opDraft'[o]) =>
           \/ Complete(opDraft[o]) \/ Complete(op[o])
           \/ op[o].of \in Sales \ edited => owner[op[o].of] \in {None, r}
  PROVE  \A q \in Requests \ {r} : Good(q)' /\ Placed(q)'
<1> SUFFICES ASSUME NEW q \in Requests \ {r}
             PROVE  Good(q)' /\ Placed(q)'
  OBVIOUS
<1>1. req'[q] = req[q] /\ Good(q) /\ Placed(q) /\ req[q] \in Reqs /\ q # None
  BY Facts
<1>2. \A x \in Sales \cup Ops : owner'[x] = q <=> owner[x] = q
  BY <1>1
<1>3. \A s \in Sales : owner[s] = q => saleDraft'[s] = saleDraft[s]
  BY <1>1
<1>4. \A o \in Ops : owner[o] = q => opDraft'[o] = opDraft[o]
  BY <1>1
<1>5. /\ req[q].op \in Ops \cup {None} /\ req[q].sale \in Sales \cup {None}
      /\ req[q].targets \subseteq Ops /\ None \notin Sales \cup Ops
  BY <1>1 DEF Reqs
<1>6. Shape(q)'
  BY <1>1, <1>2, <1>5 DEF Good, Shape, LifecycleVerbs
<1>7. Written(q)'
  <2>1. \A o \in Ops : owner[o] = q => OpWritten(q, o)'
    <3> SUFFICES ASSUME NEW o \in Ops, owner[o] = q PROVE OpWritten(q, o)'
      OBVIOUS
    <3>1. OpWritten(q, o) /\ opDraft'[o] = opDraft[o] /\ Shape(q)
      BY <1>1, <1>4 DEF Good, Written
    <3>2. req[q].verb \in SalesVerbs \cup GenerateVerbs => req[q].sale \in Sales
      BY <3>1 DEF Shape
    <3> QED BY <1>1, <1>2, <3>1, <3>2 DEF OpWritten
  <2>2. \A s \in Sales : owner[s] = q => SaleWritten(q, s)'
    BY <1>1, <1>3 DEF Good, Written, SaleWritten
  <2> QED BY <1>2, <2>1, <2>2 DEF Written
<1>8. Resolved(q)'
  BY <1>1 DEF Good, Resolved
<1>9. Reopens(q)'
  <2> SUFFICES ASSUME req[q].verb = "unfulfil", req[q].sale \notin edited,
                      owner[req[q].sale] = q,
                      saleDraft'[req[q].sale] # sale[req[q].sale],
                      NEW o \in Ops, op[o].of = req[q].sale, o \notin req[q].targets
               PROVE  ~Complete(opDraft'[o]) /\ (owner[o] = q \/ ~Complete(op[o]))
    <3>1. req[q].verb = "unfulfil" => req[q].sale \in Sales
      BY <1>1 DEF Good, Shape, SalesVerbs
    <3> QED BY <1>1, <1>2, <3>1 DEF Reopens
  <2>1. req[q].sale \in Sales
    BY <1>1 DEF Good, Shape, SalesVerbs
  <2>2. ~Complete(opDraft[o]) /\ (owner[o] = q \/ ~Complete(op[o]))
    BY <1>1, <1>3, <2>1 DEF Good, Reopens
  <2> QED BY <1>1, <1>4, <2>1, <2>2
<1>10. FindsNone(q)'
  BY <1>1, <1>2 DEF Good, FindsNone, OpsOf
<1>11. RollsUp(q)'
  <2> SUFFICES ASSUME req[q].verb = "complete", req[q].step = "answering",
                      owner'[req[q].op] = q, op[req[q].op].of \in Sales \ edited,
                      Completes(q, op[req[q].op].of)'
               PROVE  "fulfilled" \in saleDraft'[op[req[q].op].of]
    BY <1>1 DEF RollsUp
  <2> DEFINE s == op[req[q].op].of
  <2>1. req[q].op \in Ops /\ owner[req[q].op] = q
    BY <1>1, <1>2 DEF Good, Shape, LifecycleVerbs
  <2>2. req[q].sale = s /\ owner[s] = q
    BY <1>1, <2>1 DEF Good, Shape, Resolved, LifecycleVerbs
  <2>3. \A o \in Ops : Seen(q, o)' = Seen(q, o)
    BY <1>2, <1>4 DEF Seen
  <2>4. SeenOf(q, s)' = SeenOf(q, s)
    BY <1>1, <2>3 DEF SeenOf
  <2>5. Completes(q, s)
    <3>1. SeenOf(q, s) \subseteq Ops
      BY DEF SeenOf
    <3>2. \A o \in SeenOf(q, s) : Complete(Seen(q, o))
      <4> TAKE o \in SeenOf(q, s)
      <4>1. Complete(Seen(q, o)')
        BY <2>4 DEF Completes
      <4> QED BY <2>3, <3>1, <4>1
    <3> QED BY <2>4, <3>2 DEF Completes
  <2>6. "fulfilled" \in saleDraft[s]
    BY <1>1, <2>1, <2>5 DEF Good, RollsUp
  <2> QED BY <1>3, <2>2, <2>6
<1>12. Targeted(q)'
  BY <1>1 DEF Good, Targeted
<1>13. Placed(q)'
  <2>1. req[q].step = "rolling" => opDraft'[req[q].op] = opDraft[req[q].op]
    BY <1>1, <1>4 DEF Good, Shape, Placed
  <2> QED BY <1>1, <2>1 DEF Placed
<1> QED BY <1>6, <1>7, <1>8, <1>9, <1>10, <1>11, <1>12, <1>13 DEF Good

(* A step of r that commits nothing: it takes and writes its own rows. *)
OwnRows(r) ==
  /\ UNCHANGED <<sale, op, edited>>
  /\ owner' \in [Sales \cup Ops -> Requests \cup {None}]
  /\ saleDraft' \in [Sales -> SaleRows] /\ opDraft' \in [Ops -> OpRows]
  /\ \A x \in Sales \cup Ops :
       owner'[x] = owner[x] \/ (owner[x] \in {None, r} /\ owner'[x] \in {None, r})
  /\ \A s \in Sales : /\ owner[s] \in {None, r} \/ saleDraft'[s] = saleDraft[s]
                      /\ owner'[s] = None => saleDraft'[s] = sale[s]
  /\ \A o \in Ops : /\ owner[o] \in {None, r} \/ opDraft'[o] = opDraft[o]
                    /\ owner'[o] = None => opDraft'[o] = op[o]
                    /\ Complete(opDraft'[o]) =>
                         \/ Complete(opDraft[o]) \/ Complete(op[o])
                         \/ op[o].of \in Sales \ edited => owner[op[o].of] \in {None, r}

LEMMA Moves ==
  ASSUME Inv, NEW r \in Requests, NEW j \in Reqs, req' = [req EXCEPT ![r] = j],
         OwnRows(r), Good(r)', Placed(r)'
  PROVE  Inv'
<1>1. \A q \in Requests \ {r} : Good(q)' /\ Placed(q)'
  <2>1. UNCHANGED <<sale, op, edited>>
    BY DEF OwnRows
  <2>2. \A x \in Sales \cup Ops : owner'[x] = owner[x]
           \/ (owner[x] \in {None, r} /\ owner'[x] \in {None, r})
    BY DEF OwnRows
  <2>3. \A s \in Sales : owner[s] \in {None, r} \/ saleDraft'[s] = saleDraft[s]
    BY DEF OwnRows
  <2>4. \A o \in Ops : owner[o] \in {None, r} \/ opDraft'[o] = opDraft[o]
    BY DEF OwnRows
  <2>5. \A o \in Ops : Complete(opDraft'[o]) =>
           \/ Complete(opDraft[o]) \/ Complete(op[o])
           \/ op[o].of \in Sales \ edited => owner[op[o].of] \in {None, r}
    BY DEF OwnRows
  <2> QED BY <2>1, <2>2, <2>3, <2>4, <2>5, OthersKeep
<1>2. TypeOK'
  <2>1. req' \in [Requests -> Reqs]
    BY Facts
  <2>2. \A q \in Requests : Placed(q)'
    BY <1>1
  <2>3. /\ sale' \in [Sales -> SaleRows] /\ op' \in [Ops -> OpRows] /\ edited' \subseteq Sales
    BY Facts DEF OwnRows
  <2>4. /\ \A s \in Sales : owner'[s] = None => saleDraft'[s] = sale'[s]
        /\ \A o \in Ops : owner'[o] = None => opDraft'[o] = op'[o]
    BY DEF OwnRows
  <2> QED BY <2>1, <2>2, <2>3, <2>4 DEF OwnRows, TypeOK, Placed, Reqs
<1>3. RollUpNotLost'
  BY DEF OwnRows, Inv, RollUpNotLost, OpsOf
<1> QED BY <1>1, <1>2, <1>3 DEF Inv

(* Most of a request's knowledge is about steps it has not reached. *)
LEMMA Unlocked ==
  ASSUME Inv, NEW r \in Requests, req[r].step \in {"idle", "locking"}
  PROVE  \A x \in Sales \cup Ops : owner[x] # r
  BY Facts DEF Good, Shape

LEMMA StartKeeps ==
  ASSUME Inv, NEW r \in Requests, NEW verb \in Verbs,
         NEW s \in Sales \cup {None}, NEW o \in Ops \cup {None},
         NEW step \in {"locking", "writing"}, Start(r, verb, s, o, step),
         step = "locking" => s \in Sales /\ verb \in SalesVerbs \cup GenerateVerbs \cup {"complete"},
         step = "writing" => o \in Ops /\ verb \in LifecycleVerbs \cup EditVerbs
                             /\ (verb = "complete" => s = None),
         verb \in SalesVerbs \cup GenerateVerbs => s \in Sales,
         verb \in LifecycleVerbs \cup EditVerbs => o \in Ops,
         verb \in LifecycleVerbs => Exists(op[o]),
         verb = "complete" /\ op[o].of \in Sales => s = op[o].of
  PROVE  Inv'
<1> DEFINE j == [Idle EXCEPT !.step = step, !.verb = verb, !.sale = s, !.op = o]
<1>1. /\ j \in Reqs /\ j.step = step /\ j.verb = verb /\ j.sale = s /\ j.op = o
      /\ j.targets = {}
  BY IdleType DEF Reqs, Idle, Steps
<1>2. req' = [req EXCEPT ![r] = j] /\ req'[r] = j
  BY Facts DEF Start
<1>3. UNCHANGED <<sale, op, saleDraft, opDraft, owner, edited>>
  BY DEF Start
<1>4. \A x \in Sales \cup Ops : owner[x] # r
  BY Unlocked DEF Start, Idle
<1>5. OwnRows(r)
  BY <1>3, Facts DEF OwnRows
<1> HIDE DEF j
<1>6. Shape(r)' /\ Placed(r)'
  <2>1. verb # "none" /\ None \notin Sales
    BY DEF Verbs, SalesVerbs, GenerateVerbs, LifecycleVerbs, EditVerbs
  <2> QED BY <1>1, <1>2, <1>3, <1>4, <2>1 DEF Shape, Placed
<1>7. Written(r)' /\ Targeted(r)'
  BY <1>1, <1>2, <1>3, <1>4 DEF Written, Targeted
<1>7a. Reopens(r)'
  BY <1>1, <1>2, <1>3, <1>4 DEF Reopens, SalesVerbs
<1>7b. FindsNone(r)'
  BY <1>1, <1>2, <1>3, <1>4 DEF FindsNone
<1>7c. RollsUp(r)'
  BY <1>1, <1>2, <1>3, <1>4 DEF RollsUp, LifecycleVerbs
<1>8. Resolved(r)'
  BY <1>1, <1>2, <1>3 DEF Resolved, Exists, LifecycleVerbs
<1> QED BY <1>1, <1>2, <1>5, <1>6, <1>7, <1>7a, <1>7b, <1>7c, <1>8, Moves DEF Good

LEMMA GoesOn ==
  ASSUME Inv, NEW r \in Requests, NEW step \in Steps, Goto(r, step)
  PROVE  \E j \in Reqs :
           /\ req' = [req EXCEPT ![r] = j] /\ req'[r] = j
           /\ j.step = step /\ j.targets = req[r].targets
           /\ j.verb = req[r].verb /\ j.sale = req[r].sale /\ j.op = req[r].op
<1> DEFINE j == [req[r] EXCEPT !.step = step]
<1>1. /\ j \in Reqs /\ j.step = step /\ j.targets = req[r].targets
      /\ j.verb = req[r].verb /\ j.sale = req[r].sale /\ j.op = req[r].op
  BY Facts DEF Reqs
<1>2. req' = [req EXCEPT ![r] = j] /\ req'[r] = j
  BY Facts DEF Goto
<1> QED BY <1>1, <1>2

LEMMA LockKeeps ==
  ASSUME Inv, NEW r \in Requests, LockSalesOrder(r)
  PROVE  Inv'
<1> DEFINE s == req[r].sale
<1>1. PICK j \in Reqs :
        /\ req' = [req EXCEPT ![r] = j] /\ req'[r] = j
        /\ j.step = "writing" /\ j.targets = req[r].targets
        /\ j.verb = req[r].verb /\ j.sale = req[r].sale /\ j.op = req[r].op
  BY GoesOn DEF LockSalesOrder, Steps
<1>2. UNCHANGED <<sale, op, saleDraft, opDraft, edited>>
  BY DEF LockSalesOrder
<1>3. /\ s \in Sales /\ req[r].verb = "complete" /\ req[r].step = "locking" /\ s \notin Ops
      /\ Good(r) /\ Shape(r)
  BY Facts DEF LockSalesOrder, Placed, Good
<1>4. \A x \in Sales \cup Ops : owner[x] # r
  BY <1>3, Unlocked
<1>5. owner[s] = None /\ saleDraft[s] = sale[s]
  BY <1>3, <1>4, Facts DEF LockSalesOrder, Free
<1>6. owner' = [x \in Sales \cup Ops |-> IF x = s THEN r ELSE owner[x]]
  BY DEF LockSalesOrder, Take
<1>7. OwnRows(r)
  BY <1>2, <1>3, <1>5, <1>6, Facts DEF OwnRows
<1>8. req[r].op \in Ops /\ req[r].targets = {} /\ r # None
  BY <1>3, Facts DEF Shape, LifecycleVerbs
<1>9. Shape(r)' /\ Placed(r)'
  BY <1>1, <1>2, <1>3, <1>4, <1>6, <1>8 DEF Shape, Placed, LifecycleVerbs, SalesVerbs, GenerateVerbs
<1>10. Written(r)'
  BY <1>1, <1>2, <1>3, <1>4, <1>5, <1>6 DEF Written, SaleWritten
<1>11. Resolved(r)'
  BY <1>1, <1>2, <1>3 DEF Good, Resolved
<1>12. Reopens(r)' /\ FindsNone(r)' /\ RollsUp(r)' /\ Targeted(r)'
  BY <1>1, <1>3, <1>8 DEF Reopens, FindsNone, RollsUp, Targeted, GenerateVerbs
<1> QED BY <1>1, <1>7, <1>9, <1>10, <1>11, <1>12, Moves DEF Good
(* What a stamp makes of a row's completion. *)
LEMMA Stamping ==
  ASSUME NEW verb, NEW row \in OpRows
  PROVE  /\ Complete(OpStamp(verb, row)) <=>
              \/ verb \in {"fulfil", "complete"}
              \/ Complete(row) /\ verb \notin {"unfulfil", "uncomplete"}
         /\ OpStamp(verb, OpStamp(verb, row)) = OpStamp(verb, row)
         /\ OpStamp(verb, row).of = row.of /\ OpStamp(verb, row) \in OpRows
<1> DEFINE stamp == IF verb \in Completing THEN "complete" ELSE "voided"
           new == Stamped(verb, stamp, row.stamps)
<1>1. OpStamp(verb, row) = [row EXCEPT !.stamps = new]
  BY DEF OpStamp
<1>2. OpStamp(verb, row) \in OpRows
  BY RowTypes
<1>3. OpStamp(verb, row).of = row.of /\ OpStamp(verb, row).stamps = new
  <2> HIDE DEF new
  <2> QED BY <1>1 DEF OpRows
<1>4. Complete(OpStamp(verb, row)) <=>
              \/ verb \in {"fulfil", "complete"}
              \/ Complete(row) /\ verb \notin {"unfulfil", "uncomplete"}
  BY <1>3 DEF Complete, Stamped, Setting, Completing
<1>5. Stamped(verb, stamp, new) = new
  BY DEF Stamped
<1>6. OpStamp(verb, OpStamp(verb, row))
        = [OpStamp(verb, row) EXCEPT !.stamps = Stamped(verb, stamp, OpStamp(verb, row).stamps)]
  BY DEF OpStamp
<1>7. OpStamp(verb, OpStamp(verb, row)) = [OpStamp(verb, row) EXCEPT !.stamps = new]
  BY <1>3, <1>5, <1>6
<1>8. OpStamp(verb, OpStamp(verb, row)) = OpStamp(verb, row)
  <2> HIDE DEF new
  <2> QED BY <1>2, <1>3, <1>7 DEF OpRows
<1> QED BY <1>2, <1>3, <1>4, <1>8

(* Only the holder of an order completes one of its production orders. *)
LEMMA DraftsDoNotComplete ==
  ASSUME Inv, NEW o \in Ops, op[o].of \in Sales \ edited,
         owner[o] = None \/ owner[op[o].of] # owner[o],
         Complete(opDraft[o])
  PROVE  Complete(op[o])
<1>1. CASE owner[o] = None
  BY <1>1, Facts
<1>2. CASE owner[o] # None
  <2> DEFINE q == owner[o]
  <2>1. q \in Requests /\ owner[op[o].of] # q
    BY <1>2, Facts
  <2>2. /\ OpWritten(q, o) /\ Resolved(q) /\ Shape(q) /\ op[o] \in OpRows
        /\ op[o].of \in Sales
    BY <2>1, Facts DEF Good, Written
  <2>3. CASE req[q].verb \in EditVerbs
    BY <2>2, <2>3 DEF OpWritten, Complete, EditVerbs, LifecycleVerbs, SalesVerbs, GenerateVerbs
  <2>4. CASE /\ req[q].verb \in LifecycleVerbs /\ req[q].step \in {"rolling", "answering"}
             /\ req[q].op = o /\ opDraft[o] = OpStamp(req[q].verb, op[o])
    <3>1. req[q].verb # "complete"
      BY <2>1, <2>2, <2>4 DEF Resolved, Shape
    <3>2. req[q].verb # "fulfil"
      BY <2>4 DEF LifecycleVerbs
    <3> QED BY <2>2, <2>4, <3>1, <3>2, Stamping
  <2>5. CASE op[o].of = req[q].sale /\ owner[req[q].sale] = q
    BY <2>1, <2>5
  <2>6. CASE op[o] = NoOp
    BY <2>2, <2>6 DEF NoOp
  <2> QED BY <2>2, <2>3, <2>4, <2>5, <2>6 DEF OpWritten
<1> QED BY <1>1, <1>2
(* What a request that holds nothing yet finds under the lock it takes.    *)
LEMMA Locking ==
  ASSUME Inv, NEW r \in Requests, req[r].step = "locking", Free(r, req[r].sale)
  PROVE  /\ req[r].sale \in Sales /\ req[r].sale \notin Ops
         /\ owner[req[r].sale] = None /\ saleDraft[req[r].sale] = sale[req[r].sale]
         /\ \A x \in Sales \cup Ops : owner[x] # r
         /\ req[r].targets = {} /\ Good(r) /\ Shape(r)
         /\ \A o \in Ops : Seen(r, o) = op[o]
<1>1. req[r].sale \in Sales /\ req[r].sale \notin Ops /\ Good(r) /\ Shape(r) /\ req[r].targets = {}
  BY Facts DEF Placed, Good, Shape
<1>2. \A x \in Sales \cup Ops : owner[x] # r
  BY Unlocked
<1>3. owner[req[r].sale] = None
  BY <1>1, <1>2 DEF Free
<1> QED BY <1>1, <1>2, <1>3, Facts DEF Seen

LEMMA RunTransitionKeeps ==
  ASSUME Inv, NEW r \in Requests, RunTransition(r)
  PROVE  Inv'
<1> DEFINE s == req[r].sale
           verb == req[r].verb
           reached == {o \in SeenOf(r, s) : Cascades(verb, Seen(r, o))}
           refused == Refused(verb, saleDraft[s])
           targets == IF refused THEN req[r].targets ELSE reached
           step == IF refused \/ reached = {} THEN "answering" ELSE "cascading"
<1>1. /\ s \in Sales /\ s \notin Ops /\ owner[s] = None /\ saleDraft[s] = sale[s]
      /\ \A x \in Sales \cup Ops : owner[x] # r
      /\ req[r].targets = {} /\ Good(r) /\ Shape(r) /\ verb \in SalesVerbs
      /\ \A o \in Ops : Seen(r, o) = op[o]
  BY Locking DEF RunTransition
<1>2. reached = {o \in Ops : op[o].of = s /\ Cascades(verb, op[o])}
  BY <1>1 DEF SeenOf
<1>3. targets \in SUBSET Ops /\ step \in Steps /\ (step = "answering" => targets = {})
  BY <1>1, <1>2 DEF Steps
<1>4. \E j \in Reqs : /\ req' = [req EXCEPT ![r] = j] /\ req'[r] = j
                      /\ j.step = step /\ j.targets = targets
                      /\ j.verb = verb /\ j.sale = s /\ j.op = req[r].op
  <2>1. CASE refused
    <3>1. Goto(r, "answering")
      BY <2>1 DEF RunTransition
    <3> QED BY <2>1, <3>1, GoesOn DEF Steps
  <2>2. CASE ~refused
    <3>1. req' = [req EXCEPT ![r].targets = reached,
                             ![r].step = IF reached = {} THEN "answering" ELSE "cascading"]
      BY <2>2 DEF RunTransition
    <3>2. req' = [req EXCEPT ![r].targets = targets, ![r].step = step]
      BY <2>2, <3>1
    <3> HIDE DEF targets, step
    <3> DEFINE j == [req[r] EXCEPT !.targets = targets, !.step = step]
    <3>3. /\ j \in Reqs /\ j.step = step /\ j.targets = targets
          /\ j.verb = req[r].verb /\ j.sale = req[r].sale /\ j.op = req[r].op
      <4>1. req[r] \in Reqs
        BY Facts
      <4> QED BY <1>3, <4>1 DEF Reqs
    <3>4. req' = [req EXCEPT ![r] = j] /\ req'[r] = j
      BY <3>2, Facts
    <3> QED BY <3>3, <3>4
  <2> QED BY <2>1, <2>2
<1>5. PICK j \in Reqs : /\ req' = [req EXCEPT ![r] = j] /\ req'[r] = j
                        /\ j.step = step /\ j.targets = targets
                        /\ j.verb = verb /\ j.sale = s /\ j.op = req[r].op
  BY <1>4
<1>6. owner' = [x \in Sales \cup Ops |-> IF x = s THEN r ELSE owner[x]]
  BY DEF RunTransition, Take
<1>7. UNCHANGED <<sale, op, opDraft, edited>>
  BY DEF RunTransition
<1>8. saleDraft' = [saleDraft EXCEPT ![s] = IF refused THEN sale[s] ELSE SaleStamp(verb, sale[s])]
  <2>1. CASE refused
    BY <1>1, <2>1, Facts DEF RunTransition
  <2>2. CASE ~refused
    BY <1>1, <2>2, Facts DEF RunTransition
  <2> QED BY <2>1, <2>2
<1>9. SaleStamp(verb, sale[s]) \in SaleRows /\ sale[s] \in SaleRows
  BY <1>1, RowTypes, Facts
<1>10. step \in {"answering", "cascading"}
  OBVIOUS
<1>11. refused <=> Refused(verb, sale[s])
  BY <1>1
<1>12. ~refused => targets = {o \in Ops : op[o].of = s /\ Cascades(verb, op[o])}
  BY <1>2
<1> HIDE DEF step, targets, reached, refused
<1>13. OwnRows(r)
  BY <1>1, <1>6, <1>7, <1>8, <1>9, Facts DEF OwnRows
<1>14. Shape(r)' /\ Placed(r)'
  BY <1>1, <1>3, <1>5, <1>6, <1>7, <1>10
  DEF Shape, Placed, LifecycleVerbs, SalesVerbs, GenerateVerbs, EditVerbs
<1>15. Written(r)'
  BY <1>1, <1>5, <1>6, <1>7, <1>8, <1>10, <1>11, Facts DEF Written, SaleWritten
<1>16. Resolved(r)' /\ FindsNone(r)' /\ RollsUp(r)'
  BY <1>1, <1>5 DEF Resolved, FindsNone, RollsUp, LifecycleVerbs, SalesVerbs, GenerateVerbs
<1>17. Targeted(r)'
  BY <1>1, <1>5, <1>7, <1>12 DEF Targeted, refused, targets
<1>18. Reopens(r)'
  <2> SUFFICES ASSUME verb = "unfulfil", s \notin edited, saleDraft'[s] # sale[s],
                      NEW o \in Ops, op[o].of = s, o \notin targets
               PROVE  ~Complete(opDraft[o]) /\ ~Complete(op[o])
    BY <1>5, <1>7 DEF Reopens
  <2>1. ~refused
    BY <1>1, <1>8, Facts
  <2>2. ~Cascades(verb, op[o])
    BY <1>12, <2>1
  <2>3. ~Complete(op[o])
    BY <2>2 DEF Cascades
  <2>4. Complete(opDraft[o]) => Complete(op[o])
    BY <1>1, DraftsDoNotComplete
  <2> QED BY <2>3, <2>4
<1> QED BY <1>5, <1>13, <1>14, <1>15, <1>16, <1>17, <1>18, Moves DEF Good

LEMMA CascadeKeeps ==
  ASSUME Inv, NEW r \in Requests, NEW o \in Ops, Cascade(r, o)
  PROVE  Inv'
<1> DEFINE s == req[r].sale
           verb == req[r].verb
           fits == opDraft[o].of = s /\ Cascades(verb, opDraft[o])
           targets == req[r].targets \ {o}
           step == IF req[r].targets = {o} THEN "answering" ELSE "cascading"
<1>1. /\ o \in req[r].targets /\ req[r].step = "cascading" /\ owner[o] \in {None, r}
      /\ verb \in SalesVerbs /\ s \in Sales /\ owner[s] = r /\ Good(r) /\ Shape(r)
      /\ req[r].targets \in SUBSET Ops /\ Written(r) /\ op[o] \in OpRows /\ opDraft[o] \in OpRows
  BY Facts DEF Cascade, Free, Good, Shape, Reqs
<1>2. step \in Steps /\ step \in {"answering", "cascading"} /\ (step = "answering" => targets = {})
  BY DEF Steps
<1>3. PICK j \in Reqs : /\ req' = [req EXCEPT ![r] = j] /\ req'[r] = j
                        /\ j.step = step /\ j.targets = targets
                        /\ j.verb = verb /\ j.sale = s /\ j.op = req[r].op
  <2>1. req' = [req EXCEPT ![r].targets = targets, ![r].step = step]
    <3>1. [req EXCEPT ![r].targets = targets][r].step = "cascading"
      BY <1>1, Facts DEF Reqs
    <3>2. req' = [req EXCEPT ![r].targets = @ \ {o},
                             ![r].step = IF req[r].targets = {o} THEN "answering" ELSE @]
      BY DEF Cascade
    <3> QED BY <1>1, <3>1, <3>2, Facts DEF Reqs
  <2>2. targets \in SUBSET Ops
    BY <1>1
  <2> HIDE DEF targets, step
  <2> DEFINE j == [req[r] EXCEPT !.targets = targets, !.step = step]
  <2>3. /\ j \in Reqs /\ j.step = step /\ j.targets = targets
        /\ j.verb = req[r].verb /\ j.sale = req[r].sale /\ j.op = req[r].op
    <3>1. req[r] \in Reqs
      BY Facts
    <3> QED BY <1>2, <2>2, <3>1 DEF Reqs
  <2>4. req' = [req EXCEPT ![r] = j] /\ req'[r] = j
    BY <2>1, Facts
  <2> QED BY <2>3, <2>4
<1>4. UNCHANGED <<sale, op, saleDraft, edited>>
  BY DEF Cascade
(* The row as the request leaves it. *)
<1>5. opDraft[o] = op[o] \/ (owner[o] = r /\ op[o].of = s /\ opDraft[o] = OpStamp(verb, op[o]))
  <2>1. CASE owner[o] = None
    BY <2>1, Facts
  <2>2. CASE owner[o] = r
    BY <1>1, <2>2 DEF Written, OpWritten, SalesVerbs, LifecycleVerbs, GenerateVerbs, EditVerbs
  <2> QED BY <1>1, <2>1, <2>2
<1>6. OpStamp(verb, opDraft[o]) \in OpRows /\ OpStamp(verb, op[o]).of = op[o].of
  BY <1>1, RowTypes
<1>7. fits => op[o].of = s /\ OpStamp(verb, opDraft[o]) = OpStamp(verb, op[o])
  BY <1>1, <1>5, Stamping
<1>8. IF fits THEN /\ owner' = [x \in Sales \cup Ops |-> IF x = o THEN r ELSE owner[x]]
                   /\ opDraft' = [opDraft EXCEPT ![o] = OpStamp(verb, op[o])]
              ELSE owner' = owner /\ opDraft' = opDraft
  BY <1>7 DEF Cascade, StampOp, Take
<1>9. owner \in [Sales \cup Ops -> Requests \cup {None}] /\ opDraft \in [Ops -> OpRows]
      /\ r # None /\ o \notin Sales
  BY Facts
<1>10. \A x \in Sales : owner'[x] = owner[x]
  BY <1>8, <1>9
<1>11. \A x \in Ops \ {o} : owner'[x] = owner[x] /\ opDraft'[x] = opDraft[x]
  BY <1>8, <1>9
<1>12. IF fits THEN owner'[o] = r /\ opDraft'[o] = OpStamp(verb, op[o])
               ELSE owner'[o] = owner[o] /\ opDraft'[o] = opDraft[o]
  BY <1>8, <1>9
<1>13. owner' \in [Sales \cup Ops -> Requests \cup {None}] /\ opDraft' \in [Ops -> OpRows]
  BY <1>6, <1>7, <1>8, <1>9
<1> HIDE DEF step, targets, fits
<1>14. OwnRows(r)
  <2>1. \A x \in Sales \cup Ops :
          owner'[x] = owner[x] \/ (owner[x] \in {None, r} /\ owner'[x] \in {None, r})
    BY <1>1, <1>10, <1>11, <1>12
  <2>2. \A x \in Ops : /\ owner[x] \in {None, r} \/ opDraft'[x] = opDraft[x]
                       /\ owner'[x] = None => opDraft'[x] = op[x]
    BY <1>1, <1>9, <1>11, <1>12, Facts
  <2>3. \A x \in Ops : Complete(opDraft'[x]) =>
          \/ Complete(opDraft[x]) \/ Complete(op[x])
          \/ op[x].of \in Sales \ edited => owner[op[x].of] \in {None, r}
    BY <1>1, <1>7, <1>11, <1>12
  <2> QED BY <1>4, <1>10, <1>13, <2>1, <2>2, <2>3, Facts DEF OwnRows
<1>15. Shape(r)' /\ Placed(r)'
  BY <1>1, <1>2, <1>3, <1>10
  DEF Shape, Placed, LifecycleVerbs, SalesVerbs, GenerateVerbs, EditVerbs
<1>16. Written(r)'
  <2>1. \A x \in Sales : owner[x] = r => SaleWritten(r, x)'
    BY <1>1, <1>2, <1>3, <1>4 DEF Written, SaleWritten, SalesVerbs, GenerateVerbs
  <2>2. \A x \in Ops : owner'[x] = r => op[x].of = s /\ opDraft'[x] = OpStamp(verb, op[x])
    <3>1. \A x \in Ops : owner[x] = r => op[x].of = s /\ opDraft[x] = OpStamp(verb, op[x])
      BY <1>1 DEF Written, OpWritten, SalesVerbs, LifecycleVerbs, GenerateVerbs, EditVerbs
    <3> QED BY <1>7, <1>11, <1>12, <3>1
  <2> QED BY <1>1, <1>2, <1>3, <1>4, <1>10, <2>1, <2>2 DEF Written, OpWritten
<1>17. Resolved(r)' /\ FindsNone(r)' /\ RollsUp(r)'
  BY <1>1, <1>3 DEF Resolved, FindsNone, RollsUp, LifecycleVerbs, SalesVerbs, GenerateVerbs
<1>18. Targeted(r)'
  BY <1>1, <1>3, <1>4 DEF Good, Targeted, targets
<1>19. Reopens(r)'
  <2> SUFFICES ASSUME verb = "unfulfil", s \notin edited, saleDraft[s] # sale[s],
                      NEW x \in Ops, op[x].of = s, x \notin targets
               PROVE  ~Complete(opDraft'[x]) /\ (owner'[x] = r \/ ~Complete(op[x]))
    BY <1>3, <1>4 DEF Reopens
  <2>1. CASE x # o
    <3>1. x \notin req[r].targets
      BY <2>1 DEF targets
    <3> QED BY <1>1, <1>11, <2>1, <3>1 DEF Good, Reopens
  <2>2. CASE x = o /\ fits
    BY <1>1, <1>12, <2>2, Stamping
  <2>3. CASE x = o /\ ~fits
    <3>1. opDraft[o].of = s
      BY <1>5, <1>6, <2>3
    <3>2. ~Complete(opDraft[o])
      BY <2>3, <3>1 DEF fits, Cascades
    <3> QED BY <1>5, <1>12, <2>3, <3>2
  <2> QED BY <2>1, <2>2, <2>3
<1> QED BY <1>3, <1>14, <1>15, <1>16, <1>17, <1>18, <1>19, Moves DEF Good
LEMMA RunGenerationKeeps ==
  ASSUME Inv, NEW r \in Requests, RunGeneration(r)
  PROVE  Inv'
<1> DEFINE s == req[r].sale
<1>1. /\ s \in Sales /\ s \notin Ops /\ owner[s] = None /\ saleDraft[s] = sale[s]
      /\ \A x \in Sales \cup Ops : owner[x] # r
      /\ req[r].targets = {} /\ Good(r) /\ Shape(r) /\ req[r].verb \in GenerateVerbs
      /\ \A o \in Ops : Seen(r, o) = op[o]
  BY Locking DEF RunGeneration
<1>2. PICK j \in Reqs : /\ req' = [req EXCEPT ![r] = j] /\ req'[r] = j
                        /\ j.step = "answering" /\ j.targets = req[r].targets
                        /\ j.verb = req[r].verb /\ j.sale = req[r].sale /\ j.op = req[r].op
  BY GoesOn DEF RunGeneration, Steps
<1>3. UNCHANGED <<sale, op, saleDraft, edited>>
  BY DEF RunGeneration
<1>4. SeenOf(r, s) = OpsOf(s)
  BY <1>1 DEF SeenOf, OpsOf
<1>5. PICK new \in SUBSET {o \in Ops : opDraft[o] = NoOp /\ owner[o] = None} :
        /\ SeenOf(r, s) # {} => new = {}
        /\ owner' = [x \in Sales \cup Ops |-> IF x \in {s} \cup new THEN r ELSE owner[x]]
        /\ opDraft' = [o \in Ops |-> IF o \in new THEN Born(s, saleDraft[s]) ELSE opDraft[o]]
  BY DEF RunGeneration, Take
<1>6. Born(s, sale[s]) \in OpRows
  BY <1>1, RowTypes, Facts
<1>7. \A o \in new : op[o] = NoOp /\ op[o].of \notin Sales /\ owner[o] = None
  <2>1. NoOp.of \notin Sales
    BY DEF NoOp
  <2>2. \A o \in new : o \in Ops /\ opDraft[o] = NoOp /\ owner[o] = None
    BY <1>5
  <2>3. \A o \in Ops : owner[o] = None => opDraft[o] = op[o]
    BY Facts
  <2> QED BY <2>1, <2>2, <2>3
<1>8. \A x \in Sales : owner'[x] = IF x = s THEN r ELSE owner[x]
  BY <1>5
<1>9. \A o \in Ops : /\ owner'[o] = IF o \in new THEN r ELSE owner[o]
                     /\ opDraft'[o] = IF o \in new THEN Born(s, sale[s]) ELSE opDraft[o]
  BY <1>1, <1>5
<1>10. OwnRows(r)
  <2>1. owner' \in [Sales \cup Ops -> Requests \cup {None}] /\ opDraft' \in [Ops -> OpRows]
    BY <1>1, <1>5, <1>6, Facts
  <2>2. \A x \in Sales \cup Ops :
          owner'[x] = owner[x] \/ (owner[x] \in {None, r} /\ owner'[x] \in {None, r})
    BY <1>1, <1>7, <1>8, <1>9
  <2>3. \A o \in Ops : /\ owner[o] \in {None, r} \/ opDraft'[o] = opDraft[o]
                       /\ owner'[o] = None => opDraft'[o] = op[o]
    BY <1>7, <1>9, Facts
  <2>4. \A o \in Ops : Complete(opDraft'[o]) =>
          \/ Complete(opDraft[o]) \/ Complete(op[o])
          \/ op[o].of \in Sales \ edited => owner[op[o].of] \in {None, r}
    BY <1>7, <1>9
  <2>5. \A x \in Sales : owner'[x] = None => saleDraft[x] = sale[x]
    BY <1>1, <1>8, Facts
  <2> QED BY <1>3, <2>1, <2>2, <2>3, <2>4, <2>5, Facts DEF OwnRows
<1>11. Shape(r)' /\ Placed(r)'
  BY <1>1, <1>2 DEF Shape, Placed, LifecycleVerbs, SalesVerbs, GenerateVerbs, EditVerbs
<1>12. Written(r)'
  <2>1. \A o \in Ops : owner'[o] = r => OpWritten(r, o)'
    BY <1>1, <1>2, <1>3, <1>7, <1>8, <1>9 DEF OpWritten
  <2>2. \A x \in Sales : owner'[x] = r => SaleWritten(r, x)'
    BY <1>1, <1>2, <1>3, <1>8 DEF SaleWritten
  <2> QED BY <2>1, <2>2 DEF Written
<1>13. Resolved(r)' /\ RollsUp(r)' /\ Reopens(r)' /\ Targeted(r)'
  BY <1>1, <1>2 DEF Resolved, RollsUp, Reopens, Targeted, LifecycleVerbs, GenerateVerbs
<1>14. FindsNone(r)'
  <2> SUFFICES ASSUME NEW o \in Ops, owner'[o] = r
               PROVE  OpsOf(s)' = {}
    BY <1>2 DEF FindsNone
  <2>1. o \in new
    BY <1>1, <1>9
  <2>2. OpsOf(s) = {}
    BY <1>4, <1>5, <2>1
  <2> QED BY <1>2, <1>3, <2>2 DEF OpsOf
<1> QED BY <1>2, <1>10, <1>11, <1>12, <1>13, <1>14, Moves DEF Good

(* A request about to write its production order holds none yet. *)
LEMMA Writing ==
  ASSUME Inv, NEW r \in Requests, req[r].step = "writing", Free(r, req[r].op)
  PROVE  /\ req[r].op \in Ops /\ req[r].op \notin Sales
         /\ owner[req[r].op] = None /\ opDraft[req[r].op] = op[req[r].op]
         /\ \A o \in Ops : owner[o] # r
         /\ \A s \in Sales : owner[s] = r => req[r].verb = "complete" /\ saleDraft[s] = sale[s]
         /\ req[r].targets = {} /\ Good(r) /\ Shape(r)
<1>1. /\ req[r].op \in Ops /\ req[r].op \notin Sales /\ Good(r) /\ Shape(r)
      /\ req[r].targets = {} /\ \A o \in Ops : owner[o] # r
  BY Facts DEF Placed, Good, Shape
<1>2. owner[req[r].op] = None
  BY <1>1 DEF Free
<1>3. \A s \in Sales : owner[s] = r => req[r].verb = "complete" /\ saleDraft[s] = sale[s]
  BY <1>1 DEF Good, Written, SaleWritten
<1> QED BY <1>1, <1>2, <1>3, Facts

LEMMA SetLifecycleKeeps ==
  ASSUME Inv, NEW r \in Requests, SetLifecycle(r)
  PROVE  Inv'
<1> DEFINE o == req[r].op
           verb == req[r].verb
           next == IF verb = "complete" /\ opDraft[o].of \in Sales THEN "rolling" ELSE "answering"
<1>1. /\ o \in Ops /\ o \notin Sales /\ owner[o] = None /\ opDraft[o] = op[o]
      /\ \A x \in Ops : owner[x] # r
      /\ \A s \in Sales : owner[s] = r => verb = "complete" /\ saleDraft[s] = sale[s]
      /\ req[r].targets = {} /\ Good(r) /\ Shape(r) /\ verb \in LifecycleVerbs
      /\ req[r].step = "writing"
  BY Writing DEF SetLifecycle
<1>2. next \in Steps /\ Goto(r, next)
  BY DEF SetLifecycle, Steps
<1> HIDE DEF next
<1>3. PICK j \in Reqs : /\ req' = [req EXCEPT ![r] = j] /\ req'[r] = j
                        /\ j.step = next /\ j.targets = req[r].targets
                        /\ j.verb = req[r].verb /\ j.sale = req[r].sale /\ j.op = req[r].op
  BY <1>2, GoesOn
<1>4. UNCHANGED <<sale, op, saleDraft, edited>>
  BY DEF SetLifecycle
<1>5. IF Exists(op[o])
      THEN /\ owner' = [x \in Sales \cup Ops |-> IF x \in {o} THEN r ELSE owner[x]]
           /\ opDraft' = [opDraft EXCEPT ![o] = OpStamp(verb, op[o])]
      ELSE owner' = owner /\ opDraft' = opDraft
  BY <1>1 DEF SetLifecycle, StampOp, Take
<1>6. /\ op[o] \in OpRows /\ OpStamp(verb, op[o]) \in OpRows /\ OpStamp(verb, op[o]).of = op[o].of
      /\ Complete(OpStamp(verb, op[o])) => Complete(op[o]) \/ verb = "complete"
  BY <1>1, Stamping, Facts DEF LifecycleVerbs
<1>7. owner \in [Sales \cup Ops -> Requests \cup {None}] /\ opDraft \in [Ops -> OpRows] /\ r # None
  BY Facts
<1>8. \A s \in Sales : owner'[s] = owner[s]
  BY <1>1, <1>5, <1>7
<1>9. \A x \in Ops \ {o} : owner'[x] = owner[x] /\ opDraft'[x] = opDraft[x]
  BY <1>5, <1>7
<1>10. IF Exists(op[o]) THEN owner'[o] = r /\ opDraft'[o] = OpStamp(verb, op[o])
                        ELSE owner'[o] = None /\ opDraft'[o] = op[o]
  BY <1>1, <1>5, <1>7
<1>11. owner' \in [Sales \cup Ops -> Requests \cup {None}] /\ opDraft' \in [Ops -> OpRows]
  BY <1>5, <1>6, <1>7
<1>12. OwnRows(r)
  <2>1. \A x \in Sales \cup Ops :
          owner'[x] = owner[x] \/ (owner[x] \in {None, r} /\ owner'[x] \in {None, r})
    BY <1>1, <1>8, <1>9, <1>10
  <2>2. \A x \in Ops : /\ owner[x] \in {None, r} \/ opDraft'[x] = opDraft[x]
                       /\ owner'[x] = None => opDraft'[x] = op[x]
    BY <1>1, <1>7, <1>9, <1>10, Facts
  <2>3. verb = "complete" /\ op[o].of \in Sales \ edited => owner[op[o].of] = r
    BY <1>1 DEF Good, Resolved, Shape, LifecycleVerbs
  <2>4. \A x \in Ops : Complete(opDraft'[x]) =>
          \/ Complete(opDraft[x]) \/ Complete(op[x])
          \/ op[x].of \in Sales \ edited => owner[op[x].of] \in {None, r}
    BY <1>6, <1>9, <1>10, <2>3
  <2> QED BY <1>4, <1>8, <1>11, <2>1, <2>2, <2>4, Facts DEF OwnRows
<1>13. next = "rolling" => verb = "complete" /\ op[o].of \in Sales /\ Exists(op[o])
  BY <1>1 DEF next, Exists
<1>14. next \in {"rolling", "answering"}
  BY DEF next
<1>15. Shape(r)' /\ Placed(r)'
  BY <1>1, <1>3, <1>6, <1>8, <1>10, <1>13, <1>14
  DEF Shape, Placed, LifecycleVerbs, SalesVerbs, GenerateVerbs, EditVerbs
<1>16. Written(r)'
  <2>1. \A x \in Ops : owner'[x] = r => OpWritten(r, x)'
    BY <1>1, <1>3, <1>4, <1>7, <1>9, <1>10, <1>14 DEF OpWritten
  <2>2. \A s \in Sales : owner'[s] = r => SaleWritten(r, s)'
    BY <1>1, <1>3, <1>4, <1>8, <1>14 DEF SaleWritten
  <2> QED BY <2>1, <2>2 DEF Written
<1>17. Resolved(r)'
  BY <1>1, <1>3, <1>4 DEF Good, Resolved
<1>18. RollsUp(r)'
  BY <1>1, <1>3, <1>4, <1>7, <1>10 DEF RollsUp, next, Exists
<1>19. Reopens(r)' /\ FindsNone(r)' /\ Targeted(r)'
  BY <1>1, <1>3 DEF Reopens, FindsNone, Targeted, LifecycleVerbs, GenerateVerbs
<1> QED BY <1>3, <1>12, <1>15, <1>16, <1>17, <1>18, <1>19, Moves DEF Good

LEMMA WriteEditKeeps ==
  ASSUME Inv, NEW r \in Requests, WriteEdit(r)
  PROVE  Inv'
<1> DEFINE o == req[r].op
           verb == req[r].verb
           written == IF verb = "delete" THEN Gone ELSE [opDraft[o] EXCEPT !.of = req[r].sale]
           there == IF verb = "create" THEN opDraft[o] = NoOp ELSE Exists(opDraft[o])
<1>1. /\ o \in Ops /\ o \notin Sales /\ owner[o] = None /\ opDraft[o] = op[o]
      /\ \A x \in Ops : owner[x] # r
      /\ \A s \in Sales : owner[s] = r => verb = "complete" /\ saleDraft[s] = sale[s]
      /\ req[r].targets = {} /\ Good(r) /\ Shape(r) /\ verb \in EditVerbs
      /\ req[r].step = "writing"
  BY Writing DEF WriteEdit
<1>2. \A s \in Sales : owner[s] # r
  BY <1>1 DEF EditVerbs
<1>3. PICK j \in Reqs : /\ req' = [req EXCEPT ![r] = j] /\ req'[r] = j
                        /\ j.step = "answering" /\ j.targets = req[r].targets
                        /\ j.verb = req[r].verb /\ j.sale = req[r].sale /\ j.op = req[r].op
  BY GoesOn DEF WriteEdit, Steps
<1>4. UNCHANGED <<sale, op, saleDraft, edited>>
  BY DEF WriteEdit
<1>5. /\ written \in OpRows /\ written.of # Absent
      /\ written.stamps \subseteq op[o].stamps
  <2>1. op[o] \in OpRows /\ req[r].sale \in Sales \cup {None}
    BY <1>1, Facts DEF Reqs
  <2>2. /\ Gone \in OpRows /\ Gone.of = Deleted /\ Gone.stamps = {}
    BY RowTypes DEF Gone, NoOp
  <2>3. CASE verb = "delete"
    BY <2>2, <2>3
  <2>4. CASE verb # "delete"
    BY <1>1, <2>1, <2>4 DEF OpRows
  <2> QED BY <2>3, <2>4
<1>6. IF there
      THEN /\ owner' = [x \in Sales \cup Ops |-> IF x \in {o} THEN r ELSE owner[x]]
           /\ opDraft' = [opDraft EXCEPT ![o] = written]
      ELSE owner' = owner /\ opDraft' = opDraft
  BY DEF WriteEdit, StampOp, Take
<1> HIDE DEF written, there
<1>7. owner \in [Sales \cup Ops -> Requests \cup {None}] /\ opDraft \in [Ops -> OpRows] /\ r # None
  BY Facts
<1>8. \A s \in Sales : owner'[s] = owner[s]
  BY <1>1, <1>6, <1>7
<1>9. \A x \in Ops \ {o} : owner'[x] = owner[x] /\ opDraft'[x] = opDraft[x]
  BY <1>6, <1>7
<1>10. IF there THEN owner'[o] = r /\ opDraft'[o] = written
                ELSE owner'[o] = None /\ opDraft'[o] = op[o]
  BY <1>1, <1>6, <1>7
<1>11. owner' \in [Sales \cup Ops -> Requests \cup {None}] /\ opDraft' \in [Ops -> OpRows]
  BY <1>5, <1>6, <1>7
<1>12. OwnRows(r)
  <2>1. \A x \in Sales \cup Ops :
          owner'[x] = owner[x] \/ (owner[x] \in {None, r} /\ owner'[x] \in {None, r})
    BY <1>1, <1>8, <1>9, <1>10
  <2>2. \A x \in Ops : /\ owner[x] \in {None, r} \/ opDraft'[x] = opDraft[x]
                       /\ owner'[x] = None => opDraft'[x] = op[x]
    BY <1>1, <1>7, <1>9, <1>10, Facts
  <2>3. \A x \in Ops : Complete(opDraft'[x]) => Complete(opDraft[x]) \/ Complete(op[x])
    BY <1>5, <1>9, <1>10 DEF Complete
  <2> QED BY <1>4, <1>8, <1>11, <2>1, <2>2, <2>3, Facts DEF OwnRows
<1>13. Shape(r)' /\ Placed(r)'
  BY <1>1, <1>3 DEF Shape, Placed, LifecycleVerbs, SalesVerbs, GenerateVerbs, EditVerbs
<1>14. Written(r)'
  <2>1. \A x \in Ops : owner'[x] = r => OpWritten(r, x)'
    BY <1>1, <1>3, <1>4, <1>5, <1>7, <1>9, <1>10 DEF OpWritten
  <2> QED BY <1>2, <1>8, <2>1 DEF Written
<1>15. Resolved(r)' /\ RollsUp(r)' /\ Reopens(r)' /\ FindsNone(r)' /\ Targeted(r)'
  BY <1>1, <1>3
  DEF Resolved, RollsUp, Reopens, FindsNone, Targeted, LifecycleVerbs, GenerateVerbs, EditVerbs
<1> QED BY <1>3, <1>12, <1>13, <1>14, <1>15, Moves DEF Good
(* What a request in its roll-up holds. *)
LEMMA Rolling ==
  ASSUME Inv, NEW r \in Requests, req[r].step = "rolling"
  PROVE  /\ req[r].op \in Ops /\ req[r].verb = "complete" /\ owner[req[r].op] = r
         /\ op[req[r].op].of \in Sales /\ opDraft[req[r].op].of = op[req[r].op].of
         /\ \A s \in Sales : owner[s] = r => saleDraft[s] = sale[s]
         /\ \A o \in Ops : owner[o] = r => o = req[r].op /\ opDraft[o] = OpStamp("complete", op[o])
         /\ req[r].targets = {} /\ Good(r) /\ Shape(r)
<1>1. /\ req[r].op \in Ops /\ req[r].verb = "complete" /\ owner[req[r].op] = r
      /\ opDraft[req[r].op].of \in Sales
      /\ req[r].targets = {} /\ Good(r) /\ Shape(r) /\ Written(r)
  BY Facts DEF Placed, Good, Shape
<1>2. \A s \in Sales : owner[s] = r => saleDraft[s] = sale[s]
  BY <1>1 DEF Written, SaleWritten, SalesVerbs, GenerateVerbs
<1>3. \A o \in Ops : owner[o] = r => o = req[r].op /\ opDraft[o] = OpStamp("complete", op[o])
  BY <1>1 DEF Written, OpWritten, SalesVerbs, GenerateVerbs, EditVerbs
<1>4. opDraft[req[r].op].of = op[req[r].op].of
  BY <1>1, <1>3, Stamping, Facts
<1> QED BY <1>1, <1>2, <1>3, <1>4

LEMMA RollUpKeeps ==
  ASSUME Inv, NEW r \in Requests, RollUp(r)
  PROVE  Inv'
<1> DEFINE o == req[r].op
           s == opDraft[o].of
<1>1. /\ o \in Ops /\ req[r].verb = "complete" /\ owner[o] = r
      /\ s \in Sales /\ s \notin Ops /\ s = op[o].of
      /\ \A x \in Sales : owner[x] = r => saleDraft[x] = sale[x]
      /\ \A x \in Ops : owner[x] = r => x = o /\ opDraft[x] = OpStamp("complete", op[x])
      /\ req[r].targets = {} /\ Good(r) /\ Shape(r) /\ req[r].step = "rolling"
  BY Rolling DEF RollUp
<1>2. PICK j \in Reqs : /\ req' = [req EXCEPT ![r] = j] /\ req'[r] = j
                        /\ j.step = "answering" /\ j.targets = req[r].targets
                        /\ j.verb = req[r].verb /\ j.sale = req[r].sale /\ j.op = req[r].op
  BY GoesOn DEF RollUp, Steps
<1>3. UNCHANGED <<sale, op, opDraft, edited>>
  BY DEF RollUp
<1>4. owner[s] \in {None, r} /\ saleDraft[s] = sale[s]
  BY <1>1, Facts DEF RollUp, Free
<1>5. owner' = [x \in Sales \cup Ops |-> IF x \in {s} THEN r ELSE owner[x]]
  BY DEF RollUp, Take
<1>6. saleDraft' = [saleDraft EXCEPT ![s] = IF Completes(r, s) THEN sale[s] \cup {"fulfilled"}
                                                               ELSE sale[s]]
  BY <1>1, <1>4, Facts DEF RollUp
<1>7. sale[s] \in SaleRows /\ sale[s] \cup {"fulfilled"} \in SaleRows
  BY <1>1, Facts DEF SaleRows
<1> HIDE DEF s
<1>8. \A x \in Ops : owner'[x] = owner[x]
  BY <1>1, <1>5
<1>9. \A x \in Sales : owner'[x] = IF x = s THEN r ELSE owner[x]
  BY <1>5
<1>10. \A x \in Sales \ {s} : saleDraft'[x] = saleDraft[x]
  BY <1>6, Facts
<1>11. saleDraft'[s] = IF Completes(r, s) THEN sale[s] \cup {"fulfilled"} ELSE sale[s]
  BY <1>1, <1>6, Facts
<1>12. OwnRows(r)
  <2>1. owner' \in [Sales \cup Ops -> Requests \cup {None}] /\ saleDraft' \in [Sales -> SaleRows]
    BY <1>5, <1>6, <1>7, Facts
  <2>2. \A x \in Sales \cup Ops :
          owner'[x] = owner[x] \/ (owner[x] \in {None, r} /\ owner'[x] \in {None, r})
    BY <1>4, <1>8, <1>9
  <2>3. \A x \in Sales : /\ owner[x] \in {None, r} \/ saleDraft'[x] = saleDraft[x]
                         /\ owner'[x] = None => saleDraft'[x] = sale[x]
    BY <1>4, <1>9, <1>10, Facts
  <2> QED BY <1>3, <1>8, <2>1, <2>2, <2>3, Facts DEF OwnRows
<1>13. Shape(r)' /\ Placed(r)'
  BY <1>1, <1>2, <1>9 DEF Shape, Placed, LifecycleVerbs, SalesVerbs, GenerateVerbs, EditVerbs
<1>14. Written(r)'
  <2>1. \A x \in Ops : owner'[x] = r => OpWritten(r, x)'
    BY <1>1, <1>2, <1>3, <1>8 DEF OpWritten, LifecycleVerbs
  <2>2. \A x \in Sales : owner'[x] = r => SaleWritten(r, x)'
    BY <1>1, <1>2, <1>3, <1>9, <1>10, <1>11 DEF SaleWritten
  <2> QED BY <2>1, <2>2 DEF Written
<1>15. Resolved(r)'
  BY <1>1, <1>2, <1>3 DEF Good, Resolved
<1>16. RollsUp(r)'
  <2>1. s' = s
    BY <1>2, <1>3 DEF s
  <2>2. Completes(r, s)' <=> Completes(r, s)
    <3>1. \A x \in Ops : Seen(r, x)' = Seen(r, x)
      BY <1>3, <1>8 DEF Seen
    <3>2. SeenOf(r, s)' = SeenOf(r, s)
      BY <2>1, <3>1 DEF SeenOf
    <3> QED BY <2>1, <3>1, <3>2 DEF Completes, SeenOf
  <2>3. Completes(r, s) => "fulfilled" \in saleDraft'[s]
    BY <1>11
  <2> QED BY <1>1, <1>2, <1>3, <2>1, <2>2, <2>3 DEF RollsUp
<1>17. Reopens(r)' /\ FindsNone(r)' /\ Targeted(r)'
  BY <1>1, <1>2 DEF Reopens, FindsNone, Targeted, GenerateVerbs
<1> QED BY <1>2, <1>12, <1>13, <1>14, <1>15, <1>16, <1>17, Moves DEF Good

LEMMA RetryRollUpKeeps ==
  ASSUME Inv, NEW r \in Requests, RetryRollUp(r)
  PROVE  Inv'
<1> DEFINE o == req[r].op
           s == op[o].of
           step == IF req[r].retried THEN "answering" ELSE "rolling"
           j == [req[r] EXCEPT !.retried = TRUE, !.step = step]
<1>1. /\ o \in Ops /\ req[r].verb = "complete" /\ owner[o] = r
      /\ s \in Sales /\ opDraft[o].of = s
      /\ \A x \in Sales : owner[x] = r => saleDraft[x] = sale[x]
      /\ \A x \in Ops : owner[x] = r => x = o /\ opDraft[x] = OpStamp("complete", op[x])
      /\ req[r].targets = {} /\ Good(r) /\ Shape(r) /\ req[r].step = "rolling"
  BY Rolling DEF RetryRollUp
<1>2. /\ req[r] \in Reqs /\ step \in Steps /\ step \in {"answering", "rolling"}
  BY Facts DEF Steps
<1>3. /\ j \in Reqs /\ j.step = step /\ j.targets = req[r].targets
      /\ j.verb = req[r].verb /\ j.sale = req[r].sale /\ j.op = req[r].op
  <2> HIDE DEF step
  <2> QED BY <1>2 DEF Reqs
<1>4. req' = [req EXCEPT ![r] = j] /\ req'[r] = j
  BY <1>1, Facts DEF RetryRollUp
<1>5. UNCHANGED <<sale, op, saleDraft, opDraft, owner, edited>>
  BY DEF RetryRollUp
(* It waits for its order: it does not hold it. *)
<1>6. owner[s] # r
  BY <1>1 DEF RetryRollUp, Cycle, WaitsFor, Wanted
<1> HIDE DEF step, j
<1>7. OwnRows(r)
  BY <1>5, Facts DEF OwnRows
<1>8. Shape(r)' /\ Placed(r)'
  BY <1>1, <1>2, <1>3, <1>4, <1>5
  DEF Shape, Placed, LifecycleVerbs, SalesVerbs, GenerateVerbs, EditVerbs
<1>9. Written(r)'
  BY <1>1, <1>2, <1>3, <1>4, <1>5 DEF Written, OpWritten, SaleWritten, LifecycleVerbs
<1>10. Resolved(r)' /\ Reopens(r)' /\ FindsNone(r)' /\ Targeted(r)'
  BY <1>1, <1>3, <1>4, <1>5 DEF Good, Resolved, Reopens, FindsNone, Targeted, GenerateVerbs
<1>11. RollsUp(r)'
  <2>1. s \in edited
    BY <1>1, <1>6 DEF Good, Resolved, Shape, LifecycleVerbs
  <2> QED BY <1>3, <1>4, <1>5, <2>1 DEF RollsUp
<1> QED BY <1>3, <1>4, <1>7, <1>8, <1>9, <1>10, <1>11, Moves DEF Good

LEMMA RollbackKeeps ==
  ASSUME Inv, NEW r \in Requests, Rollback(r)
  PROVE  Inv'
<1>1. req' = [req EXCEPT ![r] = Idle] /\ req'[r] = Idle /\ Idle \in Reqs
  BY IdleType, Facts DEF Rollback
<1>2. UNCHANGED <<sale, op, edited>>
  BY DEF Rollback
<1>3. owner' = [x \in Sales \cup Ops |-> IF owner[x] = r THEN None ELSE owner[x]] /\ r # None
  BY Facts DEF Rollback
<1>4. \A s \in Sales : saleDraft'[s] = IF owner[s] = r THEN sale[s] ELSE saleDraft[s]
  BY DEF Rollback
<1>5. \A o \in Ops : opDraft'[o] = IF owner[o] = r THEN op[o] ELSE opDraft[o]
  BY DEF Rollback
<1>6. OwnRows(r)
  <2>1. owner' \in [Sales \cup Ops -> Requests \cup {None}]
    BY <1>3, Facts
  <2>2. saleDraft' \in [Sales -> SaleRows] /\ opDraft' \in [Ops -> OpRows]
    BY Facts DEF Rollback
  <2>3. \A x \in Sales \cup Ops :
          owner'[x] = owner[x] \/ (owner[x] \in {None, r} /\ owner'[x] \in {None, r})
    BY <1>3
  <2>4. \A s \in Sales : /\ owner[s] \in {None, r} \/ saleDraft'[s] = saleDraft[s]
                         /\ owner'[s] = None => saleDraft'[s] = sale[s]
    BY <1>3, <1>4, Facts
  <2>5. \A o \in Ops : /\ owner[o] \in {None, r} \/ opDraft'[o] = opDraft[o]
                       /\ owner'[o] = None => opDraft'[o] = op[o]
                       /\ Complete(opDraft'[o]) => Complete(opDraft[o]) \/ Complete(op[o])
    BY <1>3, <1>5, Facts
  <2> QED BY <1>2, <2>1, <2>2, <2>3, <2>4, <2>5 DEF OwnRows
<1>7. \A x \in Sales \cup Ops : owner'[x] # r
  BY <1>3
<1>8. Good(r)' /\ Placed(r)'
  BY <1>1, <1>7
  DEF Good, Shape, Written, Resolved, Reopens, FindsNone, RollsUp, Targeted, Placed, Idle,
      LifecycleVerbs, SalesVerbs, GenerateVerbs, EditVerbs
<1> QED BY <1>1, <1>6, <1>8, Moves
-----------------------------------------------------------------------------
(* A commit publishes what its request wrote: nothing others know changes. *)
LEMMA Published ==
  ASSUME Inv, NEW r \in Requests, Commit(r)
  PROVE  /\ req' = [req EXCEPT ![r] = Idle] /\ req'[r] = Idle /\ Idle \in Reqs
         /\ UNCHANGED <<saleDraft, opDraft>>
         /\ owner' \in [Sales \cup Ops -> Requests \cup {None}]
         /\ \A x \in Sales \cup Ops :
              owner'[x] = (IF owner[x] = r THEN None ELSE owner[x]) /\ owner'[x] # r
         /\ sale' \in [Sales -> SaleRows] /\ op' \in [Ops -> OpRows]
         /\ \A s \in Sales : sale'[s] = IF owner[s] = r THEN saleDraft[s] ELSE sale[s]
         /\ \A o \in Ops : op'[o] = IF owner[o] = r THEN opDraft[o] ELSE op[o]
         /\ edited \subseteq edited' /\ edited' \subseteq Sales
         /\ req[r].step = "answering" /\ req[r].targets = {} /\ req[r].verb # "none"
         /\ Good(r) /\ Shape(r) /\ Written(r)
<1>1. req' = [req EXCEPT ![r] = Idle] /\ req'[r] = Idle /\ Idle \in Reqs
  BY IdleType, Facts DEF Commit
<1>2. owner' = [x \in Sales \cup Ops |-> IF owner[x] = r THEN None ELSE owner[x]] /\ r # None
  BY Facts DEF Commit
<1>3. owner' \in [Sales \cup Ops -> Requests \cup {None}]
  BY <1>2, Facts
<1>4. sale' \in [Sales -> SaleRows] /\ op' \in [Ops -> OpRows]
  BY Facts DEF Commit
<1>5. edited \subseteq edited' /\ edited' \subseteq Sales
  BY Facts DEF Commit
<1>6. req[r].step = "answering" /\ req[r].targets = {} /\ req[r].verb # "none"
      /\ Good(r) /\ Shape(r) /\ Written(r)
  BY Facts DEF Commit, Good, Shape
<1> QED BY <1>1, <1>2, <1>3, <1>4, <1>5, <1>6 DEF Commit

(* The order of a row changes by an edit, or by a generation under its lock. *)
LEMMA Rebound ==
  ASSUME Inv, NEW r \in Requests, Commit(r), NEW o \in Ops, op'[o].of # op[o].of
  PROVE  \/ /\ op'[o].of # Absent
            /\ op'[o].of \notin Sales \ edited' /\ op[o].of \notin Sales \ edited'
         \/ /\ op[o].of = Absent /\ op'[o].of = req[r].sale /\ req[r].sale \in Sales
            /\ owner[req[r].sale] = r
<1>1. owner[o] = r /\ op'[o] = opDraft[o] /\ OpWritten(r, o) /\ op[o] \in OpRows
  BY Published, Facts DEF Good, Written
<1>2. CASE req[r].verb \in EditVerbs /\ opDraft[o].of # Absent
  <2>1. edited' = edited \cup ((UNION {{op[x].of, opDraft[x].of} : x \in {y \in Ops : owner[y] = r}})
                               \cap Sales)
    BY <1>2 DEF Commit
  <2>2. {op[o].of, opDraft[o].of} \cap Sales \subseteq edited'
    BY <1>1, <2>1
  <2> QED BY <1>1, <1>2, <2>2
<1>3. CASE opDraft[o] = OpStamp(req[r].verb, op[o])
  BY <1>1, <1>3, Stamping
<1>4. CASE /\ req[r].verb \in GenerateVerbs /\ op[o] = NoOp
           /\ opDraft[o] = Born(req[r].sale, sale[req[r].sale])
           /\ owner[req[r].sale] = r
  BY <1>1, <1>4, Published DEF NoOp, Born, Shape
<1> QED BY <1>1, <1>2, <1>3, <1>4 DEF OpWritten

LEMMA OthersKeepOnCommit ==
  ASSUME Inv, NEW r \in Requests, Commit(r), NEW q \in Requests \ {r}
  PROVE  Good(q)' /\ Placed(q)'
<1>1. /\ req'[q] = req[q] /\ Good(q) /\ Placed(q) /\ req[q] \in Reqs /\ q # None
      /\ saleDraft' = saleDraft /\ opDraft' = opDraft
  BY Published, Facts
<1>2. \A x \in Sales \cup Ops : owner'[x] = q <=> owner[x] = q
  BY <1>1, Published
<1>3. \A s \in Sales : owner[s] = q => sale'[s] = sale[s]
  BY Published
<1>4. \A o \in Ops : owner[o] = q => op'[o] = op[o]
  BY Published
<1>5. Shape(q) /\ Written(q) /\ req[q].targets \subseteq Ops /\ edited \subseteq edited'
  BY <1>1, Published DEF Good, Reqs
<1>6. req[q].verb \in SalesVerbs \cup GenerateVerbs => req[q].sale \in Sales
  BY <1>5 DEF Shape
(* A row of an order that is not edited was its row already, unless the order is r's. *)
<1>7. \A o \in Ops : op'[o].of \in Sales \ edited' /\ owner[op'[o].of] = q => op[o].of = op'[o].of
  BY Rebound
<1>8. \A o \in Ops : op[o].of \in Sales \ edited' => op'[o].of = op[o].of
  BY Rebound
<1>9. Shape(q)'
  BY <1>1, <1>2, <1>5 DEF Shape, LifecycleVerbs
<1>10. Written(q)'
  <2>1. \A o \in Ops : owner[o] = q => OpWritten(q, o)'
    <3> SUFFICES ASSUME NEW o \in Ops, owner[o] = q PROVE OpWritten(q, o)'
      OBVIOUS
    <3>1. OpWritten(q, o) /\ op'[o] = op[o]
      BY <1>4, <1>5 DEF Written
    <3> QED BY <1>1, <1>2, <1>3, <1>6, <3>1 DEF OpWritten
  <2>2. \A s \in Sales : owner[s] = q => SaleWritten(q, s)'
    BY <1>1, <1>3, <1>5 DEF Written, SaleWritten
  <2> QED BY <1>2, <2>1, <2>2 DEF Written
<1>11. Resolved(q)'
  <2> SUFFICES ASSUME req[q].verb \in LifecycleVerbs
               PROVE  /\ op'[req[q].op].of # Absent
                      /\ req[q].verb = "complete" /\ op'[req[q].op].of \in Sales \ edited'
                           => req[q].sale = op'[req[q].op].of
    BY <1>1 DEF Resolved
  <2>1. req[q].op \in Ops
    BY <1>5 DEF Shape
  <2>2. /\ op[req[q].op].of # Absent
        /\ req[q].verb = "complete" /\ op[req[q].op].of \in Sales \ edited
             => req[q].sale = op[req[q].op].of
    BY <1>1 DEF Good, Resolved
  <2>3. CASE op'[req[q].op].of = op[req[q].op].of
    BY <1>5, <2>2, <2>3
  <2>4. CASE op'[req[q].op].of # op[req[q].op].of
    BY <2>1, <2>2, <2>4, Rebound
  <2> QED BY <2>3, <2>4
<1>12. Reopens(q)'
  <2> SUFFICES ASSUME req[q].verb = "unfulfil", req[q].sale \notin edited',
                      owner'[req[q].sale] = q,
                      saleDraft[req[q].sale] # sale'[req[q].sale],
                      NEW o \in Ops, op'[o].of = req[q].sale, o \notin req[q].targets
               PROVE  ~Complete(opDraft[o]) /\ (owner'[o] = q \/ ~Complete(op'[o]))
    BY <1>1 DEF Reopens
  <2>1. req[q].sale \in Sales
    BY <1>6 DEF SalesVerbs
  <2>2. owner[req[q].sale] = q /\ sale'[req[q].sale] = sale[req[q].sale]
    BY <1>2, <1>3, <2>1
  <2>3. op[o].of = req[q].sale
    BY <1>7, <2>1, <2>2
  <2>4. ~Complete(opDraft[o]) /\ (owner[o] = q \/ ~Complete(op[o]))
    BY <1>1, <1>5, <2>2, <2>3 DEF Good, Reopens
  <2> QED BY <1>2, <2>4, Published
<1>13. FindsNone(q)'
  <2> SUFFICES ASSUME req[q].verb \in GenerateVerbs, req[q].sale \notin edited',
                      NEW o \in Ops, owner'[o] = q,
                      NEW x \in Ops, op'[x].of = req[q].sale
               PROVE  FALSE
    BY <1>1 DEF FindsNone, OpsOf
  <2>1. owner[o] = q /\ OpWritten(q, o) /\ req[q].sale \in Sales
    BY <1>2, <1>5, <1>6 DEF Written
  <2>2. owner[req[q].sale] = q
    BY <2>1 DEF OpWritten, GenerateVerbs, EditVerbs, LifecycleVerbs, SalesVerbs
  <2>3. op[x].of = req[q].sale
    BY <1>7, <2>1, <2>2
  <2>4. OpsOf(req[q].sale) = {}
    BY <1>1, <1>5, <2>1 DEF Good, FindsNone
  <2> QED BY <2>3, <2>4 DEF OpsOf
<1>14. RollsUp(q)'
  <2> DEFINE s == op[req[q].op].of
  <2> SUFFICES ASSUME req[q].verb = "complete", req[q].step = "answering",
                      owner'[req[q].op] = q, op'[req[q].op].of \in Sales \ edited',
                      Completes(q, op[req[q].op].of)', op'[req[q].op] = op[req[q].op]
               PROVE  "fulfilled" \in saleDraft[s]
    <3>1. req[q].verb = "complete" => req[q].op \in Ops
      BY <1>5 DEF Shape, LifecycleVerbs
    <3> QED BY <1>1, <1>2, <1>4, <3>1 DEF RollsUp
  <2>1. req[q].op \in Ops /\ owner[req[q].op] = q /\ s \in Sales \ edited /\ s \notin edited'
    BY <1>2, <1>5 DEF Shape, LifecycleVerbs
  <2>2. owner[s] = q
    BY <1>1, <1>5, <2>1 DEF Good, Shape, Resolved, LifecycleVerbs
  <2>3. \A o \in Ops : op'[o].of = s <=> op[o].of = s
    BY <1>7, <1>8, <2>1, <2>2
  <2> HIDE DEF s
  <2>4. \A o \in Ops : Seen(q, o)' = IF owner[o] = q THEN opDraft[o] ELSE op'[o]
    BY <1>1, <1>2 DEF Seen
  <2>5. \A o \in Ops : Seen(q, o)'.of = s <=> Seen(q, o).of = s
    BY <2>3, <2>4 DEF Seen
  <2>6. s' = s
    BY <1>1 DEF s
  <2>7. SeenOf(q, s)' = SeenOf(q, s)
    BY <2>5, <2>6 DEF SeenOf
  <2>8. \A o \in Ops : Seen(q, o).of = s /\ Complete(Seen(q, o)') => Complete(Seen(q, o))
    <3> SUFFICES ASSUME NEW o \in Ops, Seen(q, o).of = s, Complete(Seen(q, o)')
                 PROVE  Complete(Seen(q, o))
      OBVIOUS
    <3>1. CASE owner[o] # r
      BY <2>4, <3>1, Published DEF Seen
    <3>2. CASE owner[o] = r
      <4>1. Seen(q, o) = op[o] /\ Complete(opDraft[o]) /\ op[o].of = s
        BY <2>4, <3>2, Published DEF Seen
      <4> QED BY <2>1, <2>2, <3>2, <4>1, DraftsDoNotComplete
    <3> QED BY <3>1, <3>2
  <2>9. Completes(q, s)
    BY <2>6, <2>7, <2>8 DEF Completes, SeenOf, s
  <2> QED BY <1>1, <2>1, <2>9 DEF Good, RollsUp, s
<1>15. Targeted(q)'
  <2> SUFFICES ASSUME NEW o \in req[q].targets
               PROVE  op'[o].of = req[q].sale \/ req[q].sale \in edited'
    BY <1>1 DEF Targeted
  <2>1. o \in Ops /\ req[q].sale \in Sales
    BY <1>5, <1>6 DEF Shape
  <2>2. op[o].of = req[q].sale \/ req[q].sale \in edited
    BY <1>1 DEF Good, Targeted
  <2> QED BY <1>5, <1>8, <2>1, <2>2
<1>16. Placed(q)'
  BY <1>1 DEF Placed
<1> QED BY <1>9, <1>10, <1>11, <1>12, <1>13, <1>14, <1>15, <1>16 DEF Good
(* What an order's stamp becomes when it is committed. *)
LEMMA SaleCommitted ==
  ASSUME Inv, NEW r \in Requests, Commit(r), NEW s \in Sales, sale'[s] # sale[s]
  PROVE  /\ owner[s] = r /\ sale'[s] = saleDraft[s] /\ saleDraft[s] # sale[s]
         /\ \/ /\ req[r].verb \in SalesVerbs /\ req[r].sale = s
               /\ ~Refused(req[r].verb, sale[s]) /\ sale'[s] = SaleStamp(req[r].verb, sale[s])
            \/ req[r].verb = "complete" /\ sale'[s] = sale[s] \cup {"fulfilled"}
<1>1. owner[s] = r /\ sale'[s] = saleDraft[s] /\ Written(r) /\ saleDraft[s] # sale[s]
  BY Published
<1>2. SaleWritten(r, s)
  BY <1>1 DEF Written
<1> QED BY <1>1, <1>2 DEF SaleWritten

LEMMA RollUpNotLostOnCommit ==
  ASSUME Inv, NEW r \in Requests, Commit(r)
  PROVE  RollUpNotLost'
<1> SUFFICES ASSUME NEW s \in Sales \ edited', OpsOf(s)' # {}, <<s, OpsOf(s)'>> \in Covering,
                    \A o \in OpsOf(s)' : Complete(op'[o])
             PROVE  "fulfilled" \in sale'[s]
  <2>1. edited' \subseteq Sales
    BY Published
  <2> QED BY <2>1 DEF RollUpNotLost, OpsOf
<1> DEFINE verb == req[r].verb
<1>1. /\ s \notin edited /\ Good(r) /\ Shape(r) /\ Written(r) /\ req[r].step = "answering"
      /\ req[r].targets = {} /\ verb # "none" /\ req[r] \in Reqs
  BY Published, Facts
<1>2. OpsOf(s)' = {o \in Ops : op'[o].of = s}
  BY DEF OpsOf
<1>3. \A o \in Ops : op'[o].of = s => Complete(op'[o])
  BY <1>2
<1>4. \A o \in Ops : op[o].of = s => op'[o].of = s
  BY Rebound
<1>5. \A o \in Ops : op'[o].of = s => op[o].of = s \/ (op[o].of = Absent /\ req[r].sale = s /\ owner[o] = r)
  BY Rebound, Published
(* A row that the commit completes. *)
<1>6. CASE \E o \in Ops : op'[o].of = s /\ op[o].of # s
  <2>1. PICK o \in Ops : op'[o].of = s /\ op[o].of = Absent /\ req[r].sale = s /\ owner[o] = r
    BY <1>5, <1>6
  <2>2. OpWritten(r, o) /\ op'[o] = opDraft[o] /\ op[o] \in OpRows
    BY <1>1, <2>1, Published, Facts DEF Written
  <2>3. opDraft[o] # OpStamp(verb, op[o])
    BY <2>1, <2>2, Stamping
  <2>4. verb \notin EditVerbs
    <3>1. edited' = edited \cup ((UNION {{op[x].of, opDraft[x].of} : x \in {y \in Ops : owner[y] = r}})
                                 \cap Sales) \/ verb \notin EditVerbs
      BY DEF Commit
    <3> QED BY <2>1, <2>2, <3>1
  <2>5. op'[o] = Born(s, sale[s]) /\ verb \in GenerateVerbs
    BY <2>1, <2>2, <2>3, <2>4 DEF OpWritten
  <2>6. "fulfilled" \in sale[s]
    BY <1>3, <2>1, <2>5 DEF Born, Complete
  <2> QED BY <2>5, <2>6, SaleCommitted DEF GenerateVerbs, SalesVerbs
<1>7. CASE \A o \in Ops : op'[o].of = s => op[o].of = s
  <2>1. OpsOf(s) = OpsOf(s)'
    BY <1>2, <1>4, <1>7 DEF OpsOf
  <2>2. (\A o \in OpsOf(s) : Complete(op[o])) => "fulfilled" \in sale[s]
    BY <1>1, <2>1 DEF Inv, RollUpNotLost
  <2>3. CASE \E o \in OpsOf(s) : ~Complete(op[o])
    <3>1. PICK o \in Ops : op[o].of = s /\ ~Complete(op[o])
      BY <2>3 DEF OpsOf
    <3>2. op'[o].of = s /\ Complete(op'[o])
      BY <1>3, <1>4, <3>1
    <3>3. owner[o] = r /\ Complete(opDraft[o]) /\ op'[o] = opDraft[o]
      BY <3>1, <3>2, Published
    <3>4. owner[s] = r /\ OpWritten(r, o) /\ op[o] \in OpRows
      BY <1>1, <3>1, <3>3, DraftsDoNotComplete, Facts DEF Written
    <3>5. CASE verb \in LifecycleVerbs /\ req[r].op = o /\ opDraft[o] = OpStamp(verb, op[o])
      <4>1. verb = "complete"
        BY <3>1, <3>3, <3>4, <3>5, Stamping DEF LifecycleVerbs
      <4>2. \A x \in Ops : Seen(r, x) = op'[x]
        BY Published DEF Seen
      <4>3. SeenOf(r, s) = OpsOf(s)'
        BY <1>2, <4>2 DEF SeenOf
      <4>4. Completes(r, s)
        BY <1>2, <1>3, <4>2, <4>3 DEF Completes
      <4>5. "fulfilled" \in saleDraft[s]
        BY <1>1, <3>1, <3>3, <3>5, <4>1, <4>4 DEF Good, RollsUp
      <4> QED BY <3>4, <4>5, Published
    <3>6. CASE verb \in SalesVerbs /\ req[r].sale = s /\ opDraft[o] = OpStamp(verb, op[o])
      <4>1. verb = "fulfil"
        BY <3>1, <3>3, <3>4, <3>6, Stamping DEF SalesVerbs
      <4>2. SaleWritten(r, s)
        BY <1>1, <3>4 DEF Written
      <4>3. "fulfilled" \in saleDraft[s]
        BY <4>1, <4>2 DEF SaleWritten, Refused, SaleStamp, Stamped, Setting, Completing, GenerateVerbs
      <4> QED BY <3>4, <4>3, Published
    <3>7. opDraft[o].stamps \subseteq op[o].stamps => FALSE
      BY <3>1, <3>3 DEF Complete
    <3>8. op[o] = NoOp => FALSE
      BY <3>1 DEF NoOp
    <3> QED BY <3>1, <3>4, <3>5, <3>6, <3>7, <3>8 DEF OpWritten
  <2>4. CASE "fulfilled" \in sale[s]
    <3> SUFFICES ASSUME sale'[s] # sale[s]
                 PROVE  "fulfilled" \in sale'[s]
      BY <2>4
    <3>1. CASE verb = "complete" /\ sale'[s] = sale[s] \cup {"fulfilled"}
      BY <3>1
    <3>2. CASE /\ verb \in SalesVerbs /\ req[r].sale = s
               /\ ~Refused(verb, sale[s]) /\ sale'[s] = SaleStamp(verb, sale[s])
      <4>1. CASE verb # "unfulfil"
        BY <2>4, <3>2, <4>1 DEF SaleStamp, Stamped, Setting, Completing, SalesVerbs
      <4>2. CASE verb = "unfulfil"
        <5>1. owner[s] = r /\ saleDraft[s] # sale[s]
          BY SaleCommitted
        <5>2. \A o \in Ops : op[o].of = s =>
                ~Complete(opDraft[o]) /\ (owner[o] = r \/ ~Complete(op[o]))
          BY <1>1, <3>2, <4>2, <5>1 DEF Good, Reopens
        <5>3. \A o \in Ops : op[o].of = s => ~Complete(op'[o])
          BY <5>2, Published
        <5> QED BY <1>2, <1>3, <1>7, <5>3
      <4> QED BY <4>1, <4>2
    <3> QED BY <3>1, <3>2, SaleCommitted
  <2> QED BY <2>2, <2>3, <2>4
<1> QED BY <1>6, <1>7

LEMMA CommitKeeps ==
  ASSUME Inv, NEW r \in Requests, Commit(r)
  PROVE  Inv'
<1>1. \A q \in Requests \ {r} : Good(q)' /\ Placed(q)'
  BY OthersKeepOnCommit
<1>2. Good(r)' /\ Placed(r)'
  <2>1. req'[r] = Idle /\ \A x \in Sales \cup Ops : owner'[x] # r
    BY Published
  <2> QED BY <2>1
      DEF Good, Shape, Written, Resolved, Reopens, FindsNone, RollsUp, Targeted, Placed, Idle,
          LifecycleVerbs, SalesVerbs, GenerateVerbs, EditVerbs
<1>3. TypeOK'
  <2>1. \A q \in Requests : Placed(q)'
    BY <1>1, <1>2
  <2>2. req' \in [Requests -> Reqs]
    BY Published, Facts
  <2>3. saleDraft' \in [Sales -> SaleRows] /\ opDraft' \in [Ops -> OpRows]
    BY Published, Facts
  <2>4. /\ \A s \in Sales : owner'[s] = None => saleDraft'[s] = sale'[s]
        /\ \A o \in Ops : owner'[o] = None => opDraft'[o] = op'[o]
    BY Published, Facts
  <2> QED BY <2>1, <2>2, <2>3, <2>4, Published DEF TypeOK, Placed, Reqs
<1> QED BY <1>1, <1>2, <1>3, RollUpNotLostOnCommit DEF Inv

-----------------------------------------------------------------------------
(* The invariant. *)

LEMMA InitGood == Init => Inv
<1> SUFFICES ASSUME Init PROVE Inv
  OBVIOUS
<1>1. {} \in SaleRows /\ NoOp \in OpRows /\ Idle \in Reqs
  BY RowTypes, IdleType DEF SaleRows
<1>2. \A r \in Requests : Good(r) /\ Placed(r)
  BY DEF Init, Good, Shape, Written, Resolved, Reopens, FindsNone, RollsUp, Targeted, Placed,
         Idle, LifecycleVerbs, SalesVerbs, GenerateVerbs, EditVerbs
<1>3. TypeOK
  BY <1>1, <1>2 DEF Init, TypeOK, Placed, Reqs
<1>4. RollUpNotLost
  BY DEF Init, RollUpNotLost, OpsOf, NoOp
<1> QED BY <1>2, <1>3, <1>4 DEF Inv

LEMMA StepKeeps == Inv /\ [Next]_vars => Inv'
<1> SUFFICES ASSUME Inv, [Next]_vars PROVE Inv'
  OBVIOUS
<1>1. CASE UNCHANGED vars
  BY <1>1
  DEF vars, Inv, TypeOK, RollUpNotLost, OpsOf, Good, Shape, Written, OpWritten, SaleWritten,
      Resolved, Reopens, FindsNone, RollsUp, Completes, SeenOf, Seen, Targeted
<1>2. CASE Next
  <2>1. PICK r \in Requests :
          \/ \E verb \in Verbs, s \in Sales : Transition(r, verb, s) \/ Generate(r, verb, s)
          \/ \E verb \in Verbs, o \in Ops : Lifecycle(r, verb, o)
          \/ \E verb \in Verbs, s \in Sales \cup {None}, o \in Ops : Edit(r, verb, s, o)
          \/ \E o \in Ops : Cascade(r, o)
          \/ LockSalesOrder(r) \/ RunTransition(r) \/ RunGeneration(r)
          \/ SetLifecycle(r) \/ RollUp(r) \/ WriteEdit(r) \/ RetryRollUp(r)
          \/ Commit(r) \/ Rollback(r)
    BY <1>2 DEF Next
  <2>2. ASSUME NEW verb \in Verbs, NEW s \in Sales, Transition(r, verb, s) \/ Generate(r, verb, s)
        PROVE  Inv'
    <3>1. verb \in SalesVerbs \cup GenerateVerbs /\ Start(r, verb, s, None, "locking")
      BY <2>2 DEF Transition, Generate
    <3>2. verb \notin LifecycleVerbs \cup EditVerbs /\ verb # "complete"
      BY <3>1 DEF SalesVerbs, GenerateVerbs, LifecycleVerbs, EditVerbs
    <3> QED BY <3>1, <3>2, StartKeeps
  <2>3. ASSUME NEW verb \in Verbs, NEW o \in Ops, Lifecycle(r, verb, o)
        PROVE  Inv'
    <3>1. verb \in LifecycleVerbs /\ Exists(op[o]) /\ verb \notin SalesVerbs \cup GenerateVerbs
      BY <2>3 DEF Lifecycle, SalesVerbs, GenerateVerbs, LifecycleVerbs
    <3>2. CASE verb = "complete" /\ op[o].of \in Sales
      <4>1. Start(r, verb, op[o].of, o, "locking")
        BY <2>3, <3>2 DEF Lifecycle
      <4> QED BY <3>1, <3>2, <4>1, StartKeeps
    <3>3. CASE ~(verb = "complete" /\ op[o].of \in Sales)
      <4>1. Start(r, verb, None, o, "writing")
        BY <2>3, <3>3 DEF Lifecycle
      <4> QED BY <3>1, <3>3, <4>1, StartKeeps
    <3> QED BY <3>2, <3>3
  <2>4. ASSUME NEW verb \in Verbs, NEW s \in Sales \cup {None}, NEW o \in Ops, Edit(r, verb, s, o)
        PROVE  Inv'
    <3>1. verb \in EditVerbs /\ Start(r, verb, s, o, "writing")
      BY <2>4 DEF Edit
    <3>2. verb \notin SalesVerbs \cup GenerateVerbs \cup LifecycleVerbs /\ verb # "complete"
      BY <3>1 DEF SalesVerbs, GenerateVerbs, LifecycleVerbs, EditVerbs
    <3> QED BY <3>1, <3>2, StartKeeps
  <2>5. ASSUME NEW o \in Ops, Cascade(r, o)
        PROVE  Inv'
    BY <2>5, CascadeKeeps
  <2>6. CASE LockSalesOrder(r) \/ RunTransition(r) \/ RunGeneration(r)
    BY <2>6, LockKeeps, RunTransitionKeeps, RunGenerationKeeps
  <2>7. CASE SetLifecycle(r) \/ RollUp(r) \/ WriteEdit(r) \/ RetryRollUp(r)
    BY <2>7, SetLifecycleKeeps, RollUpKeeps, WriteEditKeeps, RetryRollUpKeeps
  <2>8. CASE Commit(r) \/ Rollback(r)
    BY <2>8, CommitKeeps, RollbackKeeps
  <2> QED BY <2>1, <2>2, <2>3, <2>4, <2>5, <2>6, <2>7, <2>8
<1> QED BY <1>1, <1>2

LEMMA Invariance == Spec => []Inv
BY InitGood, StepKeeps, PTL DEF Spec
(* Every reachable state is well typed: a lock's holder is a request, a row  *)
(* nobody holds is as committed, and a roll-up has a row and an order.      *)
THEOREM TypeInvariance == Spec => []TypeOK
<1>1. Inv => TypeOK
  BY DEF Inv
<1> QED BY <1>1, Invariance, PTL

(* The event that fulfils an order is never lost: neither to another        *)
(* completion, nor to an unfulfilment or a generation beside it, nor to the *)
(* retry that drops the roll-up (runRollUp, autoFulfillIfComplete).         *)
THEOREM FulfilmentNotLost == Spec => []RollUpNotLost
<1>1. Inv => RollUpNotLost
  BY DEF Inv
<1> QED BY <1>1, Invariance, PTL

(* With no row rebound under a completion, two requests never wait for each *)
(* other: each takes its order before its production orders (lifecycle in   *)
(* production-order.controller.ts, runTransition).                          *)
THEOREM LocksInOrder == Spec => []NoWaitCycle
<1>1. ASSUME Inv
      PROVE  NoWaitCycle
  <2> SUFFICES ASSUME edited = {}, NEW r \in Requests, NEW q \in Requests, Cycle(r, q)
               PROVE  FALSE
    BY DEF NoWaitCycle
  <2>1. ASSUME NEW a \in Requests, NEW b \in Requests, WaitsFor(a, b), WaitsFor(b, a)
        PROVE  req[a].step \in {"writing", "cascading"}
    <3>1. Good(a) /\ Shape(a) /\ req[a] \in Reqs /\ Placed(a) /\ req[b] \in Reqs /\ Placed(b)
      BY <1>1, Facts DEF Good
    <3>2. \A x \in Wanted(b) : req[b].step # "rolling" => x \in Sales \cup Ops
      BY <3>1 DEF Wanted, Placed, Reqs
    <3>3. \A x \in Wanted(b) : x \in Sales \cup Ops
      BY <3>1, <3>2 DEF Wanted, Placed
    <3>4. req[a].step \notin {"idle", "locking"}
      BY <2>1, <3>1, <3>3 DEF WaitsFor, Shape
    <3>5. req[a].step # "rolling"
      <4> SUFFICES ASSUME req[a].step = "rolling" PROVE FALSE
        OBVIOUS
      <4>1. /\ req[a].op \in Ops /\ req[a].verb = "complete"
            /\ op[req[a].op].of \in Sales /\ opDraft[req[a].op].of = op[req[a].op].of
        BY <1>1, Rolling
      <4>2. owner[op[req[a].op].of] = a
        BY <3>1, <4>1 DEF Good, Resolved, Shape, LifecycleVerbs
      <4> QED BY <2>1, <4>1, <4>2 DEF WaitsFor, Wanted
    <3>6. req[a].step \in Steps /\ req[a].step # "answering"
      BY <2>1, <3>1 DEF Reqs, WaitsFor, Wanted
    <3> QED BY <3>4, <3>5, <3>6 DEF Steps
  <2>2. ASSUME NEW a \in Requests, NEW b \in Requests, WaitsFor(a, b), WaitsFor(b, a)
        PROVE  req[a].step = "cascading"
    <3>1. req[a].step \in {"writing", "cascading"} /\ req[b].step \in {"writing", "cascading"}
      BY <2>1, <2>2
    <3>2. \A x \in Wanted(b) : x \in Ops
      BY <1>1, <3>1, Facts DEF Wanted, Placed, Reqs
    <3>3. req[a].step # "writing"
      BY <1>1, <2>2, <3>2, Facts DEF Good, Shape, WaitsFor
    <3> QED BY <3>1, <3>3
  <2>3. req[r].step = "cascading" /\ req[q].step = "cascading" /\ r # q
    BY <2>2 DEF Cycle, WaitsFor
  <2>4. PICK o \in req[r].targets : owner[o] = q
    BY <2>3 DEF Cycle, WaitsFor, Wanted
  <2>5. /\ Good(r) /\ Good(q) /\ o \in Ops /\ req[q].verb \in SalesVerbs
        /\ owner[req[r].sale] = r
    BY <1>1, <2>3, <2>4, Facts DEF Good, Shape, Reqs
  <2>6. OpWritten(q, o)
    BY <2>4, <2>5 DEF Good, Written
  <2>7. op[o].of = req[q].sale /\ owner[req[q].sale] = q
    BY <2>5, <2>6 DEF OpWritten, SalesVerbs, LifecycleVerbs, GenerateVerbs, EditVerbs
  <2>8. op[o].of = req[r].sale
    BY <2>5 DEF Good, Targeted
  <2> QED BY <2>3, <2>5, <2>7, <2>8
<1> QED BY <1>1, Invariance, PTL

(* Committed orders and rows change in a commit only. *)
LEMMA Committing ==
  ASSUME Next, sale' # sale \/ op' # op
  PROVE  \E r \in Requests : Commit(r)
<1>1. ASSUME NEW r \in Requests, NEW verb, NEW s, NEW o,
             \/ Transition(r, verb, s) \/ Generate(r, verb, s)
             \/ Lifecycle(r, verb, o) \/ Edit(r, verb, s, o)
      PROVE  UNCHANGED <<sale, op>>
  BY <1>1 DEF Transition, Generate, Lifecycle, Edit, Start
<1>2. ASSUME NEW r \in Requests, NEW o, Cascade(r, o) \/ WriteEdit(r) \/ RetryRollUp(r)
      PROVE  UNCHANGED <<sale, op>>
  BY <1>2 DEF Cascade, WriteEdit, RetryRollUp
<1>3. ASSUME NEW r \in Requests, LockSalesOrder(r) \/ RunTransition(r) \/ RunGeneration(r)
      PROVE  UNCHANGED <<sale, op>>
  BY <1>3 DEF LockSalesOrder, RunTransition, RunGeneration
<1>4. ASSUME NEW r \in Requests, SetLifecycle(r) \/ RollUp(r) \/ Rollback(r)
      PROVE  UNCHANGED <<sale, op>>
  BY <1>4 DEF SetLifecycle, RollUp, Rollback
<1> QED BY <1>1, <1>2, <1>3, <1>4 DEF Next

(* A fulfilled order is not voided, and no order becomes both at once.      *)
THEOREM FulfilledAreSpared == Spec => VoidSparesFulfilled
<1>1. ASSUME Inv, [Next]_vars, NEW s \in Sales, "voided" \in sale'[s] \ sale[s]
      PROVE  "fulfilled" \notin sale'[s]
  <2>1. PICK r \in Requests : Commit(r)
    BY <1>1, Committing DEF vars
  <2>2. /\ req[r].verb \in SalesVerbs /\ ~Refused(req[r].verb, sale[s])
        /\ sale'[s] = SaleStamp(req[r].verb, sale[s])
    BY <1>1, <2>1, SaleCommitted
  <2> QED BY <1>1, <2>2 DEF SaleStamp, Stamped, Setting, Completing, Refused, SalesVerbs
<1>2. Inv /\ [Next]_vars
        => (\A s \in Sales : "voided" \in sale'[s] \ sale[s] => "fulfilled" \notin sale'[s])
  BY <1>1
<1> QED BY <1>2, Invariance, PTL DEF Spec, VoidSparesFulfilled

(* An unfulfilment leaves no production order of its order complete.        *)
THEOREM ReopensAll == Spec => UnfulfilReopensAll
<1>1. ASSUME Inv, [Next]_vars, NEW s \in Sales \ edited, "fulfilled" \in sale[s] \ sale'[s],
             NEW o \in Ops, op'[o].of = s
      PROVE  ~Complete(op'[o])
  <2>1. PICK r \in Requests : Commit(r)
    BY <1>1, Committing DEF vars
  <2>2. /\ req[r].verb \in SalesVerbs /\ req[r].sale = s /\ owner[s] = r
        /\ ~Refused(req[r].verb, sale[s]) /\ sale'[s] = SaleStamp(req[r].verb, sale[s])
        /\ saleDraft[s] # sale[s]
    BY <1>1, <2>1, SaleCommitted
  <2>3. req[r].verb = "unfulfil"
    BY <1>1, <2>2 DEF SaleStamp, Stamped, Setting, Completing, SalesVerbs
  <2>4. op[o].of = s
    <3>1. CASE owner[o] = r
      <4>1. OpWritten(r, o) /\ op[o] \in OpRows /\ op'[o] = opDraft[o]
        BY <1>1, <2>1, <3>1, Published, Facts DEF Written
      <4> QED BY <1>1, <2>2, <4>1
          DEF OpWritten, SalesVerbs, LifecycleVerbs, GenerateVerbs, EditVerbs
    <3>2. CASE owner[o] # r
      BY <1>1, <2>1, <3>2, Published
    <3> QED BY <3>1, <3>2
  <2>5. ~Complete(opDraft[o]) /\ (owner[o] = r \/ ~Complete(op[o]))
    BY <1>1, <2>1, <2>2, <2>3, <2>4, Published DEF Good, Reopens
  <2> QED BY <1>1, <2>1, <2>5, Published
<1>2. Inv /\ [Next]_vars
        => (\A s \in Sales \ edited : "fulfilled" \in sale[s] \ sale'[s]
              => \A o \in Ops : op'[o].of = s => ~Complete(op'[o]))
  BY <1>1
<1> QED BY <1>2, Invariance, PTL DEF Spec, UnfulfilReopensAll

(* A generation that commits rows found none of its order.                  *)
THEOREM GeneratedOnce == Spec => GenerationFindsNone
<1>1. ASSUME Inv, [Next]_vars, NEW r \in Requests, NEW s \in Sales \ edited,
             req[r].verb \in GenerateVerbs, req[r].sale = s, req'[r] = Idle,
             NEW o \in Ops, op[o].of = Absent, op'[o].of = s
      PROVE  OpsOf(s) = {}
  <2>1. op' # op /\ Next
    BY <1>1 DEF vars
  <2>2. PICK q \in Requests : Commit(q)
    BY <2>1, Committing
  <2>3. q = r
    BY <1>1, <2>2, Published, Facts DEF Idle, GenerateVerbs
  <2>4. owner[o] = r
    BY <1>1, <2>2, <2>3, Published
  <2> QED BY <1>1, <2>4, Facts DEF Good, FindsNone
<1>2. Inv /\ [Next]_vars
        => (\A r \in Requests, s \in Sales \ edited :
              /\ req[r].verb \in GenerateVerbs /\ req[r].sale = s /\ req'[r] = Idle
              /\ \E o \in Ops : op[o].of = Absent /\ op'[o].of = s
              => OpsOf(s) = {})
  BY <1>1
<1> QED BY <1>2, Invariance, PTL DEF Spec, GenerationFindsNone
=============================================================================
