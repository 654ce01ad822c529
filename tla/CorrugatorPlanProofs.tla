------------------------ MODULE CorrugatorPlanProofs ------------------------
(***************************************************************************)
(* Theorems about CorrugatorPlan, for any orders, requests, solves and     *)
(* restarts.                                                               *)
(***************************************************************************)
EXTENDS CorrugatorPlan, TLAPS

-----------------------------------------------------------------------------
(* The inductive invariant.                                                *)

(* The transaction of a request has written, and is still open.            *)
Open(c) == pc[c] \notin {"idle", "read"} /\ ~closed[c]

(* Which request is where.                                                 *)
Course(c) ==
  /\ ~Open(c) => pending[c] = Nothing /\ held[c] = {}
  /\ closed[c] => pc[c] \in {"flipped", "stopping"}
  /\ pc[c] # "idle" => kind[c] # None
  /\ pc[c] \in {"dropping", "invalidating"} => kind[c] \in Editing
  /\ pc[c] \in {"clearing", "flipped"} => kind[c] = "solve" /\ run[c] \in Runs
  /\ pc[c] = "stopping" => kind[c] = "cancel"
  /\ pc[c] = "spreading" => kind[c] \in {"register", "delete", "unregister"}
  /\ kind[c] \in {"add", "update", "remove"} => target[c] \in Orders
  /\ kind[c] = "solve" /\ pc[c] # "read" => run[c] \in Runs

(* Locks exclude each other.                                               *)
Exclusion ==
  \A c, d \in Clients :
    c # d => \A x \in held[c], y \in held[d] : ~Conflict(x, y)

(* What an open transaction has written and holds, and what therefore      *)
(* cannot have changed since.                                              *)
Holds(c) ==
  /\ pending[c].status # None => Plan \in held[c]
  /\ kind[c] \in Editing => pending[c].status \in {None, "draft"}
  /\ kind[c] \in Adjusting => pending[c].status = None
  /\ kind[c] = "solve" => pending[c].status = "solving"
  /\ kind[c] = "cancel" => pending[c].status = "draft"
  /\ kind[c] = "delete" => pending[c].status = "deleted"
  /\ kind[c] = "unregister" =>
       pending[c].status = "solved" /\ status = "registered"
  /\ kind[c] = "register" =>
       /\ pending[c].status = "registered" /\ status = "solved"
       /\ Exclusive \in held[c]
       /\ pc[c] = "answering" =>
            pending[c].allocated = lines /\ lines \subseteq held[c]
  /\ kind[c] = "add" => Reference \in held[c]
  /\ kind[c] = "remove" =>
       /\ target[c] \in held[c]
       /\ \A k \in combos : target[c] \in k.uses => k \in held[c]
       /\ \A d \in Clients \ {c} : \A k \in pending[d].added : target[c] \notin k.uses
  /\ kind[c] = "solve" /\ pc[c] \in {"flipped", "answering"} =>
       \A k \in combos : k.by \in Runs => k \in held[c] \cap pending[c].dropped

RowsFit ==
  /\ FencedOutcomes
  /\ RegisteredWasSolved
  /\ status = "solving" => solveStatus = None
  /\ \A k \in combos : k.uses \subseteq lines

ByHand(c) == \A k \in pending[c].added : k.by = Hand

PlanInv ==
  /\ TypeOK /\ Exclusion /\ RowsFit
  /\ \A c \in Clients : Course(c) /\ (Open(c) => Holds(c)) /\ ByHand(c)

-----------------------------------------------------------------------------
(* What a transaction writes.                                              *)

Written == [status : Statuses \cup {"deleted", None},
            dropped : SUBSET Combinations,
            added : SUBSET Combinations,
            allocated : SUBSET Orders]

(* One request wrote: nobody else's pending writes moved.                  *)
OnlyHis(c) == \A d \in Clients \ {c} : pending'[d] = pending[d]

LEMMA WriteStatus ==
  ASSUME TypeOK, NEW c \in Clients, NEW v \in Statuses \cup {"deleted", None},
         Write(c, "status", v)
  PROVE  /\ pending' \in [Clients -> Written] /\ OnlyHis(c)
         /\ pending'[c].status = v
         /\ pending'[c].dropped = pending[c].dropped
         /\ pending'[c].added = pending[c].added
         /\ pending'[c].allocated = pending[c].allocated
<1>1. pending \in [Clients -> Written] BY DEF TypeOK, Written
<1>2. \A w \in Written : [w EXCEPT !.status = v] \in Written BY DEF Written
<1>3. pending' = [pending EXCEPT ![c] = [pending[c] EXCEPT !.status = v]]
  BY DEF Write
<1>4. pending'[c] = [pending[c] EXCEPT !.status = v] BY <1>1, <1>3
<1>5. pending[c] \in Written BY <1>1
<1>. QED BY <1>1, <1>2, <1>3, <1>4, <1>5 DEF OnlyHis, Written

LEMMA WriteDropped ==
  ASSUME TypeOK, NEW c \in Clients, NEW v \in SUBSET Combinations,
         Write(c, "dropped", v)
  PROVE  /\ pending' \in [Clients -> Written] /\ OnlyHis(c)
         /\ pending'[c].dropped = v
         /\ pending'[c].status = pending[c].status
         /\ pending'[c].added = pending[c].added
         /\ pending'[c].allocated = pending[c].allocated
<1>1. pending \in [Clients -> Written] BY DEF TypeOK, Written
<1>2. \A w \in Written : [w EXCEPT !.dropped = v] \in Written BY DEF Written
<1>3. pending' = [pending EXCEPT ![c] = [pending[c] EXCEPT !.dropped = v]]
  BY DEF Write
<1>4. pending'[c] = [pending[c] EXCEPT !.dropped = v] BY <1>1, <1>3
<1>5. pending[c] \in Written BY <1>1
<1>. QED BY <1>1, <1>2, <1>3, <1>4, <1>5 DEF OnlyHis, Written

LEMMA WriteAdded ==
  ASSUME TypeOK, NEW c \in Clients, NEW v \in SUBSET Combinations,
         Write(c, "added", v)
  PROVE  /\ pending' \in [Clients -> Written] /\ OnlyHis(c)
         /\ pending'[c].added = v
         /\ pending'[c].status = pending[c].status
         /\ pending'[c].dropped = pending[c].dropped
         /\ pending'[c].allocated = pending[c].allocated
<1>1. pending \in [Clients -> Written] BY DEF TypeOK, Written
<1>2. \A w \in Written : [w EXCEPT !.added = v] \in Written BY DEF Written
<1>3. pending' = [pending EXCEPT ![c] = [pending[c] EXCEPT !.added = v]]
  BY DEF Write
<1>4. pending'[c] = [pending[c] EXCEPT !.added = v] BY <1>1, <1>3
<1>5. pending[c] \in Written BY <1>1
<1>. QED BY <1>1, <1>2, <1>3, <1>4, <1>5 DEF OnlyHis, Written

LEMMA WriteAllocated ==
  ASSUME TypeOK, NEW c \in Clients, NEW v \in SUBSET Orders,
         Write(c, "allocated", v)
  PROVE  /\ pending' \in [Clients -> Written] /\ OnlyHis(c)
         /\ pending'[c].allocated = v
         /\ pending'[c].status = pending[c].status
         /\ pending'[c].dropped = pending[c].dropped
         /\ pending'[c].added = pending[c].added
<1>1. pending \in [Clients -> Written] BY DEF TypeOK, Written
<1>2. \A w \in Written : [w EXCEPT !.allocated = v] \in Written BY DEF Written
<1>3. pending' = [pending EXCEPT ![c] = [pending[c] EXCEPT !.allocated = v]]
  BY DEF Write
<1>4. pending'[c] = [pending[c] EXCEPT !.allocated = v] BY <1>1, <1>3
<1>5. pending[c] \in Written BY <1>1
<1>. QED BY <1>1, <1>2, <1>3, <1>4, <1>5 DEF OnlyHis, Written

-----------------------------------------------------------------------------
(* What a request locks.                                                   *)

LEMMA WantsRows ==
  ASSUME TypeOK, NEW c \in Clients, Course(c)
  PROVE  Wants(c) \subseteq Rows
  BY DEF TypeOK, Course, Wants, Rows

(* A request that does not wait locks rows nobody else has.                *)
LEMMA LockExcludes ==
  ASSUME TypeOK, Exclusion, NEW c \in Clients, Course(c), Free(c), Lock(c)
  PROVE  /\ held' \in [Clients -> SUBSET Rows]
         /\ held'[c] = held[c] \cup Wants(c)
         /\ \A d \in Clients \ {c} : held'[d] = held[d]
         /\ Exclusion'
<1>1. held \in [Clients -> SUBSET Rows] BY DEF TypeOK
<1>2. /\ held'[c] = held[c] \cup Wants(c)
      /\ \A d \in Clients \ {c} : held'[d] = held[d]
  BY <1>1 DEF Lock
<1>3. held' \in [Clients -> SUBSET Rows]
  BY <1>1, WantsRows DEF Lock
<1>4. \A d \in Clients \ {c} : \A x \in Wants(c), y \in held[d] : ~Conflict(x, y)
  BY DEF Free, Waits
<1>5. ASSUME NEW d \in Clients, NEW e \in Clients, d # e,
             NEW x \in held'[d], NEW y \in held'[e]
      PROVE  ~Conflict(x, y)
  <2>1. CASE d # c /\ e # c BY <1>2, <1>5, <2>1 DEF Exclusion
  <2>2. CASE d = c
    BY <1>2, <1>4, <1>5, <2>2 DEF Exclusion
  <2>3. CASE e = c
    <3>1. ~Conflict(y, x) BY <1>2, <1>4, <1>5, <2>3 DEF Exclusion
    <3>. QED BY <3>1 DEF Conflict
  <2>. QED BY <2>1, <2>2, <2>3
<1>6. Exclusion' BY <1>5 DEF Exclusion, Conflict
<1>. QED BY <1>2, <1>3, <1>6

(* Two transactions never hold the same row.                               *)
LEMMA Apart ==
  ASSUME Exclusion, NEW c \in Clients, NEW d \in Clients, c # d,
         NEW x \in held[c], x \in held[d]
  PROVE  x = Reference
  BY DEF Exclusion, Conflict

LEMMA Shut ==
  ASSUME Exclusion, NEW c \in Clients, NEW d \in Clients, c # d,
         Reference \in held[c]
  PROVE  Exclusive \notin held[d]
  BY DEF Exclusion, Conflict

LEMMA PlanLock == Plan # Reference
  BY DEF Plan, Reference

LEMMA OrderLock == \A o \in Orders : o # Reference
  BY LocksAssumption

LEMMA CombinationLock == \A k \in Combinations : k # Reference
  BY DEF Combinations, Reference

-----------------------------------------------------------------------------
(* What one request's step leaves alone.                                   *)

(* Everything that is d's own. *)
Untouched(d) ==
  /\ pc'[d] = pc[d] /\ kind'[d] = kind[d] /\ target'[d] = target[d]
  /\ run'[d] = run[d] /\ pending'[d] = pending[d] /\ held'[d] = held[d]
  /\ closed'[d] = closed[d]

LEMMA Ended ==
  ASSUME TypeOK, NEW c \in Clients, End(c)
  PROVE  /\ pc'[c] = "idle" /\ kind'[c] = None /\ target'[c] = None
         /\ pending'[c] = Nothing /\ held'[c] = {} /\ closed'[c] = FALSE
         /\ \A d \in Clients \ {c} : Untouched(d)
  BY DEF End, Goto, TypeOK, Untouched

(* The variables no request owns. *)
SharedType ==
  /\ solver \in [Runs -> {"unused", "working", "reporting", "over"}]
  /\ report \in [Runs -> {None, "ok", "error", "cancelled"}]
  /\ given \in [Runs -> SUBSET Orders]
  /\ active \in Runs \cup {None}
  /\ sweep \in {"idle", "reading", "writing"}
  /\ crashes \in 0..MaxCrashes

RowsType ==
  /\ status \in Statuses \cup {"deleted"}
  /\ token \in Runs \cup {None}
  /\ solveStatus \in {None, "ok", "error", "cancelled"}
  /\ lines \subseteq Orders
  /\ combos \subseteq Combinations
  /\ allocated \subseteq Orders

LEMMA EndedType ==
  ASSUME TypeOK, NEW c \in Clients, End(c), RowsType', SharedType'
  PROVE  TypeOK'
<1>1. pending' \in [Clients -> Written]
  BY DEF TypeOK, End, Nothing, Written
<1>2. closed' \in [Clients -> BOOLEAN] BY DEF TypeOK, End
<1>. QED BY <1>1, <1>2
     DEF TypeOK, End, Goto, Written, RowsType, SharedType

(* A step of c that writes no row keeps the invariant when c's own course  *)
(* is right, its locks exclude the others', and it did not add, behind a   *)
(* removal, a combination that uses the line being removed.                *)
LEMMA Moved ==
  ASSUME PlanInv, TypeOK', NEW c \in Clients, UNCHANGED rowVars,
         \A d \in Clients \ {c} : Untouched(d),
         Course(c)', (Open(c) => Holds(c))', ByHand(c)', Exclusion',
         \A d \in Clients \ {c} : Open(d) /\ kind[d] = "remove" =>
           \A k \in pending'[c].added : target[d] \notin k.uses
  PROVE  PlanInv'
<1>1. RowsFit'
  BY DEF PlanInv, RowsFit, FencedOutcomes, RegisteredWasSolved, rowVars
<1>2. ASSUME NEW d \in Clients \ {c}
      PROVE  Course(d)' /\ ByHand(d)'
  BY <1>2 DEF PlanInv, Untouched, Course, Open, ByHand
<1>3. ASSUME NEW d \in Clients \ {c}, Open(d)'
      PROVE  Holds(d)'
  <2>1. Open(d) /\ Holds(d) /\ Untouched(d)
    BY <1>3 DEF PlanInv, Untouched, Open
  <2>2. ASSUME kind[d] = "remove", NEW e \in Clients \ {d},
               NEW k \in pending'[e].added
        PROVE  target[d] \notin k.uses
    <3>1. CASE e = c BY <2>1, <2>2, <3>1
    <3>2. CASE e # c BY <2>1, <2>2, <3>2 DEF Holds, Untouched
    <3>. QED BY <3>1, <3>2
  <2>. QED BY <2>1, <2>2 DEF Holds, Untouched, rowVars
<1>. QED BY <1>1, <1>2, <1>3 DEF PlanInv

(* The request ends without writing. *)
LEMMA Gone ==
  ASSUME PlanInv, NEW c \in Clients, Refuse(c), SharedType'
  PROVE  PlanInv'
<1>0. RowsType' BY DEF PlanInv, TypeOK, RowsType, Refuse, rowVars
<1>1. TypeOK' BY <1>0, EndedType DEF PlanInv, Refuse
<1>2. /\ pc'[c] = "idle" /\ kind'[c] = None /\ target'[c] = None
      /\ pending'[c] = Nothing /\ held'[c] = {} /\ closed'[c] = FALSE
      /\ \A d \in Clients \ {c} : Untouched(d)
  BY Ended DEF PlanInv, Refuse
<1>3. Course(c)' BY <1>2, PlanAssumption DEF Course, Open, Kinds, Editing
<1>4. ~Open(c)' BY <1>2 DEF Open
<1>5. Exclusion'
  BY <1>2 DEF Exclusion, PlanInv, Untouched, Conflict
<1>6. ByHand(c)' BY <1>2 DEF ByHand, Nothing
<1>7. \A k \in pending'[c].added : FALSE BY <1>2 DEF Nothing
<1>. QED BY <1>1, <1>2, <1>3, <1>4, <1>5, <1>6, <1>7, Moved DEF Refuse

LEMMA Refused ==
  ASSUME PlanInv, NEW c \in Clients, Refuse(c),
         UNCHANGED <<solverVars, sweep, crashes>>
  PROVE  PlanInv'
<1>1. SharedType' BY DEF PlanInv, TypeOK, SharedType, solverVars
<1>. QED BY <1>1, Gone

-----------------------------------------------------------------------------
(* One lemma per step of a request that writes no row.                     *)

LEMMA BeginStep ==
  ASSUME PlanInv, NEW c \in Clients, NEW k \in Kinds, NEW o \in Orders,
         Begin(c, k, o)
  PROVE  PlanInv'
<1>1. TypeOK' BY DEF PlanInv, TypeOK, Begin, Goto, rowVars, solverVars
<1>2. /\ pc'[c] = "read" /\ kind'[c] = k /\ closed'[c] = closed[c]
      /\ target'[c] = IF k \in {"add", "update", "remove"} THEN o ELSE None
      /\ pending' = pending /\ held' = held
      /\ \A d \in Clients \ {c} : Untouched(d)
  BY DEF PlanInv, TypeOK, Begin, Goto, Untouched
<1>3. pending[c] = Nothing /\ held[c] = {} /\ closed[c] = FALSE
  BY DEF PlanInv, Course, Open, Begin, TypeOK
<1>4. Course(c)'
  BY <1>2, <1>3, PlanAssumption DEF Course, Open, Kinds, Editing
<1>5. ~Open(c)' BY <1>2 DEF Open
<1>6. Exclusion' /\ ByHand(c)'
  BY <1>2 DEF Exclusion, PlanInv, ByHand, Conflict
<1>7. \A x \in pending'[c].added : FALSE BY <1>2, <1>3 DEF Nothing
<1>. QED BY <1>1, <1>2, <1>4, <1>5, <1>6, <1>7, Moved DEF Begin

LEMMA WriteLineStep ==
  ASSUME PlanInv, NEW c \in Clients, WriteLine(c)
  PROVE  PlanInv'
<1>1. CASE Refuse(c) BY <1>1, Refused DEF WriteLine
<1>2. CASE ~Refuse(c)
  <2>1. /\ Lock(c) /\ Free(c)
        /\ Goto(c, IF Stale(c) THEN "dropping" ELSE "answering")
        /\ UNCHANGED <<rowVars, requestVars, pending, solverVars, sweep, crashes>>
        /\ pc[c] = "read" /\ kind[c] \in {"add", "update", "remove"}
    BY <1>2 DEF WriteLine
  <2>2. /\ held' \in [Clients -> SUBSET Rows]
        /\ held'[c] = held[c] \cup Wants(c)
        /\ \A d \in Clients \ {c} : held'[d] = held[d]
        /\ Exclusion'
    BY <2>1, LockExcludes DEF PlanInv
  <2>3. TypeOK'
    BY <2>1, <2>2 DEF PlanInv, TypeOK, Goto, rowVars, requestVars, solverVars
  <2>4. /\ pc'[c] \in {"dropping", "answering"}
        /\ \A d \in Clients \ {c} : Untouched(d)
    BY <2>1, <2>2 DEF PlanInv, TypeOK, Goto, requestVars, Untouched
  <2>5. pending[c] = Nothing /\ closed[c] = FALSE
    BY <2>1 DEF PlanInv, Course, Open, TypeOK
  <2>6. Course(c)'
    BY <2>1, <2>4, <2>5 DEF Course, Open, requestVars, PlanInv, Editing
  <2>7. Holds(c)'
    <3>1. pending'[c].status = None /\ kind'[c] = kind[c] /\ target'[c] = target[c]
      BY <2>1, <2>5 DEF requestVars, Nothing
    <3>2. CASE kind[c] = "add"
      <4>1. Reference \in Wants(c) BY <2>1, <3>2 DEF Wants
      <4>. QED BY <2>2, <3>1, <3>2, <4>1 DEF Holds, Editing, Adjusting
    <3>3. CASE kind[c] = "update"
      BY <3>1, <3>3 DEF Holds, Editing, Adjusting
    <3>4. CASE kind[c] = "remove"
      <4>1. Wants(c) = {target[c]} \cup {k \in combos : target[c] \in k.uses}
        BY <2>1, <3>4 DEF Wants
      <4>2. \A d \in Clients \ {c} : \A k \in pending[d].added : target[c] \notin k.uses
        BY <2>1, <3>4 DEF Free, Waits
      <4>. QED BY <2>1, <2>2, <3>1, <3>4, <4>1, <4>2
           DEF Holds, Editing, Adjusting, rowVars
    <3>. QED BY <2>1, <3>2, <3>3, <3>4
  <2>8. ByHand(c)' BY <2>1 DEF ByHand, PlanInv
  <2>9. \A x \in pending'[c].added : FALSE BY <2>1, <2>5 DEF Nothing
  <2>. QED BY <2>1, <2>2, <2>3, <2>4, <2>6, <2>7, <2>8, <2>9, Moved
<1>. QED BY <1>1, <1>2

LEMMA ConfigureStep ==
  ASSUME PlanInv, NEW c \in Clients, Configure(c)
  PROVE  PlanInv'
<1>1. TypeOK'
  BY DEF PlanInv, TypeOK, Configure, Goto, rowVars, requestVars, solverVars
<1>2. /\ pc'[c] \in {"dropping", "invalidating"}
      /\ kind'[c] = "configure" /\ closed' = closed
      /\ pending' = pending /\ held' = held
      /\ \A d \in Clients \ {c} : Untouched(d)
  BY DEF PlanInv, TypeOK, Configure, Goto, requestVars, Untouched
<1>3. pending[c] = Nothing /\ held[c] = {} /\ closed[c] = FALSE
  BY DEF PlanInv, Course, Open, Configure, TypeOK
<1>4. Course(c)' BY <1>2, <1>3, PlanAssumption DEF Course, Open, Kinds, Editing
<1>5. Holds(c)' BY <1>2, <1>3 DEF Holds, Nothing, Editing, Adjusting
<1>6. Exclusion' /\ ByHand(c)'
  BY <1>2 DEF Exclusion, PlanInv, ByHand, Conflict
<1>7. \A x \in pending'[c].added : FALSE BY <1>2, <1>3 DEF Nothing
<1>. QED BY <1>1, <1>2, <1>4, <1>5, <1>6, <1>7, Moved DEF Configure

LEMMA DropCombinationsStep ==
  ASSUME PlanInv, NEW c \in Clients, DropCombinations(c)
  PROVE  PlanInv'
<1>1. /\ held' \in [Clients -> SUBSET Rows]
      /\ held'[c] = held[c] \cup Wants(c)
      /\ \A d \in Clients \ {c} : held'[d] = held[d]
      /\ Exclusion'
  BY LockExcludes DEF PlanInv, DropCombinations
<1>2. combos \in SUBSET Combinations BY DEF PlanInv, TypeOK
<1>3. /\ pending' \in [Clients -> Written] /\ OnlyHis(c)
      /\ pending'[c].status = pending[c].status
      /\ pending'[c].added = pending[c].added
  BY <1>2, WriteDropped DEF PlanInv, DropCombinations
<1>4. TypeOK'
  BY <1>1, <1>3 DEF PlanInv, TypeOK, DropCombinations, Goto, Written, rowVars,
                    requestVars, solverVars
<1>5. /\ pc'[c] = "invalidating" /\ kind'[c] = kind[c] /\ closed'[c] = closed[c]
      /\ target'[c] = target[c]
      /\ \A d \in Clients \ {c} : Untouched(d)
  BY <1>1, <1>3 DEF PlanInv, TypeOK, DropCombinations, Goto, requestVars,
                    Untouched, OnlyHis
<1>6. Open(c) /\ Holds(c) /\ Course(c) /\ kind[c] \in Editing /\ ~closed[c]
  BY DEF PlanInv, Course, DropCombinations, Open
<1>7. Course(c)' BY <1>5, <1>6 DEF Course, Open, Editing
<1>8. Holds(c)'
  BY <1>1, <1>3, <1>5, <1>6
  DEF Holds, Editing, Adjusting, DropCombinations, rowVars, OnlyHis
<1>9. ByHand(c)' BY <1>3 DEF ByHand, PlanInv
<1>10. \A d \in Clients \ {c} : Open(d) /\ kind[d] = "remove" =>
         \A k \in pending'[c].added : target[d] \notin k.uses
  BY <1>3 DEF PlanInv, Holds
<1>. QED BY <1>1, <1>4, <1>5, <1>7, <1>8, <1>9, <1>10, Moved DEF DropCombinations

LEMMA InvalidateStep ==
  ASSUME PlanInv, NEW c \in Clients, Invalidate(c)
  PROVE  PlanInv'
<1>1. /\ held' \in [Clients -> SUBSET Rows]
      /\ held'[c] = held[c] \cup Wants(c)
      /\ \A d \in Clients \ {c} : held'[d] = held[d]
      /\ Exclusion'
  BY LockExcludes DEF PlanInv, Invalidate
<1>2. Open(c) /\ Holds(c) /\ Course(c) /\ kind[c] \in Editing /\ ~closed[c]
  BY DEF PlanInv, Course, Invalidate, Open
<1>3. /\ pending' \in [Clients -> Written] /\ OnlyHis(c)
      /\ pending'[c].status \in {pending[c].status, "draft"}
      /\ pending'[c].added = pending[c].added
  <2>1. CASE Write(c, "status", "draft")
    BY <2>1, WriteStatus DEF PlanInv, Statuses
  <2>2. CASE UNCHANGED pending
    BY <2>2 DEF PlanInv, TypeOK, Written, OnlyHis
  <2>. QED BY <2>1, <2>2 DEF Invalidate
<1>4. TypeOK'
  BY <1>1, <1>3 DEF PlanInv, TypeOK, Invalidate, Goto, Written, rowVars,
                    requestVars, solverVars
<1>5. /\ pc'[c] = "answering" /\ kind'[c] = kind[c] /\ closed'[c] = closed[c]
      /\ target'[c] = target[c]
      /\ \A d \in Clients \ {c} : Untouched(d)
  BY <1>1, <1>3 DEF PlanInv, TypeOK, Invalidate, Goto, requestVars,
                    Untouched, OnlyHis
<1>6. Plan \in held'[c] BY <1>1 DEF Invalidate, Wants
<1>7. Course(c)' BY <1>2, <1>5 DEF Course, Open, Editing
<1>8. Holds(c)'
  BY <1>1, <1>2, <1>3, <1>5, <1>6
  DEF Holds, Editing, Adjusting, Invalidate, rowVars, OnlyHis
<1>9. ByHand(c)' BY <1>3 DEF ByHand, PlanInv
<1>10. \A d \in Clients \ {c} : Open(d) /\ kind[d] = "remove" =>
         \A k \in pending'[c].added : target[d] \notin k.uses
  BY <1>3 DEF PlanInv, Holds
<1>. QED BY <1>1, <1>4, <1>5, <1>7, <1>8, <1>9, <1>10, Moved DEF Invalidate

LEMMA InsertStep ==
  ASSUME PlanInv, NEW c \in Clients, Insert(c)
  PROVE  PlanInv'
<1>1. /\ held' \in [Clients -> SUBSET Rows]
      /\ held'[c] = held[c] \cup Wants(c)
      /\ \A d \in Clients \ {c} : held'[d] = held[d]
      /\ Exclusion'
  BY LockExcludes DEF PlanInv, Insert
<1>2. PICK U \in (SUBSET lines) \ {{}} :
        /\ \A d \in Clients \ {c} :
             kind[d] = "remove" /\ held[d] # {} => target[d] \notin U
        /\ Write(c, "added", {[by |-> Hand, uses |-> U]})
  BY DEF Insert
<1>3. {[by |-> Hand, uses |-> U]} \in SUBSET Combinations
  BY DEF Combinations, PlanInv, TypeOK
<1>4. /\ pending' \in [Clients -> Written] /\ OnlyHis(c)
      /\ pending'[c].status = pending[c].status
      /\ pending'[c].added = {[by |-> Hand, uses |-> U]}
  BY <1>2, <1>3, WriteAdded DEF PlanInv
<1>5. TypeOK'
  BY <1>1, <1>4 DEF PlanInv, TypeOK, Insert, Goto, Written, rowVars,
                    requestVars, solverVars
<1>6. /\ pc'[c] = "answering" /\ kind'[c] = "insert" /\ closed'[c] = closed[c]
      /\ \A d \in Clients \ {c} : Untouched(d)
  BY <1>1, <1>4 DEF PlanInv, TypeOK, Insert, Goto, requestVars,
                    Untouched, OnlyHis
<1>7. pending[c] = Nothing /\ closed[c] = FALSE
  BY DEF PlanInv, Course, Open, Insert, TypeOK
<1>8. Course(c)' BY <1>6, <1>7, PlanAssumption DEF Course, Open, Kinds, Adjusting
<1>9. Holds(c)' BY <1>4, <1>6, <1>7 DEF Holds, Nothing, Editing, Adjusting
<1>10. ByHand(c)' BY <1>4 DEF ByHand
<1>11. \A d \in Clients \ {c} : Open(d) /\ kind[d] = "remove" =>
         \A k \in pending'[c].added : target[d] \notin k.uses
  BY <1>2, <1>4 DEF PlanInv, Holds
<1>. QED BY <1>1, <1>5, <1>6, <1>8, <1>9, <1>10, <1>11, Moved DEF Insert

LEMMA AdjustStep ==
  ASSUME PlanInv, NEW c \in Clients, Adjust(c)
  PROVE  PlanInv'
<1>1. PICK k \in combos :
        /\ \A d \in Clients \ {c} : k \notin held[d]
        /\ \E left \in {{}} \cup {{[by |-> Hand, uses |-> U]} :
                                    U \in (SUBSET k.uses) \ {{}}} :
             pending' = [pending EXCEPT ![c].dropped = {k}, ![c].added = left]
        /\ held' = [held EXCEPT ![c] = {k}]
  BY DEF Adjust
<1>2. PICK left \in {{}} \cup {{[by |-> Hand, uses |-> U]} :
                                 U \in (SUBSET k.uses) \ {{}}} :
        pending' = [pending EXCEPT ![c].dropped = {k}, ![c].added = left]
  BY <1>1
<1>3. k \in Combinations /\ k.uses \subseteq Orders
  BY DEF PlanInv, TypeOK, Combinations
<1>4. \A x \in left : x \in Combinations /\ x.by = Hand /\ x.uses \subseteq k.uses
  BY <1>3 DEF Combinations
<1>5. pending[c] = Nothing /\ closed[c] = FALSE /\ held[c] = {}
  BY DEF PlanInv, Course, Open, Adjust, TypeOK
<1>6. /\ pending' \in [Clients -> Written] /\ OnlyHis(c)
      /\ pending'[c].status = None /\ pending'[c].added = left
  <2>1. pending \in [Clients -> Written] BY DEF PlanInv, TypeOK, Written
  <2>2. pending' = [pending EXCEPT ![c] =
                      [pending[c] EXCEPT !.dropped = {k}, !.added = left]]
    BY <1>2, <2>1 DEF Written
  <2>3. \A w \in Written :
          LET u == [w EXCEPT !.dropped = {k}, !.added = left]
          IN  u \in Written /\ u.status = w.status /\ u.added = left
    BY <1>3, <1>4 DEF Written
  <2>4. pending[c] \in Written /\ pending[c].status = None
    BY <1>5, <2>1 DEF Nothing
  <2>. QED BY <2>1, <2>2, <2>3, <2>4 DEF OnlyHis
<1>7. held' \in [Clients -> SUBSET Rows]
  BY <1>1, <1>3 DEF PlanInv, TypeOK, Rows
<1>8. TypeOK'
  BY <1>6, <1>7 DEF PlanInv, TypeOK, Adjust, Goto, Written, rowVars,
                    requestVars, solverVars
<1>9. /\ pc'[c] = "answering" /\ kind'[c] = "adjust" /\ closed'[c] = closed[c]
      /\ held'[c] = {k}
      /\ \A d \in Clients \ {c} : Untouched(d)
  <2>1. Goto(c, "answering") /\ UNCHANGED requestVars /\ kind[c] = "adjust"
    BY DEF Adjust
  <2>2. held'[c] = {k} /\ \A d \in Clients \ {c} : held'[d] = held[d]
    BY <1>1 DEF PlanInv, TypeOK
  <2>3. pc'[c] = "answering" /\ \A d \in Clients \ {c} : pc'[d] = pc[d]
    BY <2>1 DEF PlanInv, TypeOK, Goto
  <2>. QED BY <1>6, <2>1, <2>2, <2>3 DEF requestVars, Untouched, OnlyHis
<1>10. Exclusion'
  <2>1. k # Reference /\ k # Exclusive BY <1>3 DEF Combinations, Reference, Exclusive
  <2>2. \A d \in Clients \ {c} : \A y \in held[d] :
          ~Conflict(k, y) /\ ~Conflict(y, k)
    BY <1>1, <2>1 DEF Conflict
  <2>. QED BY <1>9, <2>2 DEF Exclusion, PlanInv, Untouched, Conflict
<1>11. Course(c)' BY <1>5, <1>9, PlanAssumption DEF Course, Open, Kinds, Adjusting
<1>12. Holds(c)' BY <1>6, <1>9 DEF Holds, Editing, Adjusting
<1>13. ByHand(c)' BY <1>4, <1>6 DEF ByHand
<1>14. \A d \in Clients \ {c} : Open(d) /\ kind[d] = "remove" =>
         \A x \in pending'[c].added : target[d] \notin x.uses
  BY <1>1, <1>4, <1>6 DEF PlanInv, Holds
<1>. QED BY <1>8, <1>9, <1>10, <1>11, <1>12, <1>13, <1>14, Moved DEF Adjust

LEMMA FlipStep ==
  ASSUME PlanInv, NEW c \in Clients, Flip(c)
  PROVE  PlanInv'
<1>1. CASE Refuse(c) BY <1>1, Refused DEF Flip
<1>2. CASE ~Refuse(c)
  <2>1. PICK r \in Runs : run' = [run EXCEPT ![c] = r]
    BY <1>2 DEF Flip
  <2>2. /\ Wants(c) # {} /\ Free(c) /\ Lock(c) /\ Write(c, "status", "solving")
        /\ Goto(c, "clearing") /\ pc[c] = "read" /\ kind[c] = "solve"
        /\ UNCHANGED <<rowVars, kind, seen, target, closed, solverVars, sweep, crashes>>
    BY <1>2 DEF Flip
  <2>3. Wants(c) = {Plan} BY <2>2 DEF Wants
  <2>4. /\ held' \in [Clients -> SUBSET Rows]
        /\ held'[c] = held[c] \cup {Plan}
        /\ \A d \in Clients \ {c} : held'[d] = held[d]
        /\ Exclusion'
    BY <2>2, <2>3, LockExcludes DEF PlanInv
  <2>5. /\ pending' \in [Clients -> Written] /\ OnlyHis(c)
        /\ pending'[c].status = "solving"
        /\ pending'[c].added = pending[c].added
    BY <2>2, WriteStatus DEF PlanInv, Statuses
  <2>6. TypeOK'
    BY <2>1, <2>2, <2>4, <2>5 DEF PlanInv, TypeOK, Goto, Written, rowVars, solverVars
  <2>7. /\ pc'[c] = "clearing" /\ kind'[c] = "solve" /\ closed'[c] = closed[c]
        /\ run'[c] \in Runs
        /\ \A d \in Clients \ {c} : Untouched(d)
    BY <2>1, <2>2, <2>4, <2>5 DEF PlanInv, TypeOK, Goto, Untouched, OnlyHis
  <2>8. pending[c] = Nothing /\ closed[c] = FALSE
    BY <2>2 DEF PlanInv, Course, Open, TypeOK
  <2>9. Course(c)' BY <2>7, <2>8, PlanAssumption DEF Course, Open, Kinds
  <2>10. Holds(c)' BY <2>4, <2>5, <2>7 DEF Holds, Editing, Adjusting
  <2>11. ByHand(c)' BY <2>5 DEF ByHand, PlanInv
  <2>12. \A x \in pending'[c].added : FALSE BY <2>5, <2>8 DEF Nothing
  <2>. QED BY <2>2, <2>4, <2>6, <2>7, <2>9, <2>10, <2>11, <2>12, Moved
<1>. QED BY <1>1, <1>2

LEMMA ClearStep ==
  ASSUME PlanInv, NEW c \in Clients, Clear(c)
  PROVE  PlanInv'
<1>1. /\ held' \in [Clients -> SUBSET Rows]
      /\ held'[c] = held[c] \cup Wants(c)
      /\ \A d \in Clients \ {c} : held'[d] = held[d]
      /\ Exclusion'
  BY LockExcludes DEF PlanInv, Clear
<1>2. combos \in SUBSET Combinations BY DEF PlanInv, TypeOK
<1>3. /\ pending' \in [Clients -> Written] /\ OnlyHis(c)
      /\ pending'[c].dropped = combos
      /\ pending'[c].status = pending[c].status
      /\ pending'[c].added = pending[c].added
  BY <1>2, WriteDropped DEF PlanInv, Clear
<1>4. TypeOK'
  BY <1>1, <1>3 DEF PlanInv, TypeOK, Clear, Goto, Written, rowVars, requestVars
<1>5. /\ pc'[c] = "flipped" /\ kind'[c] = kind[c] /\ closed'[c] = closed[c]
      /\ target'[c] = target[c] /\ run'[c] = run[c]
      /\ \A d \in Clients \ {c} : Untouched(d)
  BY <1>1, <1>3 DEF PlanInv, TypeOK, Clear, Goto, requestVars, Untouched, OnlyHis
<1>6. /\ Open(c) /\ Holds(c) /\ Course(c) /\ ~closed[c]
      /\ kind[c] = "solve" /\ run[c] \in Runs
  BY DEF PlanInv, Course, Clear, Open
<1>7. Course(c)' BY <1>5, <1>6, PlanAssumption DEF Course, Open, Kinds
<1>8. combos \subseteq held'[c] BY <1>1 DEF Clear, Wants
<1>9. Holds(c)'
  BY <1>1, <1>3, <1>5, <1>6, <1>8 DEF Holds, Editing, Adjusting, Clear, rowVars
<1>10. ByHand(c)' BY <1>3 DEF ByHand, PlanInv
<1>11. \A d \in Clients \ {c} : Open(d) /\ kind[d] = "remove" =>
         \A k \in pending'[c].added : target[d] \notin k.uses
  BY <1>3 DEF PlanInv, Holds
<1>. QED BY <1>1, <1>4, <1>5, <1>7, <1>9, <1>10, <1>11, Moved DEF Clear

LEMMA StartEngineStep ==
  ASSUME PlanInv, NEW c \in Clients, StartEngine(c)
  PROVE  PlanInv'
<1>1. Course(c) /\ kind[c] = "solve" /\ run[c] \in Runs /\ pc[c] = "flipped"
  BY DEF PlanInv, Course, StartEngine
<1>2. SharedType'
  BY <1>1 DEF PlanInv, TypeOK, SharedType, StartEngine
<1>3. CASE closed[c]
  <2>1. Refuse(c) BY <1>3 DEF StartEngine, Refuse
  <2>. QED BY <1>2, <2>1, Gone
<1>4. CASE ~closed[c]
  <2>1. /\ Goto(c, "answering") /\ UNCHANGED <<requestVars, pending, held, rowVars>>
    BY <1>4 DEF StartEngine
  <2>2. TypeOK'
    BY <1>2, <2>1 DEF PlanInv, TypeOK, SharedType, Goto, requestVars, rowVars
  <2>3. /\ pc'[c] = "answering" /\ kind' = kind /\ closed' = closed
        /\ run' = run /\ target' = target
        /\ \A d \in Clients \ {c} : Untouched(d)
    BY <2>1 DEF PlanInv, TypeOK, Goto, requestVars, Untouched
  <2>4. Open(c) /\ Holds(c) BY <1>1, <1>4 DEF PlanInv, Open
  <2>5. Course(c)' BY <1>1, <1>4, <2>1, <2>3 DEF Course, Open
  <2>6. Holds(c)' BY <1>1, <2>1, <2>3, <2>4 DEF Holds, rowVars, Editing, Adjusting
  <2>7. Exclusion' /\ ByHand(c)'
    BY <2>1 DEF Exclusion, PlanInv, ByHand, Conflict
  <2>8. \A d \in Clients \ {c} : Open(d) /\ kind[d] = "remove" =>
          \A k \in pending'[c].added : target[d] \notin k.uses
    BY <2>1 DEF PlanInv, Holds
  <2>. QED BY <2>1, <2>2, <2>3, <2>5, <2>6, <2>7, <2>8, Moved
<1>. QED BY <1>3, <1>4

LEMMA StopStep ==
  ASSUME PlanInv, NEW c \in Clients, Stop(c)
  PROVE  PlanInv'
<1>1. Course(c) /\ kind[c] = "cancel" /\ pc[c] = "stopping"
  BY DEF PlanInv, Course, Stop
<1>2. SharedType'
  <2>1. CASE active # None /\ solver[active] = "working"
    BY <2>1 DEF PlanInv, TypeOK, SharedType, Stop
  <2>2. CASE ~(active # None /\ solver[active] = "working")
    BY <2>2 DEF PlanInv, TypeOK, SharedType, Stop
  <2>. QED BY <2>1, <2>2
<1>3. CASE closed[c]
  <2>1. Refuse(c) BY <1>3 DEF Stop, Refuse
  <2>. QED BY <1>2, <2>1, Gone
<1>4. CASE ~closed[c]
  <2>1. /\ Goto(c, "answering") /\ UNCHANGED <<requestVars, pending, held, rowVars>>
    BY <1>4 DEF Stop
  <2>2. TypeOK'
    BY <1>2, <2>1 DEF PlanInv, TypeOK, SharedType, Goto, requestVars, rowVars
  <2>3. /\ pc'[c] = "answering" /\ kind' = kind /\ closed' = closed
        /\ run' = run /\ target' = target
        /\ \A d \in Clients \ {c} : Untouched(d)
    BY <2>1 DEF PlanInv, TypeOK, Goto, requestVars, Untouched
  <2>4. Open(c) /\ Holds(c) BY <1>1, <1>4 DEF PlanInv, Open
  <2>5. Course(c)' BY <1>1, <1>4, <2>1, <2>3 DEF Course, Open
  <2>6. Holds(c)' BY <1>1, <2>1, <2>3, <2>4 DEF Holds, rowVars, Editing, Adjusting
  <2>7. Exclusion' /\ ByHand(c)'
    BY <2>1 DEF Exclusion, PlanInv, ByHand, Conflict
  <2>8. \A d \in Clients \ {c} : Open(d) /\ kind[d] = "remove" =>
          \A k \in pending'[c].added : target[d] \notin k.uses
    BY <2>1 DEF PlanInv, Holds
  <2>. QED BY <2>1, <2>2, <2>3, <2>5, <2>6, <2>7, <2>8, Moved
<1>. QED BY <1>3, <1>4

(* The conditional writes: cancel, register and delete, unregister. *)
LEMMA Claim ==
  ASSUME PlanInv, NEW c \in Clients, pc[c] = "read", Free(c), Lock(c),
         Plan \in Wants(c),
         NEW v \in Statuses \cup {"deleted"}, Write(c, "status", v),
         NEW step \in {"stopping", "spreading"}, Goto(c, step),
         UNCHANGED <<rowVars, requestVars, solverVars, sweep, crashes>>,
         \/ kind[c] = "cancel" /\ v = "draft" /\ step = "stopping"
         \/ kind[c] = "delete" /\ v = "deleted" /\ step = "spreading"
         \/ /\ kind[c] = "register" /\ v = "registered" /\ status = "solved"
            /\ Exclusive \in Wants(c) /\ step = "spreading"
         \/ /\ kind[c] = "unregister" /\ v = "solved" /\ status = "registered"
            /\ step = "spreading"
  PROVE  PlanInv'
<1>1. /\ held' \in [Clients -> SUBSET Rows]
      /\ held'[c] = held[c] \cup Wants(c)
      /\ \A d \in Clients \ {c} : held'[d] = held[d]
      /\ Exclusion'
  BY LockExcludes DEF PlanInv
<1>2. /\ pending' \in [Clients -> Written] /\ OnlyHis(c)
      /\ pending'[c].status = v
      /\ pending'[c].added = pending[c].added
  BY WriteStatus DEF PlanInv
<1>3. TypeOK'
  BY <1>1, <1>2 DEF PlanInv, TypeOK, Goto, Written, rowVars, requestVars, solverVars
<1>4. /\ pc'[c] = step /\ kind'[c] = kind[c] /\ closed'[c] = closed[c]
      /\ \A d \in Clients \ {c} : Untouched(d)
  BY <1>1, <1>2 DEF PlanInv, TypeOK, Goto, requestVars, Untouched, OnlyHis
<1>5. pending[c] = Nothing /\ closed[c] = FALSE
  BY DEF PlanInv, Course, Open, TypeOK
<1>6. Course(c)' BY <1>4, <1>5, PlanAssumption DEF Course, Open, Kinds
<1>7. Holds(c)' BY <1>1, <1>2, <1>4 DEF Holds, Editing, Adjusting, rowVars
<1>8. ByHand(c)' BY <1>2 DEF ByHand, PlanInv
<1>9. \A x \in pending'[c].added : FALSE BY <1>2, <1>5 DEF Nothing
<1>. QED BY <1>1, <1>3, <1>4, <1>6, <1>7, <1>8, <1>9, Moved

LEMMA CancelStep ==
  ASSUME PlanInv, NEW c \in Clients, Cancel(c)
  PROVE  PlanInv'
<1>1. CASE Wants(c) = {} BY <1>1, Refused DEF Cancel
<1>2. CASE Wants(c) # {}
  <2>1. Plan \in Wants(c) BY <1>2 DEF Cancel, Wants
  <2>2. "draft" \in Statuses BY DEF Statuses
  <2>. QED BY <1>2, <2>1, <2>2, Claim DEF Cancel
<1>. QED BY <1>1, <1>2

LEMMA TakeStep ==
  ASSUME PlanInv, NEW c \in Clients, Take(c)
  PROVE  PlanInv'
<1>1. CASE Refuse(c) BY <1>1, Refused DEF Take
<1>2. CASE ~Refuse(c)
  <2>1. Plan \in Wants(c) /\ Exclusive \in Wants(c) BY DEF Take, Wants
  <2>2. CASE kind[c] = "register"
    <3>1. "registered" \in Statuses BY DEF Statuses
    <3>. QED BY <1>2, <2>1, <2>2, <3>1, Claim DEF Take
  <2>3. CASE kind[c] = "delete"
    BY <1>2, <2>1, <2>3, Claim DEF Take
  <2>. QED BY <2>2, <2>3 DEF Take
<1>. QED BY <1>1, <1>2

LEMMA ReleaseStep ==
  ASSUME PlanInv, NEW c \in Clients, Release(c)
  PROVE  PlanInv'
<1>1. CASE Wants(c) = {} BY <1>1, Refused DEF Release
<1>2. CASE Wants(c) # {}
  <2>1. Plan \in Wants(c) /\ status = "registered" BY <1>2 DEF Release, Wants
  <2>2. "solved" \in Statuses BY DEF Statuses
  <2>. QED BY <1>2, <2>1, <2>2, Claim DEF Release
<1>. QED BY <1>1, <1>2

LEMMA SpreadStep ==
  ASSUME PlanInv, NEW c \in Clients, Spread(c)
  PROVE  PlanInv'
<1>1. /\ held' \in [Clients -> SUBSET Rows]
      /\ held'[c] = held[c] \cup Wants(c)
      /\ \A d \in Clients \ {c} : held'[d] = held[d]
      /\ Exclusion'
  BY LockExcludes DEF PlanInv, Spread
<1>2. /\ pending' \in [Clients -> Written] /\ OnlyHis(c)
      /\ pending'[c].allocated = IF kind[c] = "register" THEN lines ELSE {}
      /\ pending'[c].status = pending[c].status
      /\ pending'[c].added = pending[c].added
  <2>1. (IF kind[c] = "register" THEN lines ELSE {}) \in SUBSET Orders
    BY DEF PlanInv, TypeOK
  <2>. QED BY <2>1, WriteAllocated DEF PlanInv, Spread
<1>3. TypeOK'
  BY <1>1, <1>2 DEF PlanInv, TypeOK, Spread, Goto, Written, rowVars,
                    requestVars, solverVars
<1>4. /\ pc'[c] = "answering" /\ kind'[c] = kind[c] /\ closed'[c] = closed[c]
      /\ \A d \in Clients \ {c} : Untouched(d)
  BY <1>1, <1>2 DEF PlanInv, TypeOK, Spread, Goto, requestVars, Untouched, OnlyHis
<1>5. /\ Open(c) /\ Holds(c) /\ Course(c) /\ ~closed[c]
      /\ kind[c] \in {"register", "delete", "unregister"}
  BY DEF PlanInv, Course, Spread, Open
<1>6. Course(c)' BY <1>4, <1>5, PlanAssumption DEF Course, Open
<1>7. lines \subseteq held'[c] BY <1>1 DEF Spread, Wants
<1>8. Holds(c)'
  BY <1>1, <1>2, <1>4, <1>5, <1>7 DEF Holds, Editing, Adjusting, Spread, rowVars
<1>9. ByHand(c)' BY <1>2 DEF ByHand, PlanInv
<1>10. \A d \in Clients \ {c} : Open(d) /\ kind[d] = "remove" =>
         \A k \in pending'[c].added : target[d] \notin k.uses
  BY <1>2 DEF PlanInv, Holds
<1>. QED BY <1>1, <1>3, <1>4, <1>6, <1>8, <1>9, <1>10, Moved DEF Spread

LEMMA CloseStep ==
  ASSUME PlanInv, NEW c \in Clients, Close(c)
  PROVE  PlanInv'
<1>1. CASE pc[c] \in {"flipped", "stopping"}
  <2>1. pending' \in [Clients -> Written]
    BY <1>1 DEF Close, PlanInv, TypeOK, Nothing, Written
  <2>2. closed' \in [Clients -> BOOLEAN] BY <1>1 DEF Close, PlanInv, TypeOK
  <2>3. TypeOK'
    BY <1>1, <2>1, <2>2 DEF PlanInv, TypeOK, Close, Written, rowVars, solverVars
  <2>4. /\ pc' = pc /\ kind' = kind /\ closed'[c] /\ target' = target /\ run' = run
        /\ pending'[c] = Nothing /\ held'[c] = {}
        /\ \A d \in Clients \ {c} : Untouched(d)
    BY <1>1 DEF PlanInv, TypeOK, Close, Untouched
  <2>5. Course(c)' BY <1>1, <2>4 DEF PlanInv, Course, Open
  <2>6. ~Open(c)' BY <2>4 DEF Open
  <2>7. Exclusion' BY <2>4 DEF Exclusion, PlanInv, Untouched, Conflict
  <2>8. \A x \in pending'[c].added : FALSE BY <2>4 DEF Nothing
  <2>. QED BY <2>3, <2>4, <2>5, <2>6, <2>7, <2>8, Moved DEF Close, ByHand
<1>2. CASE pc[c] \notin {"flipped", "stopping"}
  BY <1>2, Refused DEF Close, Refuse
<1>. QED BY <1>1, <1>2

-----------------------------------------------------------------------------
(* The steps that write rows, and those of nobody in particular.           *)

(* What the rows may do while d's transaction is open. *)
LEMMA Holding ==
  ASSUME PlanInv, NEW d \in Clients, Untouched(d), Open(d),
         pending[d].status # None => status' = status,
         kind[d] = "register" /\ pc[d] = "answering" => lines' = lines,
         kind[d] = "remove" =>
           /\ \A k \in combos' : target[d] \in k.uses => k \in held[d]
           /\ \A e \in Clients \ {d} : \A k \in pending'[e].added : target[d] \notin k.uses,
         kind[d] = "solve" /\ pc[d] \in {"flipped", "answering"} =>
           \A k \in combos' : k.by \in Runs => k \in held[d] \cap pending[d].dropped
  PROVE  Holds(d)'
<1>1. Holds(d) BY DEF PlanInv
<1>2. kind[d] \in {"register", "unregister"} => status' = status
  BY <1>1, PlanAssumption DEF Holds, Statuses
<1>. QED BY <1>1, <1>2 DEF Holds, Untouched

LEMMA RespondTypes ==
  ASSUME PlanInv, NEW c \in Clients, Respond(c)
  PROVE  TypeOK'
<1>. DEFINE after == CASE kind[c] = "add" -> lines \cup {target[c]}
                       [] kind[c] = "remove" -> lines \ {target[c]}
                       [] kind[c] = "delete" -> {}
                       [] OTHER -> lines
            kept == IF kind[c] = "delete" THEN {}
                    ELSE (combos \ pending[c].dropped) \cup pending[c].added
<1>1. pending[c] \in Written BY DEF PlanInv, TypeOK, Written
<1>2. after \subseteq Orders BY DEF PlanInv, TypeOK, Course
<1>3. kept \subseteq Combinations BY <1>1 DEF PlanInv, TypeOK, Written
<1>4. combos' = {[k EXCEPT !.uses = @ \cap after] : k \in kept}
      /\ lines' = after
  BY DEF Respond
<1>5. combos' \subseteq Combinations
  <2>1. \A k \in Combinations : [k EXCEPT !.uses = @ \cap after] \in Combinations
    BY <1>2 DEF Combinations
  <2>. HIDE DEF after, kept
  <2>. QED BY <1>3, <1>4, <2>1
<1>6. allocated' \subseteq Orders
  <2>1. allocated' = IF kind[c] \in {"register", "unregister"}
                       THEN pending[c].allocated ELSE allocated \cap after
    BY DEF Respond
  <2>. HIDE DEF after
  <2>. QED BY <1>1, <2>1 DEF PlanInv, TypeOK, Written
<1>7. status' \in Statuses \cup {"deleted"} BY <1>1 DEF PlanInv, TypeOK, Respond, Written
<1>8. token' \in Runs \cup {None} BY DEF PlanInv, TypeOK, Respond
<1>9. solveStatus' \in {None, "ok", "error", "cancelled"}
  BY DEF PlanInv, TypeOK, Respond
<1>10. RowsType'
  <2>. HIDE DEF after
  <2>. QED BY <1>2, <1>4, <1>5, <1>6, <1>7, <1>8, <1>9 DEF RowsType
<1>11. SharedType' BY DEF PlanInv, TypeOK, SharedType, Respond, solverVars
<1>12. End(c) BY DEF Respond
<1>. QED BY <1>10, <1>11, <1>12, EndedType DEF PlanInv

LEMMA RespondStep ==
  ASSUME PlanInv, NEW c \in Clients, Respond(c)
  PROVE  PlanInv'
<1>. DEFINE w == pending[c]
            after == CASE kind[c] = "add" -> lines \cup {target[c]}
                       [] kind[c] = "remove" -> lines \ {target[c]}
                       [] kind[c] = "delete" -> {}
                       [] OTHER -> lines
            kept == IF kind[c] = "delete" THEN {} ELSE (combos \ w.dropped) \cup w.added
<1>1. /\ Open(c) /\ Holds(c) /\ Course(c) /\ ByHand(c) /\ kind[c] \in Kinds
      /\ w \in Written
  <2>1. Open(c) BY DEF Open, Respond, PlanInv, Course
  <2>2. kind[c] \in Kinds BY <2>1 DEF PlanInv, TypeOK, Course, Open
  <2>. QED BY <2>1, <2>2 DEF PlanInv, TypeOK, Written
<1>2. /\ pc'[c] = "idle" /\ kind'[c] = None /\ target'[c] = None
      /\ pending'[c] = Nothing /\ held'[c] = {} /\ closed'[c] = FALSE
      /\ \A d \in Clients \ {c} : Untouched(d)
  BY Ended DEF PlanInv, Respond
<1>3. /\ status' = IF w.status = None THEN status ELSE w.status
      /\ lines' = after
      /\ combos' = {[k EXCEPT !.uses = @ \cap after] : k \in kept}
      /\ token' = IF kind[c] = "solve" THEN run[c] ELSE token
      /\ solveStatus' = CASE kind[c] = "solve" -> None
                          [] kind[c] = "cancel" -> "cancelled"
                          [] OTHER -> solveStatus
  BY DEF Respond
<1>4. kept \subseteq Combinations
  BY <1>1 DEF PlanInv, TypeOK, Written
<1>5. \A x \in combos' : \E k \in kept :
        x.by = k.by /\ x.uses = k.uses \cap after
          /\ x = [by |-> k.by, uses |-> k.uses \cap after]
  <2>1. \A k \in Combinations :
          [k EXCEPT !.uses = @ \cap after] = [by |-> k.by, uses |-> k.uses \cap after]
    BY DEF Combinations
  <2>. HIDE DEF after, kept
  <2>. QED BY <1>3, <1>4, <2>1
<1>6. RowsFit'
  <2>1. FencedOutcomes'
    <3>1. ASSUME NEW x \in combos', x.by \in Runs PROVE x.by = token'
      <4>1. PICK k \in kept : x.by = k.by BY <1>5
      <4>2. k \in combos /\ k \notin w.dropped
        BY <1>1, <3>1, <4>1, PlanAssumption DEF ByHand
      <4>3. kind[c] # "solve" BY <1>1, <3>1, <4>1, <4>2 DEF Holds, Respond
      <4>. QED BY <1>3, <3>1, <4>1, <4>2, <4>3 DEF PlanInv, RowsFit, FencedOutcomes
    <3>. QED BY <3>1 DEF FencedOutcomes
  <2>2. \/ /\ kind[c] \in Editing \cup Adjusting
           /\ status' \in {status, "draft"}
           /\ solveStatus' = solveStatus
        \/ /\ kind[c] = "solve" /\ status' = "solving" /\ solveStatus' = None
        \/ /\ kind[c] \in {"cancel", "delete"}
           /\ status' \in {"draft", "deleted"}
        \/ /\ kind[c] \in {"register", "unregister"}
           /\ solveStatus' = solveStatus
           /\ status \in {"solved", "registered"}
           /\ status' \in {"solved", "registered"}
    <3>1. CASE kind[c] \in Editing \cup Adjusting
      <4>1. kind[c] \notin {"solve", "cancel"} BY <3>1 DEF Editing, Adjusting
      <4>. QED BY <1>1, <1>3, <3>1, <4>1 DEF Holds
    <3>2. CASE kind[c] \in {"solve", "cancel", "delete"}
      BY <1>1, <1>3, <3>2, PlanAssumption DEF Holds, Statuses
    <3>3. CASE kind[c] \in {"register", "unregister"}
      BY <1>1, <1>3, <3>3 DEF Holds
    <3>. QED BY <1>1, <3>1, <3>2, <3>3 DEF Kinds
  <2>3. RegisteredWasSolved' /\ (status = "solving" => solveStatus = None)'
    BY <2>2 DEF RegisteredWasSolved, PlanInv, RowsFit
  <2>4. (\A k \in combos : k.uses \subseteq lines)'
    <3>. HIDE DEF after, kept
    <3>. QED BY <1>3, <1>5
  <2>. QED BY <2>1, <2>2, <2>3, <2>4 DEF RowsFit
<1>7. ASSUME NEW d \in Clients \ {c}, Open(d)'
      PROVE  Holds(d)'
  <2>1. Open(d) /\ Holds(d) /\ Untouched(d)
    BY <1>2, <1>7 DEF PlanInv, Untouched, Open
  <2>2. ~(Plan \in held[c] /\ Plan \in held[d])
    BY Apart, PlanLock DEF PlanInv
  <2>3. pending[d].status # None => status' = status
    BY <1>1, <1>3, <2>1, <2>2 DEF Holds
  <2>4. ASSUME kind[d] = "register", pc[d] = "answering"
        PROVE  lines' = lines
    <3>1. Exclusive \in held[d] /\ lines \subseteq held[d] /\ Plan \in held[d]
      BY <2>1, <2>4, PlanAssumption DEF Holds, Statuses
    <3>2. kind[c] # "add"
      BY <1>1, <3>1, Shut DEF Holds, PlanInv
    <3>3. kind[c] = "remove" => target[c] \notin lines
      <4>1. kind[c] = "remove" => target[c] \in held[c] /\ target[c] \in Orders
        BY <1>1 DEF Holds, Course
      <4>. QED BY <3>1, <4>1, Apart, OrderLock DEF PlanInv
    <3>4. kind[c] # "delete"
      BY <1>1, <2>2, <3>1, PlanAssumption DEF Holds
    <3>. QED BY <1>3, <3>2, <3>3, <3>4
  <2>5. ASSUME kind[d] = "remove"
        PROVE  /\ \A k \in combos' : target[d] \in k.uses => k \in held[d]
               /\ \A e \in Clients \ {d} : \A k \in pending'[e].added : target[d] \notin k.uses
    <3>1. ASSUME NEW x \in combos', target[d] \in x.uses PROVE x \in held[d]
      <4>1. PICK k \in kept : x = [by |-> k.by, uses |-> k.uses \cap after]
                              /\ x.uses = k.uses \cap after
        BY <1>5
      <4>2. target[d] \in k.uses BY <3>1, <4>1
      <4>3. k \in combos /\ k \in held[d] /\ k \in Combinations
        BY <1>4, <2>1, <2>5, <4>2 DEF Holds
      <4>4. k.uses \subseteq after
        <5>1. k.uses \subseteq lines BY <4>3 DEF PlanInv, RowsFit
        <5>2. CASE kind[c] = "remove"
          <6>1. target[c] \in k.uses => k \in held[c] BY <1>1, <4>3, <5>2 DEF Holds
          <6>2. target[c] \notin k.uses
            BY <4>3, <6>1, Apart, CombinationLock DEF PlanInv
          <6>. QED BY <5>1, <5>2, <6>2
        <5>3. CASE kind[c] = "delete" BY <4>1, <5>3
        <5>4. CASE kind[c] \notin {"remove", "delete"} BY <5>1, <5>4
        <5>. QED BY <5>2, <5>3, <5>4
      <4>5. k = [by |-> k.by, uses |-> k.uses] BY <4>3 DEF Combinations
      <4>6. k.uses \cap after = k.uses BY <4>4
      <4>. QED BY <4>1, <4>3, <4>5, <4>6
    <3>2. ASSUME NEW e \in Clients \ {d}, NEW k \in pending'[e].added
          PROVE  target[d] \notin k.uses
      <4>1. CASE e = c BY <1>2, <3>2, <4>1 DEF Nothing
      <4>2. CASE e # c BY <1>2, <2>1, <2>5, <3>2, <4>2 DEF Holds, Untouched
      <4>. QED BY <4>1, <4>2
    <3>. QED BY <3>1, <3>2
  <2>6. ASSUME kind[d] = "solve", pc[d] \in {"flipped", "answering"}
        PROVE  \A x \in combos' : x.by \in Runs => x \in held[d] \cap pending[d].dropped
    <3>1. ASSUME NEW x \in combos', x.by \in Runs
          PROVE  x \in held[d] \cap pending[d].dropped
      <4>1. PICK k \in kept : x = [by |-> k.by, uses |-> k.uses \cap after]
                              /\ x.by = k.by
        BY <1>5
      <4>2. k \in combos /\ k \in Combinations
        BY <1>1, <1>4, <3>1, <4>1, PlanAssumption DEF ByHand
      <4>3. k \in held[d] \cap pending[d].dropped
        BY <2>1, <2>6, <3>1, <4>1, <4>2 DEF Holds
      <4>4. k.uses \subseteq after
        <5>1. k.uses \subseteq lines BY <4>2 DEF PlanInv, RowsFit
        <5>2. CASE kind[c] = "remove"
          <6>1. target[c] \in k.uses => k \in held[c] BY <1>1, <4>2, <5>2 DEF Holds
          <6>2. target[c] \notin k.uses
            BY <4>2, <4>3, <6>1, Apart, CombinationLock DEF PlanInv
          <6>. QED BY <5>1, <5>2, <6>2
        <5>3. CASE kind[c] = "delete" BY <4>1, <5>3
        <5>4. CASE kind[c] \notin {"remove", "delete"} BY <5>1, <5>4
        <5>. QED BY <5>2, <5>3, <5>4
      <4>5. k = [by |-> k.by, uses |-> k.uses] BY <4>2 DEF Combinations
      <4>6. k.uses \cap after = k.uses BY <4>4
      <4>. QED BY <4>1, <4>3, <4>5, <4>6
    <3>. QED BY <3>1
  <2>. QED BY <2>1, <2>3, <2>4, <2>5, <2>6, Holding
<1>8. ASSUME NEW d \in Clients PROVE Course(d)' /\ ByHand(d)'
  <2>1. CASE d = c
    BY <1>2, <2>1, PlanAssumption DEF Course, Open, Kinds, Editing, ByHand, Nothing
  <2>2. CASE d # c
    BY <1>2, <2>2 DEF PlanInv, Untouched, Course, Open, ByHand
  <2>. QED BY <2>1, <2>2
<1>9. Exclusion' BY <1>2 DEF Exclusion, PlanInv, Untouched, Conflict
<1>10. ~Open(c)' BY <1>2 DEF Open
<1>. QED BY <1>6, <1>7, <1>8, <1>9, <1>10, RespondTypes DEF PlanInv

LEMMA OverTypes ==
  ASSUME TypeOK, NEW r \in Runs, Over(r)
  PROVE  SharedType'
  BY DEF TypeOK, SharedType, Over

LEMMA CompleteStep ==
  ASSUME PlanInv, NEW r \in Runs, Complete(r)
  PROVE  PlanInv'
<1>1. SharedType' /\ UNCHANGED clientVars
  BY OverTypes DEF Complete, Over, PlanInv
<1>2. ASSUME NEW d \in Clients PROVE Untouched(d)
  BY <1>1 DEF Untouched, clientVars
<1>3. Exclusion' /\ \A d \in Clients : (Course(d) /\ ByHand(d))'
  BY <1>1 DEF clientVars, PlanInv, Exclusion, Conflict, Course, Open, ByHand
<1>4. ASSUME RowsType' PROVE TypeOK'
  BY <1>1, <1>4 DEF PlanInv, TypeOK, RowsType, SharedType, clientVars
<1>5. CASE UNCHANGED rowVars
  <2>1. RowsType' BY <1>5 DEF PlanInv, TypeOK, RowsType, rowVars
  <2>2. RowsFit'
    BY <1>5 DEF PlanInv, RowsFit, FencedOutcomes, RegisteredWasSolved, rowVars
  <2>3. ASSUME NEW d \in Clients, Open(d)' PROVE Holds(d)'
    BY <1>1, <1>5, <2>3 DEF PlanInv, Holds, Open, clientVars, rowVars
  <2>. QED BY <1>3, <1>4, <2>1, <2>2, <2>3 DEF PlanInv
<1>6. CASE /\ Awaited(r) /\ report[r] # "ok"
           /\ \A c \in Clients : Plan \notin held[c]
           /\ status' = "failed" /\ solveStatus' = report[r]
           /\ UNCHANGED <<token, lines, combos, allocated>>
  <2>1. RowsType' BY <1>6 DEF PlanInv, TypeOK, RowsType, Statuses
  <2>2. RowsFit'
    BY <1>6 DEF PlanInv, RowsFit, FencedOutcomes, RegisteredWasSolved
  <2>3. ASSUME NEW d \in Clients, Open(d)' PROVE Holds(d)'
    <3>1. Open(d) /\ Holds(d) BY <1>1, <2>3 DEF PlanInv, Open, clientVars
    <3>2. pending[d].status = None BY <1>6, <3>1 DEF Holds
    <3>. QED BY <1>1, <1>2, <1>6, <3>1, <3>2, Holding DEF Holds, clientVars
  <2>. QED BY <1>3, <1>4, <2>1, <2>2, <2>3 DEF PlanInv
<1>7. ASSUME Awaited(r), \A c \in Clients : Plan \notin held[c],
             NEW U \in SUBSET given[r],
             \A c \in Clients : kind[c] = "remove" /\ held[c] # {} => target[c] \notin U,
             U \subseteq lines, status' = "solved", solveStatus' = "ok",
             combos' = combos \cup (IF U = {} THEN {} ELSE {[by |-> r, uses |-> U]}),
             UNCHANGED <<token, lines, allocated>>
      PROVE  PlanInv'
  <2>1. U \subseteq Orders BY DEF PlanInv, TypeOK
  <2>2. [by |-> r, uses |-> U] \in Combinations BY <2>1 DEF Combinations
  <2>3. RowsType' BY <1>7, <2>2 DEF PlanInv, TypeOK, RowsType, Statuses
  <2>4. RowsFit'
    BY <1>7 DEF PlanInv, RowsFit, FencedOutcomes, RegisteredWasSolved, Awaited
  <2>5. ASSUME NEW d \in Clients, Open(d)' PROVE Holds(d)'
    <3>1. Open(d) /\ Holds(d) BY <1>1, <2>5 DEF PlanInv, Open, clientVars
    <3>2. pending[d].status = None BY <1>7, <3>1 DEF Holds
    <3>3. kind[d] # "solve" BY <3>1, <3>2, PlanAssumption DEF Holds, Statuses
    <3>4. kind[d] = "remove" => \A k \in combos' : target[d] \in k.uses => k \in held[d]
      <4>1. kind[d] = "remove" => target[d] \notin U BY <1>7, <3>1 DEF Holds
      <4>. QED BY <1>7, <3>1, <4>1 DEF Holds
    <3>. QED BY <1>1, <1>2, <1>7, <3>1, <3>2, <3>3, <3>4, Holding
         DEF Holds, clientVars
  <2>. QED BY <1>3, <1>4, <2>3, <2>4, <2>5 DEF PlanInv
<1>. QED BY <1>5, <1>6, <1>7 DEF Complete

LEMMA SweepWriteStep ==
  ASSUME PlanInv, SweepWrite
  PROVE  PlanInv'
<1>1. UNCHANGED clientVars /\ TypeOK'
  BY DEF SweepWrite, PlanInv, TypeOK, Statuses, clientVars, solverVars
<1>2. ASSUME NEW d \in Clients PROVE Untouched(d)
  BY <1>1 DEF Untouched, clientVars
<1>3. Exclusion' /\ \A d \in Clients : (Course(d) /\ ByHand(d))'
  BY <1>1 DEF clientVars, PlanInv, Exclusion, Conflict, Course, Open, ByHand
<1>4. RowsFit'
  BY DEF SweepWrite, PlanInv, RowsFit, FencedOutcomes, RegisteredWasSolved
<1>5. ASSUME NEW d \in Clients, Open(d)' PROVE Holds(d)'
  <2>1. Open(d) /\ Holds(d) BY <1>1, <1>5 DEF PlanInv, Open, clientVars
  <2>2. pending[d].status = None BY <2>1 DEF Holds, SweepWrite
  <2>. QED BY <1>1, <1>2, <2>1, <2>2, Holding DEF Holds, clientVars, SweepWrite
<1>. QED BY <1>1, <1>3, <1>4, <1>5 DEF PlanInv

(* A worker settles, or the sweep reads: no row, no request is touched. *)
LEMMA Aside ==
  ASSUME PlanInv, UNCHANGED <<rowVars, clientVars>>, SharedType'
  PROVE  PlanInv'
<1>1. TypeOK' BY DEF PlanInv, TypeOK, SharedType, rowVars, clientVars
<1>2. RowsFit' /\ Exclusion'
  BY DEF PlanInv, RowsFit, FencedOutcomes, RegisteredWasSolved, Exclusion,
         Conflict, rowVars, clientVars
<1>3. ASSUME NEW d \in Clients
      PROVE  (Course(d) /\ (Open(d) => Holds(d)) /\ ByHand(d))'
  BY DEF PlanInv, Course, Open, Holds, ByHand, rowVars, clientVars
<1>. QED BY <1>1, <1>2, <1>3 DEF PlanInv

LEMMA SettleStep ==
  ASSUME PlanInv, NEW r \in Runs, Settle(r)
  PROVE  PlanInv'
<1>1. PICK o \in {"ok", "error"} : report' = [report EXCEPT ![r] = o]
  BY DEF Settle
<1>2. SharedType' BY <1>1 DEF Settle, PlanInv, TypeOK, SharedType
<1>. QED BY <1>2, Aside DEF Settle

LEMMA SweepReadStep ==
  ASSUME PlanInv, SweepRead
  PROVE  PlanInv'
<1>1. SharedType' BY DEF SweepRead, PlanInv, TypeOK, SharedType, solverVars
<1>. QED BY <1>1, Aside DEF SweepRead

LEMMA CrashStep ==
  ASSUME PlanInv, Crash
  PROVE  PlanInv'
<1>1. pending' \in [Clients -> Written] BY DEF Crash, Nothing, Written
<1>2. closed' \in [Clients -> BOOLEAN] BY DEF Crash
<1>3. crashes' \in 0 .. MaxCrashes
  BY PlanAssumption DEF Crash, PlanInv, TypeOK
<1>4. TypeOK'
  BY <1>1, <1>2, <1>3 DEF Crash, PlanInv, TypeOK, Written, rowVars
<1>5. ASSUME NEW d \in Clients
      PROVE  (Course(d) /\ ~Open(d) /\ ByHand(d))' /\ held'[d] = {}
  BY <1>5, PlanAssumption DEF Crash, Course, Open, ByHand, Nothing, Kinds, Editing
<1>6. RowsFit'
  BY DEF Crash, PlanInv, RowsFit, FencedOutcomes, RegisteredWasSolved, rowVars
<1>7. Exclusion' BY <1>5 DEF Exclusion
<1>. QED BY <1>4, <1>5, <1>6, <1>7 DEF PlanInv

-----------------------------------------------------------------------------
(* The invariant holds.                                                    *)

LEMMA InitPlanInv == Init => PlanInv
<1>. SUFFICES ASSUME Init PROVE PlanInv OBVIOUS
<1>1. pending \in [Clients -> Written] BY DEF Init, Nothing, Written
<1>2. closed \in [Clients -> BOOLEAN] BY DEF Init
<1>3. crashes \in 0 .. MaxCrashes BY PlanAssumption DEF Init
<1>4. TypeOK BY <1>1, <1>2, <1>3 DEF Init, TypeOK, Written, Statuses
<1>5. RowsFit /\ Exclusion
  BY DEF Init, RowsFit, FencedOutcomes, RegisteredWasSolved, Exclusion
<1>6. ASSUME NEW d \in Clients PROVE Course(d) /\ ~Open(d) /\ ByHand(d)
  BY <1>6, PlanAssumption DEF Init, Course, Open, ByHand, Nothing, Kinds, Editing
<1>. QED BY <1>4, <1>5, <1>6 DEF PlanInv

LEMMA RequestSteps ==
  ASSUME PlanInv, NEW c \in Clients, Step(c) \/ Deny(c) \/ Close(c)
  PROVE  PlanInv'
<1>1. CASE NothingToAdjust(c) BY <1>1, Refused DEF NothingToAdjust
<1>2. CASE Deadlock(c) BY <1>2, Refused DEF Deadlock
<1>3. CASE Deny(c) BY <1>3, Refused DEF Deny
<1>. QED
  BY <1>1, <1>2, <1>3, WriteLineStep, ConfigureStep, DropCombinationsStep,
     InvalidateStep, InsertStep, AdjustStep, FlipStep, ClearStep,
     StartEngineStep, CancelStep, StopStep, TakeStep, ReleaseStep, SpreadStep,
     RespondStep, CloseStep
  DEF Step

LEMMA NextPlanInv == PlanInv /\ [Next]_vars => PlanInv'
<1>. SUFFICES ASSUME PlanInv, [Next]_vars PROVE PlanInv' OBVIOUS
<1>1. CASE UNCHANGED vars
  <2>1. SharedType' BY <1>1 DEF PlanInv, TypeOK, SharedType, vars, solverVars
  <2>. QED BY <1>1, <2>1, Aside DEF vars
<1>. QED
  BY <1>1, BeginStep, RequestSteps, SettleStep, CompleteStep, CrashStep,
     SweepReadStep, SweepWriteStep
  DEF Next

THEOREM PlanInvariance == Spec => []PlanInv
  BY InitPlanInv, NextPlanInv, PTL DEF Spec

(* Every variable keeps its type: the plan's rows, the requests' reads,    *)
(* writes and locks, the workers and the sweep of plan.service.ts.         *)
THEOREM TypeInvariance == Spec => []TypeOK
<1>1. PlanInv => TypeOK BY DEF PlanInv
<1>. QED BY <1>1, PlanInvariance, PTL

(* A combination nobody made by hand is one of the run the plan last       *)
(* started, however many solves, cancels and restarts are mixed: the token *)
(* completeSolve compares fences late outcomes (plan.service.ts:1634-1646).*)
THEOREM OutcomesAreFenced == Spec => []FencedOutcomes
<1>1. PlanInv => FencedOutcomes BY DEF PlanInv, RowsFit
<1>. QED BY <1>1, PlanInvariance, PTL

(* No plan is solved or registered but by a run that reported success for  *)
(* it (plan.service.ts:2187-2216, 2357-2373).                              *)
THEOREM SolvedOnlyBySuccess == Spec => []RegisteredWasSolved
<1>1. PlanInv => RegisteredWasSolved BY DEF PlanInv, RowsFit
<1>. QED BY <1>1, PlanInvariance, PTL

-----------------------------------------------------------------------------
(* What a step may never do.                                               *)

(* Rows are written by an answered request, a run's report, or the sweep.  *)
LEMMA Writers ==
  ASSUME [Next]_vars
  PROVE  \/ UNCHANGED rowVars
         \/ \E c \in Clients : Respond(c)
         \/ \E r \in Runs : Complete(r)
         \/ SweepWrite
<1>1. ASSUME NEW c \in Clients, Step(c) \/ Deny(c) \/ Close(c), ~Respond(c)
      PROVE  UNCHANGED rowVars
  <2>1. CASE WriteLine(c) BY <2>1 DEF WriteLine, Refuse
  <2>2. CASE Flip(c) BY <2>2 DEF Flip, Refuse, rowVars
  <2>3. CASE Cancel(c) BY <2>3 DEF Cancel, Refuse
  <2>4. CASE Take(c) BY <2>4 DEF Take, Refuse
  <2>5. CASE Release(c) BY <2>5 DEF Release, Refuse
  <2>6. CASE Configure(c) \/ DropCombinations(c) \/ Invalidate(c) \/ Insert(c)
             \/ Adjust(c) \/ Clear(c) \/ StartEngine(c) \/ Stop(c) \/ Spread(c)
    BY <2>6 DEF Configure, DropCombinations, Invalidate, Insert, Adjust, Clear,
                StartEngine, Stop, Spread
  <2>7. CASE NothingToAdjust(c) \/ Deadlock(c) \/ Deny(c) \/ Close(c)
    BY <2>7 DEF NothingToAdjust, Deadlock, Deny, Close, Refuse
  <2>. QED BY <1>1, <2>1, <2>2, <2>3, <2>4, <2>5, <2>6, <2>7 DEF Step
<1>. QED BY <1>1 DEF Next, vars, Begin, Settle, Crash, SweepRead

(* The worker a cancel raced with cannot make the plan solved after it     *)
(* (plan.service.ts:1694-1711).                                            *)
THEOREM CancelsAreFinal == Spec => CancelIsFinal
<1>1. PlanInv /\ [Next]_vars => (solveStatus = "cancelled" => solveStatus' # "ok")
  <2>. SUFFICES ASSUME PlanInv, [Next]_vars, solveStatus = "cancelled"
                PROVE  solveStatus' # "ok"
    OBVIOUS
  <2>1. status # "solving" BY PlanAssumption DEF PlanInv, RowsFit
  <2>2. ASSUME NEW c \in Clients, Respond(c) PROVE solveStatus' # "ok"
    BY <2>2, PlanAssumption DEF Respond
  <2>3. ASSUME NEW r \in Runs, Complete(r) PROVE solveStatus' # "ok"
    BY <2>1, <2>3 DEF Complete, Awaited, rowVars
  <2>4. CASE SweepWrite BY <2>4 DEF SweepWrite
  <2>5. CASE UNCHANGED rowVars BY <2>5 DEF rowVars
  <2>. QED BY <2>2, <2>3, <2>4, <2>5, Writers
<1>2. PlanInv /\ [Next]_vars => [solveStatus = "cancelled" => solveStatus' # "ok"]_vars
  BY <1>1
<1>. QED BY <1>2, PlanInvariance, PTL DEF Spec, CancelIsFinal

(* When a registration commits, every line committed by then holds its     *)
(* allocation (plan.service.ts:2187-2352).                                 *)
THEOREM RegistrationCoversEveryLine == Spec => RegisterCoversEveryLine
<1>1. PlanInv /\ [Next]_vars =>
        (status # "registered" /\ status' = "registered" => allocated' = lines')
  <2>. SUFFICES ASSUME PlanInv, [Next]_vars,
                       status # "registered", status' = "registered"
                PROVE  allocated' = lines'
    OBVIOUS
  <2>1. ~SweepWrite /\ ~UNCHANGED rowVars BY DEF SweepWrite, rowVars
  <2>2. ASSUME NEW r \in Runs PROVE ~Complete(r) BY DEF Complete, rowVars
  <2>3. PICK c \in Clients : Respond(c) BY <2>1, <2>2, Writers
  <2>4. Open(c) /\ Holds(c) /\ kind[c] \in Kinds
    BY <2>3 DEF PlanInv, Respond, Open, Course, TypeOK
  <2>5. pending[c].status = "registered" BY <2>3 DEF Respond
  <2>6. kind[c] = "register"
    BY <2>4, <2>5, PlanAssumption DEF Holds, Kinds, Statuses
  <2>7. allocated' = pending[c].allocated /\ lines' = lines
    BY <2>3, <2>6 DEF Respond
  <2>. QED BY <2>3, <2>4, <2>6, <2>7 DEF Holds, Respond
<1>2. PlanInv /\ [Next]_vars =>
        [status # "registered" /\ status' = "registered" => allocated' = lines']_vars
  BY <1>1
<1>. QED BY <1>2, PlanInvariance, PTL DEF Spec, RegisterCoversEveryLine
-----------------------------------------------------------------------------
(* The abstract plan: what makes a commit one indivisible request.         *)

(* The rows, to a request that finds them committed.                       *)
Firm ==
  /\ allocated \subseteq lines
  /\ status = "deleted" => lines = {} /\ combos = {}
  /\ token # None => solver[token] # "unused"

(* The run a request starts is its own: no other's, and never the plan's.  *)
Own(c) ==
  /\ pc[c] \in {"clearing", "flipped"} => solver[run[c]] = "unused"
  /\ kind[c] = "solve" /\ pc[c] = "answering" => solver[run[c]] # "unused"
  /\ run[c] # None => token # run[c] /\ \A d \in Clients \ {c} : run[d] # run[c]

ByOneHand == {{[by |-> Hand, uses |-> U]} : U \in SUBSET Orders}

(* An open transaction could write what it writes at this instant.         *)
Serial(c) ==
  /\ status = "deleted" => kind[c] = "configure" /\ pending[c].status = None
  /\ pending[c].dropped \subseteq held[c]
  /\ pc[c] = "dropping" => Stale(c)
  /\ kind[c] \in Editing =>
       /\ pending[c].added = {}
       /\ pc[c] = "invalidating" /\ ~Stale(c) => pending[c].dropped = {}
       /\ pc[c] = "answering" /\ pending[c].status = None /\ status # "deleted" =>
            pending[c].dropped = {}
  /\ kind[c] \in {"update", "remove"} => target[c] \in held[c] \cap lines
  /\ kind[c] = "insert" =>
       /\ Reference \in held[c]
       /\ pending[c].dropped = {} /\ pending[c].added \in ByOneHand
  /\ kind[c] = "adjust" =>
       \E k \in combos \cap held[c] :
         pending[c].dropped = {k} /\ pending[c].added \in {{}} \cup ByOneHand
  /\ kind[c] \in {"solve", "cancel", "delete", "register", "unregister"} =>
       pending[c].added = {}
  /\ kind[c] \in {"cancel", "register", "unregister"} => pending[c].dropped = {}
  /\ kind[c] = "solve" => status \in {"draft", "solved", "failed"}
  /\ kind[c] = "cancel" => status = "solving"
  /\ kind[c] = "unregister" /\ pc[c] = "answering" => pending[c].allocated = {}
  /\ kind[c] = "delete" =>
       /\ {Plan, Exclusive} \subseteq held[c]
       /\ pc[c] = "answering" => lines \cup combos \subseteq held[c]

LifeInv ==
  /\ Firm
  /\ \A c \in Clients : Own(c) /\ (Open(c) => Serial(c))

(* What is d's own, and what it read. *)
Aloof(d) == Untouched(d) /\ seen'[d] = seen[d]

(* No worker that was started is unused again; none is started for d.      *)
Ahead(d) ==
  pc[d] \in {"clearing", "flipped"} => solver'[run[d]] = solver[run[d]]
OnwardEngines == \A r \in Runs : solver[r] # "unused" => solver'[r] # "unused"

(* A step of c that writes no row.                                         *)
LEMMA Steady ==
  ASSUME PlanInv, LifeInv, NEW c \in Clients, UNCHANGED rowVars,
         \A d \in Clients \ {c} : Aloof(d) /\ Ahead(d),
         OnwardEngines, Own(c)', (Open(c) => Serial(c))'
  PROVE  LifeInv'
<1>1. Firm'
  BY DEF LifeInv, Firm, rowVars, OnwardEngines, PlanInv, TypeOK
<1>2. ASSUME NEW d \in Clients \ {c}
      PROVE  Own(d)'
  <2>1. Aloof(d) /\ Ahead(d) /\ Own(d) /\ Course(d) BY DEF LifeInv, PlanInv
  <2>2. pc[d] \in {"clearing", "flipped"} => solver'[run[d]] = "unused"
    BY <2>1 DEF Ahead, Own
  <2>3. kind[d] = "solve" /\ pc[d] = "answering" => solver'[run[d]] # "unused"
    BY <2>1 DEF OnwardEngines, Own, Course
  <2>4. run[d] # None => \A e \in Clients \ {d} : run'[e] # run[d]
    <3>1. ASSUME run[d] # None, NEW e \in Clients \ {d} PROVE run'[e] # run[d]
      <4>1. CASE e = c BY <2>1, <3>1, <4>1 DEF Own, Aloof, Untouched
      <4>2. CASE e # c BY <2>1, <3>1, <4>2 DEF Own, Aloof, Untouched
      <4>. QED BY <4>1, <4>2
    <3>. QED BY <3>1
  <2>. QED BY <2>1, <2>2, <2>3, <2>4 DEF Own, Aloof, Untouched, rowVars
<1>3. ASSUME NEW d \in Clients \ {c}, Open(d)'
      PROVE  Serial(d)'
  <2>1. Aloof(d) /\ Open(d) /\ Serial(d)
    BY <1>3 DEF LifeInv, Aloof, Untouched, Open
  <2>. QED BY <2>1 DEF Serial, Aloof, Untouched, Stale, rowVars
<1>. QED BY <1>1, <1>2, <1>3 DEF LifeInv

(* ... and starts and stops no worker.                                     *)
LEMMA Quiet ==
  ASSUME PlanInv, LifeInv, NEW c \in Clients, UNCHANGED rowVars,
         \A d \in Clients \ {c} : Aloof(d),
         solver' = solver, Own(c)', (Open(c) => Serial(c))'
  PROVE  LifeInv'
  BY Steady DEF Ahead, OnwardEngines

(* A request before its first write. *)
LEMMA Fresh ==
  ASSUME PlanInv, NEW c \in Clients, pc[c] = "read"
  PROVE  /\ pending[c] = Nothing /\ held[c] = {} /\ closed[c] = FALSE
         /\ pending[c].status = None /\ pending[c].dropped = {}
         /\ pending[c].added = {}
  BY DEF PlanInv, Course, Open, TypeOK, Nothing

LEMMA EndedAlone ==
  ASSUME TypeOK, NEW c \in Clients, End(c)
  PROVE  /\ pc'[c] = "idle" /\ kind'[c] = None /\ run'[c] = None
         /\ closed'[c] = FALSE
         /\ \A d \in Clients \ {c} : Aloof(d)
<1>1. \A d \in Clients \ {c} : Untouched(d) BY Ended
<1>. QED BY <1>1 DEF End, Goto, TypeOK, Aloof

LEMMA LifeRefused ==
  ASSUME PlanInv, LifeInv, NEW c \in Clients, Refuse(c), solver' = solver
  PROVE  LifeInv'
<1>1. /\ pc'[c] = "idle" /\ kind'[c] = None /\ run'[c] = None
      /\ \A d \in Clients \ {c} : Aloof(d)
  BY EndedAlone DEF PlanInv, Refuse
<1>2. Own(c)' BY <1>1, PlanAssumption DEF Own, Kinds
<1>3. ~Open(c)' BY <1>1 DEF Open
<1>. QED BY <1>1, <1>2, <1>3, Quiet DEF Refuse

(* A step of c that only moves on, within one request.                     *)
Keeps(c) ==
  /\ kind'[c] = kind[c] /\ target'[c] = target[c] /\ seen'[c] = seen[c]
  /\ run' = run /\ closed' = closed

LEMMA Alone ==
  ASSUME PlanInv, NEW c \in Clients, NEW step, Goto(c, step),
         UNCHANGED requestVars, OnlyHis(c),
         \A d \in Clients \ {c} : held'[d] = held[d]
  PROVE  /\ pc'[c] = step /\ Keeps(c)
         /\ \A d \in Clients \ {c} : Aloof(d)
  BY DEF PlanInv, TypeOK, Goto, requestVars, OnlyHis, Aloof, Untouched, Keeps

-----------------------------------------------------------------------------
(* One lemma per step of a request that writes no row.                     *)

LEMMA LifeBegin ==
  ASSUME PlanInv, LifeInv, NEW c \in Clients, NEW k \in Kinds, NEW o \in Orders,
         Begin(c, k, o)
  PROVE  LifeInv'
<1>1. /\ pc'[c] = "read" /\ run' = run /\ solver' = solver
      /\ \A d \in Clients \ {c} : Aloof(d)
  BY DEF PlanInv, TypeOK, Begin, Goto, Aloof, Untouched, solverVars
<1>2. ~Open(c)' BY <1>1 DEF Open
<1>3. Own(c)' BY <1>1 DEF Own, LifeInv, Begin, rowVars
<1>. QED BY <1>1, <1>2, <1>3, Quiet DEF Begin

LEMMA LifeWriteLine ==
  ASSUME PlanInv, LifeInv, NEW c \in Clients, WriteLine(c)
  PROVE  LifeInv'
<1>0. solver' = solver BY DEF WriteLine, solverVars
<1>1. CASE Refuse(c) BY <1>0, <1>1, LifeRefused
<1>2. CASE ~Refuse(c)
  <2>1. /\ Lock(c) /\ Free(c)
        /\ Goto(c, IF Stale(c) THEN "dropping" ELSE "answering")
        /\ UNCHANGED <<rowVars, requestVars, pending>>
        /\ pc[c] = "read" /\ kind[c] \in {"add", "update", "remove"}
        /\ status # "deleted"
        /\ kind[c] # "add" => target[c] \in lines
    BY <1>2 DEF WriteLine
  <2>2. /\ held'[c] = held[c] \cup Wants(c)
        /\ \A d \in Clients \ {c} : held'[d] = held[d]
    BY <2>1, LockExcludes DEF PlanInv
  <2>3. /\ pc'[c] = IF Stale(c) THEN "dropping" ELSE "answering"
        /\ Keeps(c) /\ \A d \in Clients \ {c} : Aloof(d)
    BY <2>1, <2>2, Alone DEF OnlyHis
  <2>4. Own(c)' BY <2>1, <2>3, <1>0 DEF Own, Keeps, LifeInv, rowVars
  <2>5. pending'[c].dropped = {} /\ pending'[c].added = {}
    BY <2>1, Fresh
  <2>6. kind[c] # "add" => target[c] \in Wants(c)
    BY <2>1 DEF Wants
  <2>7. Serial(c)'
    BY <2>1, <2>2, <2>3, <2>5, <2>6 DEF Serial, Keeps, Stale, rowVars
  <2>. QED BY <1>0, <2>1, <2>3, <2>4, <2>7, Quiet
<1>. QED BY <1>1, <1>2

LEMMA LifeConfigure ==
  ASSUME PlanInv, LifeInv, NEW c \in Clients, Configure(c)
  PROVE  LifeInv'
<1>0. solver' = solver /\ UNCHANGED rowVars BY DEF Configure, solverVars
<1>1. /\ pc'[c] = IF Stale(c) THEN "dropping" ELSE "invalidating"
      /\ Keeps(c) /\ \A d \in Clients \ {c} : Aloof(d)
  BY Alone DEF Configure, OnlyHis
<1>2. Own(c)' BY <1>0, <1>1 DEF Own, Keeps, LifeInv, rowVars, Configure
<1>3. /\ pending'[c].dropped = {} /\ pending'[c].added = {}
      /\ pending'[c].status = None
  BY Fresh DEF Configure
<1>4. Serial(c)' BY <1>1, <1>3 DEF Serial, Keeps, Stale, Configure
<1>. QED BY <1>0, <1>1, <1>2, <1>4, Quiet

LEMMA LifeDrop ==
  ASSUME PlanInv, LifeInv, NEW c \in Clients, DropCombinations(c)
  PROVE  LifeInv'
<1>0. solver' = solver /\ UNCHANGED rowVars BY DEF DropCombinations, solverVars
<1>1. /\ held'[c] = held[c] \cup combos
      /\ \A d \in Clients \ {c} : held'[d] = held[d]
  <2>1. Wants(c) = combos BY DEF DropCombinations, Wants
  <2>. QED BY <2>1, LockExcludes DEF PlanInv, DropCombinations
<1>2. /\ OnlyHis(c) /\ pending'[c].dropped = combos
      /\ pending'[c].status = pending[c].status
      /\ pending'[c].added = pending[c].added
  BY WriteDropped DEF PlanInv, TypeOK, DropCombinations
<1>3. /\ pc'[c] = "invalidating" /\ Keeps(c)
      /\ \A d \in Clients \ {c} : Aloof(d)
  BY <1>1, <1>2, Alone DEF DropCombinations
<1>4. Open(c) /\ Serial(c) /\ kind[c] \in Editing
  BY DEF LifeInv, PlanInv, Course, DropCombinations, Open
<1>5. Own(c)' BY <1>0, <1>3 DEF Own, Keeps, LifeInv, rowVars, DropCombinations
<1>6. Serial(c)'
  BY <1>0, <1>1, <1>2, <1>3, <1>4
  DEF Serial, Keeps, Stale, DropCombinations, rowVars, Editing
<1>. QED BY <1>0, <1>3, <1>5, <1>6, Quiet

LEMMA LifeInvalidate ==
  ASSUME PlanInv, LifeInv, NEW c \in Clients, Invalidate(c)
  PROVE  LifeInv'
<1>0. solver' = solver /\ UNCHANGED rowVars BY DEF Invalidate, solverVars
<1>1. /\ held'[c] = held[c] \cup Wants(c)
      /\ \A d \in Clients \ {c} : held'[d] = held[d]
  BY LockExcludes DEF PlanInv, Invalidate
<1>2. /\ OnlyHis(c)
      /\ pending'[c].status = IF Stale(c) /\ status # "deleted" THEN "draft"
                              ELSE pending[c].status
      /\ pending'[c].dropped = pending[c].dropped
      /\ pending'[c].added = pending[c].added
  <2>1. CASE Stale(c) /\ status # "deleted"
    BY <2>1, WriteStatus DEF PlanInv, Statuses, Invalidate
  <2>2. CASE ~(Stale(c) /\ status # "deleted")
    BY <2>2 DEF Invalidate, OnlyHis
  <2>. QED BY <2>1, <2>2
<1>3. /\ pc'[c] = "answering" /\ Keeps(c)
      /\ \A d \in Clients \ {c} : Aloof(d)
  BY <1>1, <1>2, Alone DEF Invalidate
<1>4. Open(c) /\ Serial(c) /\ kind[c] \in Editing
  BY DEF LifeInv, PlanInv, Course, Invalidate, Open
<1>5. Own(c)'
  BY <1>0, <1>3, <1>4 DEF Own, Keeps, LifeInv, rowVars, Invalidate, Editing
<1>6. Serial(c)'
  BY <1>0, <1>1, <1>2, <1>3, <1>4, PlanAssumption
  DEF Serial, Keeps, Stale, Invalidate, rowVars, Editing, Statuses
<1>. QED BY <1>0, <1>3, <1>5, <1>6, Quiet


LEMMA LifeInsert ==
  ASSUME PlanInv, LifeInv, NEW c \in Clients, Insert(c)
  PROVE  LifeInv'
<1>0. solver' = solver /\ UNCHANGED rowVars BY DEF Insert, solverVars
<1>1. /\ held'[c] = held[c] \cup {Reference}
      /\ \A d \in Clients \ {c} : held'[d] = held[d]
  <2>1. Wants(c) = {Reference} BY DEF Insert, Wants
  <2>. QED BY <2>1, LockExcludes DEF PlanInv, Insert
<1>2. PICK U \in (SUBSET lines) \ {{}} : Write(c, "added", {[by |-> Hand, uses |-> U]})
  BY DEF Insert
<1>3. U \in SUBSET Orders /\ status # "deleted"
  BY DEF PlanInv, TypeOK, LifeInv, Firm
<1>4. {[by |-> Hand, uses |-> U]} \in SUBSET Combinations BY <1>3 DEF Combinations
<1>5. /\ OnlyHis(c) /\ pending'[c].added = {[by |-> Hand, uses |-> U]}
      /\ pending'[c].dropped = {} /\ pending'[c].status = None
  BY <1>2, <1>4, WriteAdded, Fresh DEF PlanInv, Insert
<1>6. /\ pc'[c] = "answering" /\ Keeps(c)
      /\ \A d \in Clients \ {c} : Aloof(d)
  BY <1>1, <1>5, Alone DEF Insert
<1>7. Own(c)' BY <1>0, <1>6 DEF Own, Keeps, LifeInv, rowVars, Insert
<1>8. pending'[c].added \in ByOneHand BY <1>3, <1>5 DEF ByOneHand
<1>9. Serial(c)'
  BY <1>0, <1>1, <1>3, <1>5, <1>6, <1>8
  DEF Serial, Keeps, Insert, rowVars, Editing, ByOneHand
<1>. QED BY <1>0, <1>6, <1>7, <1>9, Quiet

LEMMA LifeAdjust ==
  ASSUME PlanInv, LifeInv, NEW c \in Clients, Adjust(c)
  PROVE  LifeInv'
<1>0. solver' = solver /\ UNCHANGED rowVars BY DEF Adjust, solverVars
<1>1. PICK k \in combos :
        /\ \E left \in {{}} \cup {{[by |-> Hand, uses |-> U]} :
                                    U \in (SUBSET k.uses) \ {{}}} :
             pending' = [pending EXCEPT ![c].dropped = {k}, ![c].added = left]
        /\ held' = [held EXCEPT ![c] = {k}]
  BY DEF Adjust
<1>2. PICK left \in {{}} \cup {{[by |-> Hand, uses |-> U]} :
                                 U \in (SUBSET k.uses) \ {{}}} :
        pending' = [pending EXCEPT ![c].dropped = {k}, ![c].added = left]
  BY <1>1
<1>3. k.uses \subseteq Orders /\ status # "deleted"
  BY DEF PlanInv, TypeOK, Combinations, LifeInv, Firm
<1>4. left \in {{}} \cup ByOneHand BY <1>3 DEF ByOneHand
<1>5. /\ OnlyHis(c) /\ pending'[c].added = left
      /\ pending'[c].dropped = {k} /\ pending'[c].status = None
  <2>1. pending \in [Clients -> Written] BY DEF PlanInv, TypeOK, Written
  <2>2. pending' = [pending EXCEPT ![c] =
                      [pending[c] EXCEPT !.dropped = {k}, !.added = left]]
    BY <1>2, <2>1 DEF Written
  <2>3. \A w \in Written :
          LET u == [w EXCEPT !.dropped = {k}, !.added = left]
          IN  u.status = w.status /\ u.dropped = {k} /\ u.added = left
    BY DEF Written
  <2>4. pending[c] \in Written /\ pending[c].status = None
    BY <2>1, Fresh DEF Adjust
  <2>. QED BY <2>1, <2>2, <2>3, <2>4 DEF OnlyHis
<1>6. /\ held'[c] = {k}
      /\ \A d \in Clients \ {c} : held'[d] = held[d]
  BY <1>1 DEF PlanInv, TypeOK
<1>7. /\ pc'[c] = "answering" /\ Keeps(c)
      /\ \A d \in Clients \ {c} : Aloof(d)
  BY <1>5, <1>6, Alone DEF Adjust
<1>8. Own(c)' BY <1>0, <1>7 DEF Own, Keeps, LifeInv, rowVars, Adjust
<1>9. Serial(c)'
  BY <1>0, <1>3, <1>4, <1>5, <1>6, <1>7
  DEF Serial, Keeps, Adjust, rowVars, Editing, ByOneHand
<1>. QED BY <1>0, <1>7, <1>8, <1>9, Quiet

LEMMA LifeFlip ==
  ASSUME PlanInv, LifeInv, NEW c \in Clients, Flip(c)
  PROVE  LifeInv'
<1>0. solver' = solver BY DEF Flip, solverVars
<1>1. CASE Refuse(c) BY <1>0, <1>1, LifeRefused
<1>2. CASE ~Refuse(c)
  <2>1. PICK r \in Runs :
          /\ solver[r] = "unused" /\ \A d \in Clients : run[d] # r
          /\ run' = [run EXCEPT ![c] = r]
    BY <1>2 DEF Flip
  <2>2. /\ Wants(c) # {} /\ Free(c) /\ Lock(c) /\ Write(c, "status", "solving")
        /\ Goto(c, "clearing") /\ pc[c] = "read" /\ kind[c] = "solve"
        /\ UNCHANGED <<rowVars, kind, seen, target, closed>>
    BY <1>2 DEF Flip
  <2>3. Wants(c) = {Plan} /\ status \in {"draft", "solved", "failed"}
    BY <2>2 DEF Wants
  <2>4. /\ held'[c] = held[c] \cup {Plan}
        /\ \A d \in Clients \ {c} : held'[d] = held[d]
    BY <2>2, <2>3, LockExcludes DEF PlanInv
  <2>5. /\ OnlyHis(c) /\ pending'[c].status = "solving"
        /\ pending'[c].added = {} /\ pending'[c].dropped = {}
    BY <2>2, WriteStatus, Fresh DEF PlanInv, Statuses
  <2>6. /\ pc'[c] = "clearing" /\ kind'[c] = "solve" /\ run'[c] = r
        /\ \A d \in Clients \ {c} : Aloof(d) /\ run'[d] = run[d]
    BY <2>1, <2>2, <2>4, <2>5 DEF PlanInv, TypeOK, Goto, Aloof, Untouched, OnlyHis
  <2>7. token # r BY <2>1, PlanAssumption DEF LifeInv, Firm
  <2>8. Own(c)' BY <1>0, <2>1, <2>2, <2>6, <2>7 DEF Own, rowVars
  <2>9. Serial(c)'
    BY <2>2, <2>3, <2>4, <2>5, <2>6 DEF Serial, rowVars, Editing
  <2>. QED BY <1>0, <2>2, <2>6, <2>8, <2>9, Quiet
<1>. QED BY <1>1, <1>2

LEMMA LifeClear ==
  ASSUME PlanInv, LifeInv, NEW c \in Clients, Clear(c)
  PROVE  LifeInv'
<1>0. solver' = solver /\ UNCHANGED rowVars BY DEF Clear
<1>1. /\ held'[c] = held[c] \cup combos
      /\ \A d \in Clients \ {c} : held'[d] = held[d]
  <2>1. Wants(c) = combos BY DEF Clear, Wants
  <2>. QED BY <2>1, LockExcludes DEF PlanInv, Clear
<1>2. /\ OnlyHis(c) /\ pending'[c].dropped = combos
      /\ pending'[c].status = pending[c].status
      /\ pending'[c].added = pending[c].added
  BY WriteDropped DEF PlanInv, TypeOK, Clear
<1>3. /\ pc'[c] = "flipped" /\ Keeps(c)
      /\ \A d \in Clients \ {c} : Aloof(d)
  BY <1>1, <1>2, Alone DEF Clear
<1>4. Open(c) /\ Serial(c) /\ kind[c] = "solve"
  BY DEF LifeInv, PlanInv, Course, Clear, Open
<1>5. Own(c)' BY <1>0, <1>3 DEF Own, Keeps, LifeInv, rowVars, Clear
<1>6. Serial(c)'
  BY <1>0, <1>1, <1>2, <1>3, <1>4 DEF Serial, Keeps, rowVars, Editing
<1>. QED BY <1>0, <1>3, <1>5, <1>6, Quiet

LEMMA LifeStart ==
  ASSUME PlanInv, LifeInv, NEW c \in Clients, StartEngine(c)
  PROVE  LifeInv'
<1>0. UNCHANGED rowVars /\ run[c] \in Runs /\ kind[c] = "solve" /\ Own(c)
  BY DEF StartEngine, PlanInv, Course, LifeInv
<1>1. \A r \in Runs : solver'[r] = IF r = run[c] THEN "working" ELSE solver[r]
  BY <1>0 DEF StartEngine, PlanInv, TypeOK
<1>2. OnwardEngines BY <1>1 DEF OnwardEngines
<1>3. ASSUME NEW d \in Clients \ {c} PROVE Ahead(d)
  <2>1. pc[d] \in {"clearing", "flipped"} => run[d] \in Runs /\ run[d] # run[c]
    BY <1>0, PlanAssumption DEF PlanInv, Course, Own
  <2>. QED BY <1>1, <2>1 DEF Ahead
<1>4. CASE closed[c]
  <2>1. End(c) BY <1>4 DEF StartEngine
  <2>2. /\ pc'[c] = "idle" /\ kind'[c] = None /\ run'[c] = None
        /\ \A d \in Clients \ {c} : Aloof(d)
    BY <2>1, EndedAlone DEF PlanInv
  <2>3. Own(c)' /\ ~Open(c)' BY <2>2, PlanAssumption DEF Own, Open, Kinds
  <2>. QED BY <1>0, <1>2, <1>3, <2>2, <2>3, Steady
<1>5. CASE ~closed[c]
  <2>1. Goto(c, "answering") /\ UNCHANGED <<requestVars, pending, held>>
    BY <1>5 DEF StartEngine
  <2>2. /\ pc'[c] = "answering" /\ Keeps(c)
        /\ \A d \in Clients \ {c} : Aloof(d)
    BY <2>1, Alone DEF OnlyHis
  <2>3. Own(c)' BY <1>0, <1>1, <2>2 DEF Own, Keeps, rowVars
  <2>4. Open(c) /\ Serial(c) BY <1>5 DEF LifeInv, Open, StartEngine
  <2>5. Serial(c)' BY <1>0, <2>1, <2>2, <2>4 DEF Serial, Keeps, rowVars, Editing
  <2>. QED BY <1>0, <1>2, <1>3, <2>2, <2>3, <2>5, Steady
<1>. QED BY <1>4, <1>5

LEMMA LifeStop ==
  ASSUME PlanInv, LifeInv, NEW c \in Clients, Stop(c)
  PROVE  LifeInv'
<1>0. UNCHANGED rowVars /\ kind[c] = "cancel" /\ Own(c)
  BY DEF Stop, PlanInv, Course, LifeInv
<1>1. \A r \in Runs : solver'[r] = solver[r]
                        \/ (solver[r] = "working" /\ solver'[r] = "reporting")
  BY DEF Stop, PlanInv, TypeOK
<1>2. OnwardEngines BY <1>1 DEF OnwardEngines
<1>3. ASSUME NEW d \in Clients \ {c} PROVE Ahead(d)
  <2>1. pc[d] \in {"clearing", "flipped"} => run[d] \in Runs /\ solver[run[d]] = "unused"
    BY DEF PlanInv, Course, LifeInv, Own
  <2>. QED BY <1>1, <2>1 DEF Ahead
<1>4. CASE closed[c]
  <2>1. End(c) BY <1>4 DEF Stop
  <2>2. /\ pc'[c] = "idle" /\ kind'[c] = None /\ run'[c] = None
        /\ \A d \in Clients \ {c} : Aloof(d)
    BY <2>1, EndedAlone DEF PlanInv
  <2>3. Own(c)' /\ ~Open(c)' BY <2>2, PlanAssumption DEF Own, Open, Kinds
  <2>. QED BY <1>0, <1>2, <1>3, <2>2, <2>3, Steady
<1>5. CASE ~closed[c]
  <2>1. Goto(c, "answering") /\ UNCHANGED <<requestVars, pending, held>>
    BY <1>5 DEF Stop
  <2>2. /\ pc'[c] = "answering" /\ Keeps(c)
        /\ \A d \in Clients \ {c} : Aloof(d)
    BY <2>1, Alone DEF OnlyHis
  <2>3. Own(c)' BY <1>0, <2>2 DEF Own, Keeps, rowVars
  <2>4. Open(c) /\ Serial(c) BY <1>5 DEF LifeInv, Open, Stop
  <2>5. Serial(c)' BY <1>0, <2>1, <2>2, <2>4 DEF Serial, Keeps, rowVars, Editing
  <2>. QED BY <1>0, <1>2, <1>3, <2>2, <2>3, <2>5, Steady
<1>. QED BY <1>4, <1>5


(* The conditional writes: cancel, register and delete, unregister. *)
LEMMA LifeClaim ==
  ASSUME PlanInv, LifeInv, NEW c \in Clients, pc[c] = "read", Free(c), Lock(c),
         NEW v \in Statuses \cup {"deleted"}, Write(c, "status", v),
         NEW step \in {"stopping", "spreading"}, Goto(c, step),
         UNCHANGED <<rowVars, requestVars, solver>>,
         status # "deleted",
         \/ kind[c] = "cancel" /\ status = "solving"
         \/ kind[c] = "delete" /\ {Plan, Exclusive} \subseteq Wants(c)
         \/ kind[c] \in {"register", "unregister"}
  PROVE  LifeInv'
<1>1. /\ held'[c] = held[c] \cup Wants(c)
      /\ \A d \in Clients \ {c} : held'[d] = held[d]
  BY LockExcludes DEF PlanInv
<1>2. /\ OnlyHis(c)
      /\ pending'[c].added = {} /\ pending'[c].dropped = {}
  BY WriteStatus, Fresh DEF PlanInv
<1>3. /\ pc'[c] = step /\ Keeps(c)
      /\ \A d \in Clients \ {c} : Aloof(d)
  BY <1>1, <1>2, Alone
<1>4. Own(c)' BY <1>3 DEF Own, Keeps, LifeInv, rowVars
<1>5. Serial(c)' BY <1>1, <1>2, <1>3 DEF Serial, Keeps, rowVars, Editing
<1>. QED BY <1>3, <1>4, <1>5, Quiet

LEMMA LifeCancel ==
  ASSUME PlanInv, LifeInv, NEW c \in Clients, Cancel(c)
  PROVE  LifeInv'
<1>0. solver' = solver BY DEF Cancel, solverVars
<1>1. CASE Wants(c) = {} BY <1>0, <1>1, LifeRefused DEF Cancel
<1>2. CASE Wants(c) # {}
  <2>1. status = "solving" BY <1>2 DEF Cancel, Wants
  <2>2. "draft" \in Statuses BY DEF Statuses
  <2>. QED BY <1>0, <1>2, <2>1, <2>2, LifeClaim DEF Cancel
<1>. QED BY <1>1, <1>2

LEMMA LifeTake ==
  ASSUME PlanInv, LifeInv, NEW c \in Clients, Take(c)
  PROVE  LifeInv'
<1>0. solver' = solver BY DEF Take, solverVars
<1>1. CASE Refuse(c) BY <1>0, <1>1, LifeRefused
<1>2. CASE ~Refuse(c)
  <2>1. {Plan, Exclusive} \subseteq Wants(c) /\ status # "deleted"
    BY <1>2 DEF Take, Wants
  <2>2. CASE kind[c] = "register"
    <3>1. "registered" \in Statuses BY DEF Statuses
    <3>. QED BY <1>0, <1>2, <2>1, <2>2, <3>1, LifeClaim DEF Take
  <2>3. CASE kind[c] = "delete"
    BY <1>0, <1>2, <2>1, <2>3, LifeClaim DEF Take
  <2>. QED BY <2>2, <2>3 DEF Take
<1>. QED BY <1>1, <1>2

LEMMA LifeRelease ==
  ASSUME PlanInv, LifeInv, NEW c \in Clients, Release(c)
  PROVE  LifeInv'
<1>0. solver' = solver BY DEF Release, solverVars
<1>1. CASE Wants(c) = {} BY <1>0, <1>1, LifeRefused DEF Release
<1>2. CASE Wants(c) # {}
  <2>1. status = "registered" BY <1>2 DEF Release, Wants
  <2>2. "solved" \in Statuses BY DEF Statuses
  <2>. QED BY <1>0, <1>2, <2>1, <2>2, LifeClaim DEF Release
<1>. QED BY <1>1, <1>2

LEMMA LifeSpread ==
  ASSUME PlanInv, LifeInv, NEW c \in Clients, Spread(c)
  PROVE  LifeInv'
<1>0. solver' = solver /\ UNCHANGED rowVars BY DEF Spread, solverVars
<1>1. /\ held'[c] = held[c] \cup Wants(c)
      /\ \A d \in Clients \ {c} : held'[d] = held[d]
  BY LockExcludes DEF PlanInv, Spread
<1>2. /\ OnlyHis(c)
      /\ pending'[c].allocated = IF kind[c] = "register" THEN lines ELSE {}
      /\ pending'[c].status = pending[c].status
      /\ pending'[c].dropped = pending[c].dropped
      /\ pending'[c].added = pending[c].added
  <2>1. (IF kind[c] = "register" THEN lines ELSE {}) \in SUBSET Orders
    BY DEF PlanInv, TypeOK
  <2>. QED BY <2>1, WriteAllocated DEF PlanInv, Spread
<1>3. /\ pc'[c] = "answering" /\ Keeps(c)
      /\ \A d \in Clients \ {c} : Aloof(d)
  BY <1>1, <1>2, Alone DEF Spread
<1>4. Open(c) /\ Serial(c) /\ kind[c] \in {"register", "delete", "unregister"}
  BY DEF LifeInv, PlanInv, Course, Spread, Open
<1>5. Own(c)' BY <1>0, <1>3, <1>4 DEF Own, Keeps, LifeInv, rowVars
<1>6. kind[c] = "delete" => lines \cup combos \subseteq Wants(c)
  BY DEF Spread, Wants
<1>7. Serial(c)'
  BY <1>0, <1>1, <1>2, <1>3, <1>4, <1>6 DEF Serial, Keeps, rowVars, Editing
<1>. QED BY <1>0, <1>3, <1>5, <1>7, Quiet

LEMMA LifeClose ==
  ASSUME PlanInv, LifeInv, NEW c \in Clients, Close(c)
  PROVE  LifeInv'
<1>0. solver' = solver /\ UNCHANGED rowVars BY DEF Close, solverVars
<1>1. CASE pc[c] \in {"flipped", "stopping"}
  <2>1. /\ UNCHANGED <<pc, kind, run>> /\ closed'[c]
        /\ \A d \in Clients \ {c} : Aloof(d)
    BY <1>1 DEF Close, PlanInv, TypeOK, Aloof, Untouched
  <2>2. Own(c)' /\ ~Open(c)' BY <1>0, <2>1 DEF Own, Open, LifeInv, rowVars
  <2>. QED BY <1>0, <2>1, <2>2, Quiet
<1>2. CASE pc[c] \notin {"flipped", "stopping"}
  BY <1>0, <1>2, LifeRefused DEF Close, Refuse
<1>. QED BY <1>1, <1>2

(* A worker settles, or the sweep reads. *)
LEMMA LifeAside ==
  ASSUME PlanInv, LifeInv, UNCHANGED <<rowVars, clientVars>>,
         \A r \in Runs : (solver[r] = "unused") <=> (solver'[r] = "unused")
  PROVE  LifeInv'
<1>1. Firm' BY DEF LifeInv, Firm, rowVars, PlanInv, TypeOK
<1>2. ASSUME NEW c \in Clients PROVE Own(c)'
  BY DEF LifeInv, Own, rowVars, clientVars, PlanInv, Course
<1>3. ASSUME NEW c \in Clients, Open(c)' PROVE Serial(c)'
  <2>1. Open(c) /\ Serial(c) BY <1>3 DEF LifeInv, Open, clientVars
  <2>. QED BY <2>1 DEF Serial, Stale, rowVars, clientVars
<1>. QED BY <1>1, <1>2, <1>3 DEF LifeInv

LEMMA LifeSettle ==
  ASSUME PlanInv, LifeInv, NEW r \in Runs, Settle(r)
  PROVE  LifeInv'
<1>1. \A q \in Runs : (solver[q] = "unused") <=> (solver'[q] = "unused")
  BY DEF Settle, PlanInv, TypeOK
<1>. QED BY <1>1, LifeAside DEF Settle

LEMMA LifeCrash ==
  ASSUME PlanInv, LifeInv, Crash
  PROVE  LifeInv'
<1>1. Firm' BY DEF LifeInv, Firm, rowVars, PlanInv, TypeOK, Crash
<1>2. ASSUME NEW c \in Clients PROVE Own(c)' /\ ~Open(c)'
  BY PlanAssumption DEF Crash, Own, Open, Kinds
<1>. QED BY <1>1, <1>2 DEF LifeInv

(* A row is written outside the requests: the plan is not deleted, and its *)
(* lines stay.                                                             *)
LEMMA LifeBeside ==
  ASSUME PlanInv, LifeInv, UNCHANGED clientVars,
         UNCHANGED <<token, lines, allocated>>,
         \A r \in Runs : (solver[r] = "unused") <=> (solver'[r] = "unused"),
         status # "deleted", status' # "deleted", combos \subseteq combos',
         \A c \in Clients : Plan \notin held[c]
  PROVE  LifeInv'
<1>1. Firm' BY DEF LifeInv, Firm, PlanInv, TypeOK
<1>2. ASSUME NEW c \in Clients PROVE Own(c)'
  BY DEF LifeInv, Own, clientVars, PlanInv, Course
<1>3. ASSUME NEW c \in Clients, Open(c)' PROVE Serial(c)'
  <2>1. Open(c) /\ Serial(c) /\ Holds(c) BY <1>3 DEF LifeInv, Open, clientVars, PlanInv
  <2>2. kind[c] \notin {"solve", "cancel", "delete", "register", "unregister"}
    BY <2>1, PlanAssumption DEF Holds, Statuses
  <2>. QED BY <2>1, <2>2 DEF Serial, Stale, clientVars
<1>. QED BY <1>1, <1>2, <1>3 DEF LifeInv

LEMMA LifeComplete ==
  ASSUME PlanInv, LifeInv, NEW r \in Runs, Complete(r)
  PROVE  LifeInv'
<1>1. /\ UNCHANGED clientVars
      /\ \A q \in Runs : (solver[q] = "unused") <=> (solver'[q] = "unused")
  BY DEF Complete, Over, PlanInv, TypeOK
<1>2. CASE UNCHANGED rowVars BY <1>1, <1>2, LifeAside
<1>3. CASE ~UNCHANGED rowVars
  <2>1. /\ status = "solving" /\ status' \in {"failed", "solved"}
        /\ combos \subseteq combos' /\ UNCHANGED <<token, lines, allocated>>
        /\ \A c \in Clients : Plan \notin held[c]
    BY <1>3 DEF Complete, Awaited
  <2>. QED BY <1>1, <2>1, LifeBeside
<1>. QED BY <1>2, <1>3

LEMMA LifeSweepWrite ==
  ASSUME PlanInv, LifeInv, SweepWrite
  PROVE  LifeInv'
<1>1. UNCHANGED clientVars /\ solver' = solver BY DEF SweepWrite, solverVars
<1>2. CASE status = "deleted"
  BY <1>1, <1>2, LifeAside DEF SweepWrite, rowVars
<1>3. CASE status # "deleted"
  BY <1>1, <1>3, LifeBeside DEF SweepWrite
<1>. QED BY <1>2, <1>3


-----------------------------------------------------------------------------
(* A commit: the lines and the combinations it leaves.                     *)

After(c) ==
  CASE kind[c] = "add" -> lines \cup {target[c]}
    [] kind[c] = "remove" -> lines \ {target[c]}
    [] kind[c] = "delete" -> {}
    [] OTHER -> lines

Kept(c) == (combos \ pending[c].dropped) \cup pending[c].added

LEMMA CutUnion == \A K, M, L : Life!Cut(K \cup M, L) = Life!Cut(K, L) \cup Life!Cut(M, L)
  BY DEF Life!Cut

(* Combinations that use lines alone are left whole. *)
LEMMA CutWhole ==
  ASSUME NEW K, NEW L, K \subseteq Combinations, \A k \in K : k.uses \subseteq L
  PROVE  Life!Cut(K, L) = K
<1>1. \A k \in K : k = [by |-> k.by, uses |-> k.uses] BY DEF Combinations
<1>2. \A k \in K : k.uses \cap L = k.uses OBVIOUS
<1>3. \A k \in K : [by |-> k.by, uses |-> k.uses \cap L] = k BY <1>1, <1>2
<1>. QED BY <1>3 DEF Life!Cut

LEMMA Committed ==
  ASSUME PlanInv, LifeInv, NEW c \in Clients, Respond(c)
  PROVE  /\ Open(c) /\ Holds(c) /\ Course(c) /\ Serial(c) /\ Own(c)
         /\ kind[c] \in Kinds /\ pc[c] = "answering" /\ solver' = solver
         /\ status' = IF pending[c].status = None THEN status ELSE pending[c].status
         /\ lines' = After(c)
         /\ combos' = IF kind[c] = "delete" THEN {} ELSE Life!Cut(Kept(c), After(c))
         /\ allocated' = IF kind[c] \in {"register", "unregister"}
                           THEN pending[c].allocated ELSE allocated \cap After(c)
         /\ token' = IF kind[c] = "solve" THEN run[c] ELSE token
         /\ solveStatus' = CASE kind[c] = "solve" -> None
                             [] kind[c] = "cancel" -> "cancelled"
                             [] OTHER -> solveStatus
<1>1. Open(c) /\ pc[c] = "answering" BY DEF Open, Respond, PlanInv, Course
<1>2. kind[c] \in Kinds BY <1>1 DEF PlanInv, TypeOK, Course
<1>3. Holds(c) /\ Course(c) /\ Serial(c) /\ Own(c) BY <1>1 DEF PlanInv, LifeInv
<1>4. Kept(c) \subseteq Combinations BY DEF PlanInv, TypeOK, Kept
<1>5. combos' = IF kind[c] = "delete" THEN {} ELSE Life!Cut(Kept(c), After(c))
  <2>1. \A k \in Combinations :
          [k EXCEPT !.uses = @ \cap After(c)] = [by |-> k.by, uses |-> k.uses \cap After(c)]
    BY DEF Combinations
  <2>2. combos' = {[k EXCEPT !.uses = @ \cap After(c)] :
                     k \in IF kind[c] = "delete" THEN {} ELSE Kept(c)}
    BY DEF Respond, After, Kept
  <2>3. CASE kind[c] = "delete" BY <2>2, <2>3
  <2>4. CASE kind[c] # "delete"
    <3>1. combos' = {[k EXCEPT !.uses = @ \cap After(c)] : k \in Kept(c)}
      BY <2>2, <2>4
    <3>. QED BY <1>4, <2>1, <2>4, <3>1 DEF Life!Cut
  <2>. QED BY <2>3, <2>4
<1>. QED BY <1>1, <1>2, <1>3, <1>5 DEF Respond, After, solverVars

(* A request that holds the plan's row is alone with its status; *)
LEMMA Frozen ==
  ASSUME PlanInv, NEW c \in Clients, NEW d \in Clients, c # d,
         Open(c), Open(d), pending[c].status # None
  PROVE  pending[d].status = None
  BY Apart, PlanLock DEF PlanInv, Holds

(* one that deletes it, with everything else too. *)
LEMMA DeleteAlone ==
  ASSUME PlanInv, LifeInv, NEW c \in Clients, NEW d \in Clients, c # d,
         Open(c), Open(d), kind[c] = "delete", pc[c] = "answering", kind[d] \in Kinds
  PROVE  kind[d] = "configure" /\ pending[d].status = None
<1>1. Holds(c) /\ Serial(c) /\ Holds(d) /\ Serial(d) /\ Course(d)
  BY DEF PlanInv, LifeInv
<1>2. pending[d].status = None BY <1>1, Apart, PlanLock DEF PlanInv, Holds, Serial
<1>3. kind[d] \notin {"solve", "cancel", "delete", "register", "unregister"}
  BY <1>1, <1>2, PlanAssumption DEF Holds, Statuses
<1>4. kind[d] \notin {"add", "insert"}
  BY <1>1, Shut DEF PlanInv, Holds, Serial
<1>5. kind[d] \notin {"update", "remove"}
  BY <1>1, Apart, OrderLock DEF PlanInv, Serial, Course
<1>6. kind[d] # "adjust"
  BY <1>1, Apart, CombinationLock DEF PlanInv, TypeOK, Serial
<1>. QED BY <1>2, <1>3, <1>4, <1>5, <1>6 DEF Kinds, Editing, Adjusting

(* An edit that was decided on a plan that is gone by now changes nothing. *)
LEMMA EditOfTheGone ==
  ASSUME PlanInv, LifeInv, NEW c \in Clients, Respond(c), status = "deleted"
  PROVE  UNCHANGED rowVars
<1>1. kind[c] = "configure" /\ pending[c].status = None /\ pending[c].added = {}
  BY Committed DEF Serial, Editing
<1>2. lines = {} /\ combos = {} /\ allocated = {} BY DEF LifeInv, Firm
<1>3. After(c) = {} /\ Kept(c) = {} BY <1>1, <1>2 DEF After, Kept
<1>4. Life!Cut({}, {}) = {} BY DEF Life!Cut
<1>. QED BY <1>1, <1>2, <1>3, <1>4, Committed DEF rowVars

(* What a combination held by another request goes through: nothing.       *)
LEMMA HeldStays ==
  ASSUME PlanInv, LifeInv, NEW c \in Clients, NEW d \in Clients, c # d,
         Respond(c), kind[c] # "delete", NEW k \in combos, k \in held[d]
  PROVE  k \in combos'
<1>1. k \in Combinations /\ k.uses \subseteq lines BY DEF PlanInv, TypeOK, RowsFit
<1>2. k \notin held[c] BY <1>1, Apart, CombinationLock DEF PlanInv
<1>3. k \in Kept(c) BY <1>2, Committed DEF Serial, Kept
<1>4. k.uses \subseteq After(c)
  <2>1. kind[c] = "remove" => target[c] \notin k.uses
    BY <1>2, Committed DEF Holds
  <2>. QED BY <1>1, <2>1 DEF After
<1>5. k = [by |-> k.by, uses |-> k.uses \cap After(c)]
  <2>1. k = [by |-> k.by, uses |-> k.uses] BY <1>1 DEF Combinations
  <2>2. k.uses \cap After(c) = k.uses BY <1>4
  <2>. QED BY <2>1, <2>2
<1>6. k \in Life!Cut(Kept(c), After(c)) BY <1>3, <1>5 DEF Life!Cut
<1>. QED BY <1>6, Committed

LEMMA LifeRespond ==
  ASSUME PlanInv, LifeInv, NEW c \in Clients, Respond(c)
  PROVE  LifeInv'
<1>1. /\ pc'[c] = "idle" /\ kind'[c] = None /\ run'[c] = None
      /\ \A d \in Clients \ {c} : Aloof(d)
  BY EndedAlone DEF PlanInv, Respond
<1>2. Own(c)' /\ ~Open(c)' BY <1>1, PlanAssumption DEF Own, Open, Kinds
<1>3. Firm'
  <2>1. (allocated \subseteq lines)'
    <3>1. CASE kind[c] = "register"
      <4>1. Holds(c) /\ pc[c] = "answering" /\ lines' = After(c)
            /\ allocated' = pending[c].allocated
        BY <3>1, Committed
      <4>2. pending[c].allocated = lines BY <3>1, <4>1 DEF Holds
      <4>3. After(c) = lines BY <3>1 DEF After
      <4>. QED BY <4>1, <4>2, <4>3
    <3>2. CASE kind[c] = "unregister"
      <4>1. Serial(c) /\ pc[c] = "answering" /\ allocated' = pending[c].allocated
        BY <3>2, Committed
      <4>2. pending[c].allocated = {} BY <3>2, <4>1 DEF Serial
      <4>. QED BY <4>1, <4>2
    <3>3. CASE kind[c] \notin {"register", "unregister"} BY <3>3, Committed
    <3>. QED BY <3>1, <3>2, <3>3
  <2>2. (status = "deleted" => lines = {} /\ combos = {})'
    <3>1. CASE status = "deleted"
      BY <3>1, EditOfTheGone DEF LifeInv, Firm, rowVars
    <3>2. CASE status # "deleted"
      <4>1. ASSUME status' = "deleted" PROVE kind[c] = "delete"
        BY <3>2, <4>1, Committed, PlanAssumption DEF Holds, Kinds, Statuses
      <4>. QED BY <4>1, Committed DEF After
    <3>. QED BY <3>1, <3>2
  <2>3. (token # None => solver[token] # "unused")'
    BY Committed DEF LifeInv, Firm, Own
  <2>. QED BY <2>1, <2>2, <2>3 DEF Firm
<1>4. ASSUME NEW d \in Clients \ {c} PROVE Own(d)'
  <2>1. Own(d) /\ Aloof(d) BY <1>1 DEF LifeInv
  <2>2. run[d] # None => \A e \in Clients \ {d} : run'[e] # run[d]
    <3>1. ASSUME run[d] # None, NEW e \in Clients \ {d} PROVE run'[e] # run[d]
      <4>1. CASE e = c BY <1>1, <3>1, <4>1
      <4>2. CASE e # c BY <1>1, <2>1, <3>1, <4>2 DEF Own, Aloof, Untouched
      <4>. QED BY <4>1, <4>2
    <3>. QED BY <3>1
  <2>3. run[d] # None => token' # run[d] BY <2>1, Committed DEF Own
  <2>. QED BY <2>1, <2>2, <2>3, Committed DEF Own, Aloof, Untouched
<1>5. ASSUME NEW d \in Clients \ {c}, Open(d)' PROVE Serial(d)'
  <2>1. Open(d) /\ Serial(d) /\ Holds(d) /\ Aloof(d) /\ Course(d) /\ kind[d] \in Kinds
    BY <1>1, <1>5 DEF LifeInv, PlanInv, TypeOK, Course, Aloof, Untouched, Open
  <2>2. ASSUME status' = "deleted"
        PROVE  kind[d] = "configure" /\ pending[d].status = None
    <3>1. CASE status = "deleted" BY <2>1, <3>1 DEF Serial
    <3>2. CASE status # "deleted"
      <4>1. kind[c] = "delete"
        BY <2>2, <3>2, Committed, PlanAssumption DEF Holds, Kinds, Statuses
      <4>. QED BY <2>1, <4>1, Committed, DeleteAlone
    <3>. QED BY <3>1, <3>2
  <2>3. status = "deleted" => status' = "deleted"
    BY EditOfTheGone DEF rowVars
  <2>4. ASSUME kind[d] \in {"update", "remove"} PROVE target[d] \in lines'
    <3>1. target[d] \in held[d] \cap lines /\ target[d] \in Orders
      BY <2>1, <2>4 DEF Serial, Course
    <3>2. kind[c] # "delete"
      BY <2>1, <2>4, Committed, DeleteAlone
    <3>3. kind[c] = "remove" => target[c] # target[d]
      BY <3>1, Apart, OrderLock, Committed DEF PlanInv, Serial
    <3>. QED BY <3>1, <3>2, <3>3, Committed DEF After
  <2>5. ASSUME kind[d] = "adjust"
        PROVE  \E k \in combos' \cap held[d] :
                 pending[d].dropped = {k} /\ pending[d].added \in {{}} \cup ByOneHand
    <3>1. kind[c] # "delete" BY <2>1, <2>5, Committed, DeleteAlone
    <3>. QED BY <2>1, <2>5, <3>1, HeldStays DEF Serial
  <2>6. pending[d].status # None => status' = status
    BY <2>1, Committed, Frozen
  <2>7. kind[d] \in {"solve", "cancel"} => status' = status
    BY <2>1, <2>6, PlanAssumption DEF Holds, Statuses
  <2>8. ASSUME kind[d] = "delete", pc[d] = "answering"
        PROVE  lines' \cup combos' \subseteq held[d]
    <3>1. kind[c] = "configure" /\ pending[c].status = None
      BY <2>1, <2>8, Committed, DeleteAlone
    <3>2. status # "deleted" /\ lines \cup combos \subseteq held[d]
      BY <2>1, <2>8 DEF Serial
    <3>3. Kept(c) = combos /\ After(c) = lines
      BY <3>1, <3>2, Committed DEF Serial, Kept, After, Editing
    <3>4. Life!Cut(combos, lines) = combos
      BY CutWhole DEF PlanInv, TypeOK, RowsFit
    <3>. QED BY <3>1, <3>2, <3>3, <3>4, Committed
  <2>. QED
    BY <2>1, <2>2, <2>3, <2>4, <2>5, <2>7, <2>8
    DEF Serial, Aloof, Untouched, Stale, ByOneHand
<1>. QED BY <1>2, <1>3, <1>4, <1>5 DEF LifeInv

LEMMA InitLifeInv == Init => LifeInv
<1>. SUFFICES ASSUME Init PROVE LifeInv OBVIOUS
<1>1. Firm BY DEF Init, Firm
<1>2. ASSUME NEW c \in Clients PROVE Own(c) /\ ~Open(c)
  BY PlanAssumption DEF Init, Own, Open, Kinds
<1>. QED BY <1>1, <1>2 DEF LifeInv

LEMMA NextLifeInv == PlanInv /\ LifeInv /\ [Next]_vars => LifeInv'
<1>. SUFFICES ASSUME PlanInv, LifeInv, [Next]_vars PROVE LifeInv' OBVIOUS
<1>1. CASE UNCHANGED vars BY <1>1, LifeAside DEF vars, solverVars
<1>2. CASE SweepRead BY <1>2, LifeAside DEF SweepRead, solverVars
<1>3. ASSUME NEW c \in Clients, NothingToAdjust(c) \/ Deadlock(c) \/ Deny(c)
      PROVE  LifeInv'
  BY <1>3, LifeRefused DEF NothingToAdjust, Deadlock, Deny, solverVars
<1>4. ASSUME NEW c \in Clients, Step(c) \/ Deny(c) \/ Close(c)
      PROVE  LifeInv'
  BY <1>3, <1>4, LifeWriteLine, LifeConfigure, LifeDrop, LifeInvalidate,
     LifeInsert, LifeAdjust, LifeFlip, LifeClear, LifeStart, LifeCancel,
     LifeStop, LifeTake, LifeRelease, LifeSpread, LifeRespond, LifeClose
  DEF Step
<1>. QED
  BY <1>1, <1>2, <1>4, LifeBegin, LifeSettle, LifeComplete, LifeCrash,
     LifeSweepWrite
  DEF Next


-----------------------------------------------------------------------------
(* Every step is one of the abstract plan, or none.                        *)

LEMMA SameEngines ==
  ASSUME solver' = solver
  PROVE  [r \in Runs |-> engineOf(r)]' = [r \in Runs |-> engineOf(r)]
  BY DEF engineOf

LEMMA EditIs ==
  ASSUME PlanInv, LifeInv, NEW c \in Clients, Respond(c), status # "deleted",
         kind[c] \in Editing
  PROVE  Life!Edit
<1>1. pending[c].status \in {None, "draft"} /\ pending[c].added = {}
      /\ (pending[c].status = None => pending[c].dropped = {})
  BY Committed DEF Holds, Serial
<1>2. lines' = lines \/ \E o \in Orders : lines' \in {lines \cup {o}, lines \ {o}}
  <2>1. CASE kind[c] \in {"add", "remove"}
    <3>1. target[c] \in Orders BY <2>1, Committed DEF Course
    <3>. QED BY <2>1, <3>1, Committed DEF After
  <2>2. CASE kind[c] \in {"update", "configure"} BY <2>2, Committed DEF After
  <2>. QED BY <2>1, <2>2 DEF Editing
<1>3. /\ combos' = Life!Cut(Kept(c), lines') /\ allocated' = allocated \cap lines'
      /\ UNCHANGED <<token, solveStatus>>
  BY Committed DEF Editing
<1>4. \/ status' = status /\ combos' = Life!Cut(combos, lines')
      \/ status' = "draft" /\ combos' \subseteq Life!Cut(combos, lines')
  <2>1. CASE pending[c].status = None
    <3>1. Kept(c) = combos BY <1>1, <2>1 DEF Kept
    <3>. QED BY <1>3, <2>1, <3>1, Committed
  <2>2. CASE pending[c].status = "draft"
    <3>1. Kept(c) \subseteq combos BY <1>1 DEF Kept
    <3>2. Life!Cut(Kept(c), lines') \subseteq Life!Cut(combos, lines')
      BY <3>1 DEF Life!Cut
    <3>3. status' = "draft" BY <2>2, Committed, PlanAssumption DEF Statuses
    <3>. QED BY <1>3, <3>2, <3>3
  <2>. QED BY <1>1, <2>1, <2>2
<1>5. solver' = solver BY Committed
<1>. QED BY <1>2, <1>3, <1>4, <1>5, SameEngines DEF Life!Edit

LEMMA AdjustIs ==
  ASSUME PlanInv, LifeInv, NEW c \in Clients, Respond(c), status # "deleted",
         kind[c] \in Adjusting
  PROVE  Life!Adjust
<1>1. /\ lines' = lines /\ UNCHANGED <<status, token, solveStatus>>
      /\ allocated' = allocated /\ combos' = Life!Cut(Kept(c), lines)
      /\ solver' = solver
  <2>1. After(c) = lines BY DEF After, Adjusting
  <2>2. allocated \cap lines = allocated BY DEF LifeInv, Firm
  <2>. QED BY <2>1, <2>2, Committed DEF Holds, Adjusting
<1>2. PICK out \in {{}} \cup {{k} : k \in combos} : pending[c].dropped = out
  BY Committed DEF Serial, Adjusting
<1>3. PICK left \in {{}} \cup ByOneHand : pending[c].added = left
  BY Committed DEF Serial, Adjusting
<1>4. Life!Cut(combos \ out, lines) = combos \ out
  BY CutWhole DEF PlanInv, TypeOK, RowsFit
<1>5. PICK in \in {{}} \cup {Life!ByHand(U) : U \in SUBSET lines} :
        Life!Cut(left, lines) = in
  <2>1. CASE left = {} BY <2>1 DEF Life!Cut
  <2>2. CASE left # {}
    <3>1. PICK U \in SUBSET Orders : left = {[by |-> Hand, uses |-> U]}
      BY <1>3, <2>2 DEF ByOneHand
    <3>2. Life!Cut(left, lines) = Life!ByHand(U \cap lines)
      BY <3>1 DEF Life!Cut, Life!ByHand
    <3>3. U \cap lines \in SUBSET lines OBVIOUS
    <3>. QED BY <3>2, <3>3
  <2>. QED BY <2>1, <2>2
<1>6. combos' = (combos \ out) \cup in
  BY <1>1, <1>2, <1>3, <1>4, <1>5, CutUnion DEF Kept
<1>. QED BY <1>1, <1>6, SameEngines DEF Life!Adjust

LEMMA SolveIs ==
  ASSUME PlanInv, LifeInv, NEW c \in Clients, Respond(c), kind[c] = "solve"
  PROVE  run[c] \in Runs /\ Life!Solve(run[c])
<1>1. /\ status \in {"draft", "solved", "failed"}
      /\ run[c] \in Runs /\ token # run[c] /\ solver[run[c]] # "unused"
      /\ status' = "solving" /\ token' = run[c] /\ solveStatus' = None
      /\ solver' = solver
  BY Committed, PlanAssumption DEF Serial, Own, Holds, Course, Statuses
<1>2. [r \in Runs |-> engineOf(r)][run[c]] # "unused" BY <1>1 DEF engineOf
<1>3. After(c) = lines /\ Kept(c) = combos \ pending[c].dropped
  BY Committed DEF After, Kept, Serial
<1>4. Life!Cut(combos \ pending[c].dropped, lines) = combos \ pending[c].dropped
  BY CutWhole DEF PlanInv, TypeOK, RowsFit
<1>5. combos' = combos \ pending[c].dropped BY <1>3, <1>4, Committed
<1>6. combos' \subseteq {k \in combos : k.by = Hand}
  <2>1. \A k \in combos : k.by \in Runs \cup {Hand}
    BY DEF PlanInv, TypeOK, Combinations
  <2>2. \A k \in combos : k.by \in Runs => k \in pending[c].dropped
    BY Committed DEF Holds
  <2>. QED BY <1>5, <2>1, <2>2
<1>7. lines' = lines /\ allocated' = allocated
  BY <1>3, Committed DEF LifeInv, Firm
<1>. QED BY <1>1, <1>2, <1>6, <1>7, SameEngines DEF Life!Solve

(* The requests that write the plan's row and no combination. *)
LEMMA RowIs ==
  ASSUME PlanInv, LifeInv, NEW c \in Clients, Respond(c),
         kind[c] \in {"cancel", "register", "unregister"}
  PROVE  Life!Cancel \/ Life!Register \/ Life!Unregister
<1>1. /\ lines' = lines /\ combos' = combos /\ token' = token /\ solver' = solver
      /\ status' = pending[c].status
  <2>1. Kept(c) = combos /\ After(c) = lines BY Committed DEF Kept, After, Serial
  <2>2. Life!Cut(combos, lines) = combos
    BY CutWhole DEF PlanInv, TypeOK, RowsFit
  <2>3. pending[c].status # None BY Committed, PlanAssumption DEF Holds, Statuses
  <2>. QED BY <2>1, <2>2, <2>3, Committed
<1>2. CASE kind[c] = "cancel"
  <2>1. allocated' = allocated BY <1>1, <1>2, Committed DEF LifeInv, Firm
  <2>. QED BY <1>1, <1>2, <2>1, Committed, SameEngines DEF Life!Cancel, Holds, Serial
<1>3. CASE kind[c] = "register"
  BY <1>1, <1>3, Committed, SameEngines DEF Life!Register, Holds
<1>4. CASE kind[c] = "unregister"
  BY <1>1, <1>4, Committed, SameEngines DEF Life!Unregister, Holds, Serial
<1>. QED BY <1>2, <1>3, <1>4

LEMMA DeleteIs ==
  ASSUME PlanInv, LifeInv, NEW c \in Clients, Respond(c), kind[c] = "delete"
  PROVE  Life!Delete
<1>1. /\ status # "deleted" /\ status' = "deleted"
      /\ lines' = {} /\ combos' = {} /\ allocated' = {}
      /\ UNCHANGED <<token, solveStatus, solver>>
  BY Committed, PlanAssumption DEF Serial, Holds, After, Statuses
<1>. QED BY <1>1, SameEngines DEF Life!Delete

LEMMA RespondIs ==
  ASSUME PlanInv, LifeInv, NEW c \in Clients, Respond(c)
  PROVE  Life!Next \/ UNCHANGED Life!vars
<1>1. CASE status = "deleted"
  <2>1. UNCHANGED rowVars /\ solver' = solver
    BY <1>1, EditOfTheGone, Committed
  <2>. QED BY <2>1, SameEngines DEF Life!vars, Life!rows, rowVars
<1>2. CASE status # "deleted"
  <2>1. kind[c] \in Kinds BY Committed
  <2>. QED
    BY <1>2, <2>1, EditIs, AdjustIs, SolveIs, RowIs, DeleteIs
    DEF Kinds, Life!Next
<1>. QED BY <1>1, <1>2

LEMMA StartIs ==
  ASSUME PlanInv, LifeInv, NEW c \in Clients, StartEngine(c)
  PROVE  Life!Next
<1>1. run[c] \in Runs /\ solver[run[c]] = "unused"
  BY DEF StartEngine, PlanInv, Course, LifeInv, Own
<1>2. [r \in Runs |-> engineOf(r)]' =
        [[r \in Runs |-> engineOf(r)] EXCEPT ![run[c]] = "working"]
  BY <1>1 DEF StartEngine, engineOf, PlanInv, TypeOK
<1>3. [r \in Runs |-> engineOf(r)][run[c]] = "unused" BY <1>1 DEF engineOf
<1>4. Life!Start(run[c])
  BY <1>2, <1>3 DEF Life!Start, Life!Turn, Life!rows, StartEngine, rowVars
<1>. QED BY <1>1, <1>4 DEF Life!Next

(* A worker that reports has something to report. *)
Reports == \A r \in Runs : solver[r] = "reporting" => report[r] # None

LEMMA NextReports == PlanInv /\ Reports /\ [Next]_vars => Reports'
<1>. SUFFICES ASSUME PlanInv, Reports, [Next]_vars PROVE Reports' OBVIOUS
<1>1. CASE UNCHANGED <<solver, report>> BY <1>1 DEF Reports
<1>2. ASSUME NEW c \in Clients, StartEngine(c) PROVE Reports'
  <2>1. run[c] \in Runs BY <1>2 DEF StartEngine, PlanInv, Course
  <2>. QED BY <1>2, <2>1 DEF StartEngine, Reports, PlanInv, TypeOK
<1>3. ASSUME NEW c \in Clients, Stop(c) PROVE Reports'
  <2>1. CASE active # None /\ solver[active] = "working"
    <3>1. active \in Runs BY <2>1 DEF PlanInv, TypeOK
    <3>2. \A r \in Runs : /\ solver'[r] = IF r = active THEN "reporting" ELSE solver[r]
                         /\ report'[r] = IF r = active THEN "cancelled" ELSE report[r]
      BY <1>3, <2>1, <3>1 DEF Stop, PlanInv, TypeOK
    <3>. QED BY <3>2, PlanAssumption DEF Reports
  <2>2. CASE ~(active # None /\ solver[active] = "working")
    BY <1>3, <2>2 DEF Stop, Reports
  <2>. QED BY <2>1, <2>2
<1>4. ASSUME NEW r \in Runs, Settle(r) PROVE Reports'
  <2>1. PICK o \in {"ok", "error"} : report' = [report EXCEPT ![r] = o]
    BY <1>4 DEF Settle
  <2>2. o # None BY PlanAssumption
  <2>. QED BY <1>4, <2>1, <2>2 DEF Settle, Reports, PlanInv, TypeOK
<1>5. ASSUME NEW r \in Runs, Complete(r) PROVE Reports'
  BY <1>5 DEF Complete, Over, Reports, PlanInv, TypeOK
<1>6. CASE Crash BY <1>6 DEF Crash, Reports
<1>7. ASSUME NEW c \in Clients, Step(c) \/ Deny(c) \/ Close(c)
      PROVE  Reports'
  BY <1>1, <1>2, <1>3, <1>7
  DEF Step, Deny, Close, WriteLine, Configure, DropCombinations, Invalidate,
      Insert, Adjust, NothingToAdjust, Flip, Clear, Cancel, Take, Release,
      Spread, Respond, Deadlock, solverVars
<1>. QED
  BY <1>1, <1>4, <1>5, <1>6, <1>7
  DEF Next, Begin, SweepRead, SweepWrite, vars, solverVars

LEMMA CompleteIs ==
  ASSUME PlanInv, Reports, NEW r \in Runs, Complete(r)
  PROVE  Life!Next
<1>1. Life!Turn(r, "working", "over")
  <2>1. [q \in Runs |-> engineOf(q)][r] = "working" BY DEF Complete, engineOf
  <2>2. [q \in Runs |-> engineOf(q)]' =
          [[q \in Runs |-> engineOf(q)] EXCEPT ![r] = "over"]
    BY DEF Complete, Over, engineOf, PlanInv, TypeOK
  <2>. QED BY <2>1, <2>2 DEF Life!Turn
<1>2. CASE UNCHANGED rowVars
  BY <1>1, <1>2 DEF Life!Next, Life!Report, Life!rows, rowVars
<1>3. CASE ~UNCHANGED rowVars
  <2>1. Awaited(r) /\ UNCHANGED <<token, lines, allocated>>
    BY <1>3 DEF Complete
  <2>2. \/ /\ status' = "failed" /\ solveStatus' \in {"error", "cancelled"}
           /\ UNCHANGED combos
        \/ /\ status' = "solved" /\ solveStatus' = "ok"
           /\ \E in \in {{}} \cup {{[by |-> r, uses |-> U]} : U \in SUBSET lines} :
                combos' = combos \cup in
    <3>1. CASE report[r] # "ok"
      <4>1. report[r] \in {"error", "cancelled"}
        BY <3>1 DEF PlanInv, TypeOK, Reports, Complete
      <4>2. status' = "failed" /\ solveStatus' = report[r] /\ UNCHANGED combos
        BY <1>3, <3>1 DEF Complete
      <4>. QED BY <4>1, <4>2
    <3>2. CASE report[r] = "ok"
      <4>1. PICK U \in SUBSET given[r] :
              /\ U \subseteq lines
              /\ status' = "solved" /\ solveStatus' = "ok"
              /\ combos' = combos \cup
                   (IF U = {} THEN {} ELSE {[by |-> r, uses |-> U]})
        BY <1>3, <3>2 DEF Complete
      <4>2. (IF U = {} THEN {} ELSE {[by |-> r, uses |-> U]})
              \in {{}} \cup {{[by |-> r, uses |-> V]} : V \in SUBSET lines}
        BY <4>1
      <4>. QED BY <4>1, <4>2
    <3>. QED BY <3>1, <3>2
  <2>. QED BY <1>1, <2>1, <2>2 DEF Life!Next, Life!Report, Awaited
<1>. QED BY <1>2, <1>3

LEMMA CrashIs ==
  ASSUME PlanInv, Crash
  PROVE  Life!Next
<1>1. [r \in Runs |-> engineOf(r)]' =
        [r \in Runs |-> IF [q \in Runs |-> engineOf(q)][r] = "unused"
                        THEN "unused" ELSE "over"]
  BY DEF Crash, engineOf
<1>. QED BY <1>1 DEF Life!Next, Life!Restart, Life!rows, Crash, rowVars

LEMMA SweepIs ==
  ASSUME PlanInv, SweepWrite
  PROVE  Life!Next \/ UNCHANGED Life!vars
<1>1. solver' = solver BY DEF SweepWrite, solverVars
<1>. QED BY <1>1, SameEngines
     DEF SweepWrite, Life!Next, Life!GiveUp, Life!vars, Life!rows

(* A worker that was stopped, or that settled, is working until its report *)
(* is taken.                                                               *)
LEMMA StillIs ==
  ASSUME PlanInv, UNCHANGED rowVars,
         \A r \in Runs : solver'[r] = solver[r]
                           \/ (solver[r] = "working" /\ solver'[r] = "reporting")
  PROVE  UNCHANGED Life!vars
<1>1. ASSUME NEW r \in Runs PROVE engineOf(r)' = engineOf(r)
  BY DEF engineOf
<1>2. [r \in Runs |-> engineOf(r)]' = [r \in Runs |-> engineOf(r)]
  BY <1>1
<1>. QED BY <1>2 DEF Life!vars, Life!rows, rowVars

LEMMA StepIs ==
  PlanInv /\ LifeInv /\ Reports /\ [Next]_vars => [Life!Next]_(Life!vars)
<1>. SUFFICES ASSUME PlanInv, LifeInv, Reports, [Next]_vars
              PROVE  Life!Next \/ UNCHANGED Life!vars
  OBVIOUS
<1>1. ASSUME NEW c \in Clients, Respond(c) \/ StartEngine(c)
      PROVE  Life!Next \/ UNCHANGED Life!vars
  BY <1>1, RespondIs, StartIs
<1>2. ASSUME NEW r \in Runs, Complete(r)
      PROVE  Life!Next
  BY <1>2, CompleteIs
<1>3. CASE Crash \/ SweepWrite BY <1>3, CrashIs, SweepIs
<1>4. ASSUME ~Crash, ~SweepWrite, \A r \in Runs : ~Complete(r),
             \A c \in Clients : ~Respond(c) /\ ~StartEngine(c)
      PROVE  UNCHANGED Life!vars
  <2>1. UNCHANGED rowVars BY <1>4, Writers
  <2>2. solver' = solver \/ (\E c \in Clients : Stop(c)) \/ (\E r \in Runs : Settle(r))
    <3>1. ASSUME NEW c \in Clients, Step(c) \/ Deny(c) \/ Close(c), ~Stop(c)
          PROVE  solver' = solver
      BY <1>4, <3>1
      DEF Step, Deny, Close, WriteLine, Configure, DropCombinations, Invalidate,
          Insert, Adjust, NothingToAdjust, Flip, Clear, Cancel, Take, Release,
          Spread, Deadlock, solverVars
    <3>. QED BY <1>4, <3>1 DEF Next, Begin, SweepRead, vars, solverVars
  <2>3. ASSUME NEW r \in Runs
        PROVE  solver'[r] = solver[r]
                 \/ (solver[r] = "working" /\ solver'[r] = "reporting")
    BY <2>2 DEF Stop, Settle, PlanInv, TypeOK
  <2>. QED BY <2>1, <2>3, StillIs
<1>. QED BY <1>1, <1>2, <1>3, <1>4

LEMMA InitIs == Init => Life!Init
  BY DEF Init, Life!Init, engineOf

(* The requests on a plan and its solves behave, however they interleave   *)
(* and wherever they are cut, as indivisible steps on its rows             *)
(* (plan.service.ts:1212-2373).                                            *)
THEOREM PlansAreSerial == Spec => ImplementsPlanLife
<1>1. Init => Reports BY DEF Init, Reports
<1>2. Spec => [](PlanInv /\ LifeInv /\ Reports)
  BY <1>1, InitPlanInv, NextPlanInv, InitLifeInv, NextLifeInv, NextReports, PTL
  DEF Spec
<1>. QED BY <1>2, InitIs, StepIs, PTL DEF Spec, ImplementsPlanLife, Life!Spec
=============================================================================
