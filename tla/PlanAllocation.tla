--------------------------- MODULE PlanAllocation ---------------------------
(* How corrugator plans share production orders: what a plan may program    *)
(* of an order is what the order needs less what registered plans already   *)
(* program (services/corrugator/plan.service.ts, services/scheduling/       *)
(* pending.service.ts). CorrugatorPlan is one plan in detail; here several  *)
(* plans meet at the orders they have in common.                            *)
(*                                                                          *)
(* A registration is a transaction whose every lock and read is a step. An  *)
(* edit reads and checks first and writes later, on what it read; its write *)
(* and commit are one step, for another transaction sees nothing of it      *)
(* before. Requirements are counted in half sheets, since a route may ask   *)
(* for fractions of one.                                                    *)
EXTENDS Integers, FiniteSets

CONSTANTS
  Plans,
  Orders,      \* production orders
  Edited,      \* the lines that users edit, a bound for TLC
  Requests,    \* concurrent requests of users
  Quantity,    \* what an order needs, in half sheets: quantity * sheetsPerUnit
  Manual,      \* what it may be set to need by hand,
  ByHand,      \* and the percentages it may be given
  Sheets,      \* what the runs of a plan may program of an order,
  Most,        \* and no more
  Underrun, Overrun,   \* of the order's product, in percent
  Absolute, Relative,  \* ToleranciaProgramacion, ToleranciaRelativaProgramacion
  None

ASSUME QuantityAssumption ==
  /\ Quantity \in [Orders -> Nat] /\ Manual \subseteq Nat /\ ByHand \subseteq Nat
  /\ Most \in Nat /\ Sheets \subseteq 1 .. Most
  /\ Underrun \in [Orders -> Nat] /\ Overrun \in [Orders -> Nat]
  /\ Absolute \in Nat /\ Relative \in Nat
ASSUME EditedAssumption == Edited \subseteq Plans \X Orders
ASSUME PlansAssumption == IsFiniteSet(Plans)
ASSUME NoneAssumption == None \notin Requests /\ None \notin Plans /\ None \notin Orders

Registering == {"register", "force"}
Editing == {"add", "update", "remove", "adjust"}
Statuses == {"draft", "solving", "solved", "registered"}  \* failed is as draft

VARIABLES
  status,              \* of each plan
  lines,               \* the orders it has lines of
  terms,               \* of a line: requiredSheets, in halves, and percentages
  pending,             \* its .pendingSheets
  allocated,           \* .allocatedSheets, null as 0
  planned,             \* what the plan's combinations program
  ready,               \* an order is approved, not voided and not complete
  planLock, orderLock, \* FOR UPDATE
  job,                 \* what a request does
  reg,                 \* what a registration has read
  excepted             \* history: orders registered by force, or whose need or
                       \* overrun was set by hand

tables == <<status, lines, terms, pending, allocated, planned, ready, excepted>>
locks == <<planLock, orderLock>>
vars == <<tables, locks, job, reg>>

Terms == [required : Nat, underrun : Nat, overrun : Nat]
Blank == [required |-> 0, underrun |-> 0, overrun |-> 0]

Zero == [o \in Orders |-> 0]
Idle == [verb |-> "none", step |-> "idle", plan |-> None, order |-> None,
         status |-> "draft", pending |-> 0]
Nothing == [rows |-> {}, todo |-> {}, terms |-> [o \in Orders |-> Blank],
            pending |-> Zero, planned |-> Zero, netted |-> [q \in Plans |-> Zero]]
PerOrder == [Orders -> Nat]
Counts == [Orders -> 0 .. Most]

TypeOK ==
  /\ status \in [Plans -> Statuses]
  /\ lines \in [Plans -> SUBSET Orders]
  /\ terms \in [Plans -> [Orders -> Terms]]
  /\ pending \in [Plans -> PerOrder]
  /\ allocated \in [Plans -> Counts]
  /\ planned \in [Plans -> Counts]
  /\ ready \in [Orders -> BOOLEAN]
  /\ planLock \in [Plans -> Requests \cup {None}]
  /\ orderLock \in [Orders -> Requests \cup {None}]
  /\ job \in [Requests -> [verb : Registering \cup Editing \cup {"none"},
                           step : {"idle", "read", "locking", "netted"},
                           plan : Plans \cup {None}, order : Orders \cup {None},
                           status : Statuses, pending : Nat]]
  /\ reg \in [Requests -> [rows : SUBSET Orders, todo : SUBSET Orders,
                           terms : [Orders -> Terms], pending : PerOrder,
                           planned : Counts, netted : [Plans -> Counts]]]
  /\ excepted \subseteq Orders
  /\ \A r \in Requests :
       /\ job[r].step # "idle" => job[r].plan \in Plans
       /\ job[r].step = "read" => job[r].order \in Orders

-----------------------------------------------------------------------------
(* pending.service.ts, in half sheets. *)
Larger(x, y) == IF x >= y THEN x ELSE y

(* .NET's Math.Round: a half goes to the even neighbour. *)
RoundHalfEven(h) ==
  LET whole == h \div 2 IN IF h % 2 = 1 /\ whole % 2 = 1 THEN whole + 1 ELSE whole

Tolerated(t, x) ==
  LET band == Larger(200 * Absolute, t.required * (t.underrun + Relative))
  IN IF 100 * x <= band /\ 100 * x >= -band THEN 0 ELSE x

(* Mutant of PendingSheets: more may be allocated than is needed. *)
PendingSheetsUnclamped(t, taken) ==
  RoundHalfEven(Tolerated(t, t.required - 2 * taken))

PendingSheets(t, taken) ==
  Larger(0, RoundHalfEven(Tolerated(t, t.required - 2 * taken)))

(* The most a plan may program of an order of which n sheets are pending. *)
Limit(t, n) == (2 * n * (100 + t.overrun) + 100) \div 200

(* loadAllocatedElsewhereBatch: the rows it sums. Their sum is a count of   *)
(* sheets.                                                                  *)
Netted(q, o) ==
  IF status[q] = "registered" /\ o \in lines[q] THEN allocated[q][o] ELSE 0
Counted(netted, o, plans) ==
  Cardinality({sheet \in plans \X (1 .. Most) : sheet[2] <= netted[sheet[1]][o]})
Ledger == [q \in Plans |-> [o \in Orders |-> Netted(q, o)]]
Elsewhere(o, plans) == Counted(Ledger, o, plans)

-----------------------------------------------------------------------------
(* What a new line takes from its order and product. *)
Product(o) == [required |-> Quantity[o], underrun |-> Underrun[o], overrun |-> Overrun[o]]

(* createPlan: every plan starts with a line of every order. *)
Init ==
  /\ status = [p \in Plans |-> "draft"]
  /\ lines = [p \in Plans |-> Orders]
  /\ terms = [p \in Plans |-> [o \in Orders |-> Product(o)]]
  /\ pending = [p \in Plans |-> [o \in Orders |-> PendingSheets(Product(o), 0)]]
  /\ allocated = [p \in Plans |-> Zero]
  /\ planned = [p \in Plans |-> Zero]
  /\ ready = [o \in Orders |-> TRUE]
  /\ planLock = [p \in Plans |-> None]
  /\ orderLock = [o \in Orders |-> None]
  /\ job = [r \in Requests |-> Idle]
  /\ reg = [r \in Requests |-> Nothing]
  /\ excepted = {}

-----------------------------------------------------------------------------
(* register: the plan is locked and checked, and its lines are read. *)
Open(r, p, verb) ==
  /\ job[r].step = "idle"
  /\ planLock[p] = None /\ status[p] = "solved"
  /\ job' = [job EXCEPT ![r] = [Idle EXCEPT !.verb = verb, !.step = "locking", !.plan = p]]
  /\ reg' = [reg EXCEPT ![r] = [Nothing EXCEPT !.rows = lines[p], !.todo = lines[p],
                                               !.terms = terms[p],
                                               !.pending = pending[p]]]
  /\ planLock' = [planLock EXCEPT ![p] = r]
  /\ UNCHANGED <<tables, orderLock>>

(* Mutant of LockOrder: the orders are read without FOR UPDATE. *)
LockOrderForShare(r, o) ==
  /\ job[r].step = "locking" /\ o \in reg[r].todo
  /\ reg' = [reg EXCEPT ![r].todo = @ \ {o}]
  /\ UNCHANGED <<tables, locks, job>>

(* SELECT ... FROM production_orders ... FOR UPDATE, a row at a time and in *)
(* no order.                                                                *)
LockOrder(r, o) ==
  /\ job[r].step = "locking" /\ o \in reg[r].todo
  /\ orderLock[o] = None
  /\ orderLock' = [orderLock EXCEPT ![o] = r]
  /\ reg' = [reg EXCEPT ![r].todo = @ \ {o}]
  /\ UNCHANGED <<tables, planLock, job>>

(* Mutant of Admissible: what was pending when the line was seeded counts.  *)
AdmissibleAsSeeded(r, o, now, n) == n <= Limit(reg[r].terms[o], reg[r].pending[o])

(* Nothing changed since the plan was made, and the runs are within limits. *)
Admissible(r, o, now, n) == now = reg[r].pending[o] /\ n <= Limit(reg[r].terms[o], now)

(* With its orders locked and found ready, it reads what the combinations   *)
(* program and what other plans have allocated. Unless forced, it goes on   *)
(* only if nothing pending has changed since and nothing is over its limit. *)
Net(r) ==
  LET p == job[r].plan
      now == [o \in Orders |-> IF o \in reg[r].rows
                THEN PendingSheets(reg[r].terms[o], Elsewhere(o, Plans \ {p}))
                ELSE 0]
      runs == [o \in Orders |-> IF o \in reg[r].rows THEN planned[p][o] ELSE 0]
  IN /\ job[r].step = "locking" /\ reg[r].todo = {}
     /\ \A o \in reg[r].rows : ready[o]
     /\ job[r].verb = "force"
          \/ \A o \in reg[r].rows : Admissible(r, o, now[o], runs[o])
     /\ job' = [job EXCEPT ![r].step = "netted"]
     /\ reg' = [reg EXCEPT ![r].pending = now, ![r].planned = runs, ![r].netted = Ledger]
     /\ UNCHANGED <<tables, locks>>

Unlocked(lock, r) == [x \in DOMAIN lock |-> IF lock[x] = r THEN None ELSE lock[x]]
End(r) ==
  /\ job' = [job EXCEPT ![r] = Idle]
  /\ reg' = [reg EXCEPT ![r] = Nothing]
  /\ planLock' = Unlocked(planLock, r)
  /\ orderLock' = Unlocked(orderLock, r)

(* setAllocation on each line, and the response, which commits. *)
Register(r) ==
  LET p == job[r].plan
      written == reg[r].rows \cap lines[p]
      Write(field, value) == [field EXCEPT ![p] =
        [o \in Orders |-> IF o \in written THEN value[o] ELSE field[p][o]]]
  IN /\ job[r].step = "netted"
     /\ status' = [status EXCEPT ![p] = "registered"]
     /\ allocated' = Write(allocated, reg[r].planned)
     /\ pending' = Write(pending, reg[r].pending)
     /\ excepted' = IF job[r].verb = "force" THEN excepted \cup written ELSE excepted
     /\ End(r)
     /\ UNCHANGED <<lines, terms, planned, ready>>

(* A refusal, a deadlock's victim, an error or a client that went away.     *)
Abort(r) == job[r].step # "idle" /\ End(r) /\ UNCHANGED tables

-----------------------------------------------------------------------------
(* An edit's read and its check. An added order is seeded from what is      *)
(* pending of it then.                                                      *)
Read(r, p, o, verb) ==
  LET left == PendingSheets(Product(o), Elsewhere(o, Plans)) IN
  /\ job[r].step = "idle"
  /\ status[p] \in IF verb = "adjust" THEN {"solved"} ELSE {"draft", "solved"}
  /\ verb = "add" => o \notin lines[p] /\ ready[o] /\ left > 0
  /\ job' = [job EXCEPT ![r] = [verb |-> verb, step |-> "read", plan |-> p, order |-> o,
               status |-> status[p], pending |-> IF verb = "add" THEN left ELSE 0]]
  /\ UNCHANGED <<tables, locks, reg>>

(* invalidateIfNeeded, by the status that was read. *)
Invalidated(p, was) ==
  IF was = "solved"
  THEN /\ planLock[p] = None
       /\ status' = [status EXCEPT ![p] = "draft"]
       /\ planned' = [planned EXCEPT ![p] = Zero]
  ELSE UNCHANGED <<status, planned>>

Done(r) == job' = [job EXCEPT ![r] = Idle] /\ UNCHANGED <<locks, reg, ready>>

(* The reference of the new line waits for both locks. *)
Add(r) ==
  LET p == job[r].plan  o == job[r].order IN
  /\ job[r].step = "read" /\ job[r].verb = "add"
  /\ planLock[p] = None /\ orderLock[o] = None /\ o \notin lines[p]
  /\ lines' = [lines EXCEPT ![p] = @ \cup {o}]
  /\ terms' = [terms EXCEPT ![p][o] = Product(o)]
  /\ pending' = [pending EXCEPT ![p][o] = job[r].pending]
  /\ Invalidated(p, job[r].status)
  /\ Done(r)
  /\ UNCHANGED <<allocated, excepted>>

(* What an update may make of a line. *)
SetByHand(t) == [required : Manual \cup {t.required}, underrun : ByHand \cup {t.underrun},
                 overrun : ByHand \cup {t.overrun}]

(* Of what an update may set, the percentages change the tolerance and the  *)
(* limit, and the sheets per unit what is needed: these alone net again,    *)
(* all registered plans, its own too. A new percentage leaves what is       *)
(* pending as it was.                                                       *)
Update(r) ==
  LET p == job[r].plan  o == job[r].order IN
  /\ job[r].step = "read" /\ job[r].verb = "update" /\ o \in lines[p]
  /\ \E t \in SetByHand(terms[p][o]) :
       /\ terms' = [terms EXCEPT ![p][o] = t]
       /\ \/ t.required = terms[p][o].required /\ UNCHANGED pending
          \/ /\ t.required \in Manual
             /\ pending' = [pending EXCEPT ![p][o] = PendingSheets(t, Elsewhere(o, Plans))]
       /\ excepted' = IF t.required = Quantity[o] /\ t.overrun = Overrun[o]
                      THEN excepted ELSE excepted \cup {o}
  /\ Invalidated(p, job[r].status)
  /\ Done(r)
  /\ UNCHANGED <<lines, allocated>>

Remove(r) ==
  LET p == job[r].plan  o == job[r].order
      Without(field) == [field EXCEPT ![p][o] = 0]
  IN /\ job[r].step = "read" /\ job[r].verb = "remove" /\ o \in lines[p]
     /\ lines' = [lines EXCEPT ![p] = @ \ {o}]
     /\ terms' = [terms EXCEPT ![p][o] = Blank]
     /\ pending' = Without(pending)
     /\ allocated' = Without(allocated)
     /\ IF job[r].status = "solved" THEN Invalidated(p, "solved")
        ELSE planned' = Without(planned) /\ UNCHANGED status
     /\ Done(r)
     /\ UNCHANGED excepted

(* A combination is added, changed or deleted by hand. *)
Adjust(r) ==
  LET p == job[r].plan  o == job[r].order IN
  /\ job[r].step = "read" /\ job[r].verb = "adjust" /\ o \in lines[p]
  /\ \E n \in Sheets : planned' = [planned EXCEPT ![p][o] = n]
  /\ Done(r)
  /\ UNCHANGED <<status, lines, terms, pending, allocated, excepted>>

-----------------------------------------------------------------------------
(* Transactions that read and write at once. A solve drops the combinations *)
(* it replaces; its outcome, or a cancel, finds the plan solving.           *)
Becomes(p, before, after, runs) ==
  /\ planLock[p] = None /\ status[p] \in before
  /\ status' = [status EXCEPT ![p] = after]
  /\ planned' = [planned EXCEPT ![p] = runs]
  /\ UNCHANGED <<lines, terms, pending, ready, excepted, locks, job, reg>>

StartSolve(p) ==
  lines[p] # {} /\ Becomes(p, {"draft", "solved"}, "solving", Zero) /\ UNCHANGED allocated

CompleteSolve(p) ==
  /\ \/ Becomes(p, {"solving"}, "draft", Zero)
     \/ \E runs \in [Orders -> Sheets \cup {0}] :
          /\ \A o \in Orders \ lines[p] : runs[o] = 0
          /\ Becomes(p, {"solving"}, "solved", runs)
  /\ UNCHANGED allocated

Unregister(p) ==
  /\ Becomes(p, {"registered"}, "solved", planned[p])
  /\ allocated' = [allocated EXCEPT ![p] = Zero]

(* An order is approved, voided, completed, or one of these is taken back.  *)
Switch(o) ==
  /\ orderLock[o] = None
  /\ ready' = [ready EXCEPT ![o] = ~@]
  /\ UNCHANGED <<status, lines, terms, pending, allocated, planned, excepted, locks,
                 job, reg>>

Step(r) ==
  \/ \E p \in Plans : \E verb \in Registering : Open(r, p, verb)
  \/ \E o \in Orders : LockOrder(r, o)
  \/ Net(r) \/ Register(r) \/ Abort(r)
  \/ \E line \in Edited : \E verb \in Editing : Read(r, line[1], line[2], verb)
  \/ Add(r) \/ Update(r) \/ Remove(r) \/ Adjust(r)

Next ==
  \/ \E r \in Requests : Step(r)
  \/ \E p \in Plans : StartSolve(p) \/ CompleteSolve(p) \/ Unregister(p)
  \/ \E o \in Orders : Switch(o)

Spec == Init /\ [][Next]_vars

-----------------------------------------------------------------------------
(* plan.service.ts:2253-2314: however registrations, edits and solves of    *)
(* different plans interleave, registered plans program together no more of *)
(* an order than it needs, rounded up, and its overrun, unless one of them  *)
(* was forced, or its line's need or overrun was set by hand. An underrun   *)
(* set by hand does not excuse it.                                          *)
OrderNotOverbooked ==
  \A o \in Orders \ excepted :
    Elsewhere(o, Plans) <= Limit(Product(o), (Quantity[o] + 1) \div 2)

(* plan.service.ts:2219-2228: when a registration commits, each of its      *)
(* orders is still ready, and no plan programs more of them by then than it *)
(* has netted.                                                              *)
RegistrationStands ==
  [][\A r \in Requests : Register(r) =>
       \A o \in lines[job[r].plan] :
         /\ ready[o]
         /\ \A q \in Plans \ {job[r].plan} : Netted(q, o) <= reg[r].netted[q][o]]_vars
=============================================================================
