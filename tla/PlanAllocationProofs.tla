------------------------ MODULE PlanAllocationProofs ------------------------
(* Proofs about PlanAllocation, for any plans, orders, requests, quantities *)
(* and tolerances: its type invariant, that a registration still stands     *)
(* when it commits, and that an order is not overbooked.                    *)
EXTENDS PlanAllocation, FiniteSetTheorems, TLAPS

USE NoneAssumption

-----------------------------------------------------------------------------
(* Rounding and limits. *)

LEMMA ProductType == \A o \in Orders : Product(o) \in Terms
BY QuantityAssumption DEF Product, Terms

LEMMA PendingType ==
  ASSUME NEW t \in Terms, NEW taken \in Nat
  PROVE  PendingSheets(t, taken) \in Nat
<1>1. t.required \in Nat
  BY DEF Terms
<1> QED
  BY <1>1 DEF PendingSheets, RoundHalfEven, Tolerated, Larger

(* What is pending, with what is taken, rounds the need up at most.         *)
LEMMA PendingBound ==
  ASSUME NEW t \in Terms, NEW taken \in Nat,
         PendingSheets(t, taken) > 0
  PROVE  taken + PendingSheets(t, taken) <= (t.required + 1) \div 2
<1> DEFINE h == t.required - 2 * taken
<1>0. t.required \in Nat
  BY DEF Terms
<1>1. h \in Int
  BY <1>0
<1>2. 2 * RoundHalfEven(h) <= h + 1 /\ RoundHalfEven(0) = 0
  BY <1>1 DEF RoundHalfEven
<1>3. Tolerated(t, h) = 0 \/ Tolerated(t, h) = h
  BY DEF Tolerated
<1>4. RoundHalfEven(h) \in Int
  BY <1>1 DEF RoundHalfEven
<1>5. PendingSheets(t, taken) = Larger(0, RoundHalfEven(Tolerated(t, h)))
  BY DEF PendingSheets
<1>6. PendingSheets(t, taken) = RoundHalfEven(h)
  BY <1>2, <1>3, <1>4, <1>5 DEF Larger
<1> HIDE DEF h
<1>7. h = t.required - 2 * taken
  BY DEF h
<1> QED
  BY <1>0, <1>1, <1>2, <1>4, <1>6, <1>7

(* What a registration programs, with what is taken, is within the limit of *)
(* what the order needs.                                                    *)
LEMMA LimitBound ==
  ASSUME NEW t \in Terms, NEW taken \in Nat, NEW m \in Nat, NEW n \in Nat,
         NEW whole \in Nat, taken + m <= whole, n <= Limit(t, m)
  PROVE  taken + n <= Limit(t, whole)
<1> DEFINE v == t.overrun
<1>1. v \in Nat
  BY DEF Terms
<1>2. 200 * n <= 2 * m * (100 + v) + 100
  BY <1>1 DEF Limit
<1> HIDE DEF v
<1>3. PICK k \in Nat : taken + m + k = whole
  <2> whole - (taken + m) \in Nat /\ taken + m + (whole - (taken + m)) = whole
    OBVIOUS
  <2> QED
    OBVIOUS
<1>4. taken * v \in Nat /\ m * v \in Nat /\ k * v \in Nat
  BY <1>1
<1>5. whole * v = taken * v + m * v + k * v
  BY <1>1, <1>3
<1>6. 2 * m * (100 + v) = 200 * m + 2 * (m * v)
  BY <1>1
<1>7. 2 * whole * (100 + v) = 200 * whole + 2 * (whole * v)
  BY <1>1
<1> DEFINE a == 2 * whole * (100 + v) + 100
<1>8. a \in Nat /\ 200 * (taken + n) <= a
  BY <1>1, <1>2, <1>3, <1>4, <1>5, <1>6, <1>7
<1>9. Limit(t, whole) = a \div 200
  BY DEF Limit, v
<1> HIDE DEF a
<1> QED
  BY <1>8, <1>9

LEMMA LimitType ==
  ASSUME NEW t \in Terms, NEW n \in Nat
  PROVE  Limit(t, n) \in Nat
<1>1. 2 * n * (100 + t.overrun) \in Nat
  BY DEF Terms
<1> QED
  BY <1>1 DEF Limit

-----------------------------------------------------------------------------
(* Counting what plans program of an order. *)

Book == [Plans -> Counts]

Programmed(f, o, plans) == {sheet \in plans \X (1 .. Most) : sheet[2] <= f[sheet[1]][o]}

LEMMA CountedFinite ==
  ASSUME NEW f, NEW o, NEW plans \in SUBSET Plans
  PROVE  /\ IsFiniteSet(Programmed(f, o, plans))
         /\ Counted(f, o, plans) = Cardinality(Programmed(f, o, plans))
         /\ Counted(f, o, plans) \in Nat
<1>1. IsFiniteSet(plans)
  BY PlansAssumption, FS_Subset
<1>2. IsFiniteSet(1 .. Most)
  BY QuantityAssumption, FS_Interval
<1>3. IsFiniteSet(plans \X (1 .. Most))
  BY <1>1, <1>2, FS_Product
<1>4. Programmed(f, o, plans) \in SUBSET (plans \X (1 .. Most))
  BY DEF Programmed
<1>5. IsFiniteSet(Programmed(f, o, plans))
  BY <1>3, <1>4, FS_Subset
<1>6. Counted(f, o, plans) = Cardinality(Programmed(f, o, plans))
  BY DEF Counted, Programmed
<1> QED
  BY <1>5, <1>6, FS_CardinalityType

(* Fewer plans that program less each program less together.                *)
LEMMA CountedMonotone ==
  ASSUME NEW f \in Book, NEW g \in Book, NEW o \in Orders,
         NEW fewer \in SUBSET Plans, NEW plans \in SUBSET Plans,
         fewer \subseteq plans, \A q \in fewer : f[q][o] <= g[q][o]
  PROVE  Counted(f, o, fewer) <= Counted(g, o, plans)
<1>1. ASSUME NEW sheet \in Programmed(f, o, fewer)
      PROVE  sheet \in Programmed(g, o, plans)
  <2>1. PICK q \in fewer, n \in 1 .. Most : sheet = <<q, n>>
    BY DEF Programmed
  <2>2. n <= f[q][o]
    BY <2>1 DEF Programmed
  <2>3. f[q][o] \in 0 .. Most /\ g[q][o] \in 0 .. Most /\ f[q][o] <= g[q][o]
    BY <2>1 DEF Book, Counts
  <2>4. n <= g[q][o]
    BY <2>2, <2>3, QuantityAssumption
  <2> QED
    BY <2>1, <2>4 DEF Programmed
<1>2. Programmed(f, o, fewer) \in SUBSET Programmed(g, o, plans)
  BY <1>1
<1>3. Cardinality(Programmed(f, o, fewer)) <= Cardinality(Programmed(g, o, plans))
  BY <1>2, CountedFinite, FS_Subset
<1> QED
  BY <1>3, CountedFinite

(* One of the plans counted apart. *)
LEMMA CountedApart ==
  ASSUME NEW f \in Book, NEW o \in Orders, NEW p \in Plans
  PROVE  Counted(f, o, Plans) = Counted(f, o, Plans \ {p}) + f[p][o]
<1>1. f[p][o] \in 0 .. Most /\ f[p][o] \in Nat /\ Most \in Nat
  BY QuantityAssumption DEF Book, Counts
<1>2. Programmed(f, o, {p}) = {p} \X (1 .. f[p][o])
  <2>1. ASSUME NEW sheet \in Programmed(f, o, {p}) PROVE sheet \in {p} \X (1 .. f[p][o])
    <3>1. PICK n \in 1 .. Most : sheet = <<p, n>>
      BY DEF Programmed
    <3>2. n <= f[p][o]
      BY <3>1 DEF Programmed
    <3> QED
      BY <3>1, <3>2, <1>1
  <2>2. ASSUME NEW sheet \in {p} \X (1 .. f[p][o]) PROVE sheet \in Programmed(f, o, {p})
    <3>1. PICK n \in 1 .. f[p][o] : sheet = <<p, n>>
      OBVIOUS
    <3>2. n \in 1 .. Most /\ n <= f[p][o]
      BY <1>1
    <3> QED
      BY <3>1, <3>2 DEF Programmed
  <2> QED
    BY <2>1, <2>2
<1>3. Cardinality(Programmed(f, o, {p})) = f[p][o]
  <2>1. IsFiniteSet({p}) /\ Cardinality({p}) = 1
    BY FS_Singleton
  <2> DEFINE k == f[p][o]
  <2> HIDE DEF k
  <2>2. k \in Nat
    BY <1>1 DEF k
  <2>3. IsFiniteSet(1 .. k) /\ Cardinality(1 .. k) = (IF 1 > k THEN 0 ELSE k - 1 + 1)
    BY <2>2, FS_Interval
  <2>4. Cardinality(1 .. k) = k
    BY <2>2, <2>3
  <2>5. Cardinality({p} \X (1 .. k)) = Cardinality({p}) * Cardinality(1 .. k)
    BY <2>1, <2>3, FS_Product
  <2>6. Cardinality({p} \X (1 .. k)) = k
    BY <2>1, <2>2, <2>4, <2>5
  <2> QED
    BY <1>2, <2>6 DEF k
<1>4. /\ Programmed(f, o, Plans) = Programmed(f, o, Plans \ {p}) \cup Programmed(f, o, {p})
      /\ Programmed(f, o, Plans \ {p}) \cap Programmed(f, o, {p}) = {}
  BY DEF Programmed
<1>5. /\ IsFiniteSet(Programmed(f, o, {p}))
      /\ IsFiniteSet(Programmed(f, o, Plans \ {p}))
  BY CountedFinite
<1>6. Cardinality(Programmed(f, o, Plans))
        = Cardinality(Programmed(f, o, Plans \ {p})) + Cardinality(Programmed(f, o, {p}))
          - Cardinality({})
  <2> DEFINE rest == Programmed(f, o, Plans \ {p})
             own  == Programmed(f, o, {p})
  <2>1. IsFiniteSet(rest) /\ IsFiniteSet(own)
    BY <1>5
  <2>2. rest \cap own = {} /\ Programmed(f, o, Plans) = rest \cup own
    BY <1>4
  <2> HIDE DEF rest, own
  <2>3. Cardinality(rest \cup own)
          = Cardinality(rest) + Cardinality(own) - Cardinality(rest \cap own)
    BY <2>1, FS_Union
  <2>4. Cardinality(Programmed(f, o, Plans)) = Cardinality(rest) + Cardinality(own) - Cardinality({})
    BY <2>2, <2>3
  <2> QED
    BY <2>4 DEF rest, own
<1>7. /\ Counted(f, o, Plans) = Cardinality(Programmed(f, o, Plans))
      /\ Counted(f, o, Plans \ {p}) = Cardinality(Programmed(f, o, Plans \ {p}))
      /\ Counted(f, o, Plans \ {p}) \in Nat
  BY CountedFinite
<1> QED
  BY <1>1, <1>3, <1>6, <1>7, FS_EmptySet

-----------------------------------------------------------------------------
(* Types. *)

JobType ==
  [verb : Registering \cup Editing \cup {"none"}, step : {"idle", "read", "locking", "netted"},
   plan : Plans \cup {None}, order : Orders \cup {None}, status : Statuses, pending : Nat]
RegType ==
  [rows : SUBSET Orders, todo : SUBSET Orders, terms : [Orders -> Terms], pending : PerOrder,
   planned : Counts, netted : Book]

(* A request at work is at work on a plan, an edit on a line. *)
Aimed ==
  \A r \in Requests :
    /\ job[r].step # "idle" => job[r].plan \in Plans
    /\ job[r].step = "read" => job[r].order \in Orders

LEMMA ZeroType == Zero \in Counts /\ Zero \in PerOrder
BY QuantityAssumption DEF Zero, Counts, PerOrder

LEMMA BlankType == Blank \in Terms
BY DEF Blank, Terms

LEMMA HandType == \A t \in Terms : SetByHand(t) \subseteq Terms
BY QuantityAssumption DEF SetByHand, Terms

LEMMA IdleType == Idle \in JobType
BY DEF Idle, JobType, Statuses

LEMMA NothingType == Nothing \in RegType
<1>1. [q \in Plans |-> Zero] \in Book
  BY ZeroType DEF Book
<1> QED
  BY <1>1, ZeroType, BlankType DEF Nothing, RegType

(* What plans program, as a registration nets it. *)
LEMMA LedgerType == TypeOK => Ledger \in Book
<1> SUFFICES ASSUME TypeOK PROVE Ledger \in Book
  OBVIOUS
<1>1. ASSUME NEW q \in Plans, NEW o \in Orders
      PROVE  Netted(q, o) \in 0 .. Most
  BY QuantityAssumption DEF TypeOK, Netted, Counts
<1> QED
  BY <1>1 DEF Ledger, Book, Counts

LEMMA LedgerTypeNext == TypeOK' => Ledger' \in Book
<1> SUFFICES ASSUME TypeOK' PROVE Ledger' \in Book
  OBVIOUS
<1>1. ASSUME NEW q \in Plans, NEW o \in Orders
      PROVE  Netted(q, o)' \in 0 .. Most
  BY QuantityAssumption DEF TypeOK, Netted, Counts
<1> QED
  BY <1>1 DEF Ledger, Book, Counts

LEMMA ElsewhereType ==
  ASSUME NEW o, NEW plans \in SUBSET Plans
  PROVE  Elsewhere(o, plans) \in Nat
BY CountedFinite DEF Elsewhere

LEMMA EndType ==
  ASSUME TypeOK, NEW r \in Requests, End(r)
  PROVE  /\ job' = [job EXCEPT ![r] = Idle]
         /\ job' \in [Requests -> JobType] /\ reg' \in [Requests -> RegType]
         /\ planLock' \in [Plans -> Requests \cup {None}]
         /\ orderLock' \in [Orders -> Requests \cup {None}]
         /\ Aimed'
<1>1. job \in [Requests -> JobType] /\ reg \in [Requests -> RegType]
  BY DEF TypeOK, JobType, RegType, Book, Aimed
<1>2. job' \in [Requests -> JobType] /\ reg' \in [Requests -> RegType]
  BY <1>1, IdleType, NothingType DEF End
<1>3. /\ planLock' \in [Plans -> Requests \cup {None}]
      /\ orderLock' \in [Orders -> Requests \cup {None}]
  BY DEF End, Unlocked, TypeOK, Aimed
<1>4. Aimed'
  BY DEF End, TypeOK, Idle, Aimed
<1> QED
  BY <1>2, <1>3, <1>4 DEF End

LEMMA InitType == Init => TypeOK
<1> SUFFICES ASSUME Init PROVE TypeOK
  OBVIOUS
<1>1. job \in [Requests -> JobType] /\ reg \in [Requests -> RegType]
  BY IdleType, NothingType DEF Init
<1>2. pending \in [Plans -> PerOrder]
  BY PendingType, ProductType DEF Init, PerOrder
<1>3. terms \in [Plans -> [Orders -> Terms]]
  BY ProductType DEF Init
<1>4. /\ status \in [Plans -> Statuses] /\ lines \in [Plans -> SUBSET Orders]
      /\ allocated \in [Plans -> Counts] /\ planned \in [Plans -> Counts]
      /\ ready \in [Orders -> BOOLEAN] /\ excepted \subseteq Orders
      /\ planLock \in [Plans -> Requests \cup {None}]
      /\ orderLock \in [Orders -> Requests \cup {None}]
  BY ZeroType DEF Init, Statuses
<1>5. Aimed
  BY DEF Init, Idle, Aimed
<1> QED
  BY <1>1, <1>2, <1>3, <1>4, <1>5 DEF TypeOK, JobType, RegType, Book, Aimed

(* A step that touches only the plans' own columns. *)
LEMMA TypeStep == TypeOK /\ [Next]_vars => TypeOK'
<1> SUFFICES ASSUME TypeOK, [Next]_vars PROVE TypeOK'
  OBVIOUS
<1>0. job \in [Requests -> JobType] /\ reg \in [Requests -> RegType]
  BY DEF TypeOK, JobType, RegType, Book, Aimed
<1>1. CASE UNCHANGED vars
  BY <1>1 DEF TypeOK, vars, tables, locks, Aimed
<1>2. ASSUME NEW r \in Requests, NEW p \in Plans, NEW verb \in Registering, Open(r, p, verb)
      PROVE  TypeOK'
  <2>1. [Idle EXCEPT !.verb = verb, !.step = "locking", !.plan = p] \in JobType
    BY IdleType DEF JobType
  <2>2. [Nothing EXCEPT !.rows = lines[p], !.todo = lines[p], !.terms = terms[p],
                        !.pending = pending[p]] \in RegType
    BY NothingType DEF RegType, TypeOK, Aimed
  <2>3. job' \in [Requests -> JobType] /\ reg' \in [Requests -> RegType]
    BY <1>0, <1>2, <2>1, <2>2 DEF Open
  <2>4. Aimed'
    BY <1>2, <2>1, IdleType DEF Open, TypeOK, JobType, Aimed
  <2>5. planLock' \in [Plans -> Requests \cup {None}]
    BY <1>2 DEF Open, TypeOK, Aimed
  <2> QED
    BY <1>2, <2>3, <2>4, <2>5 DEF Open, TypeOK, tables, JobType, RegType, Book, Aimed
<1>3. ASSUME NEW r \in Requests, NEW o \in Orders, LockOrder(r, o)
      PROVE  TypeOK'
  <2>1. reg' \in [Requests -> RegType]
    BY <1>0, <1>3 DEF LockOrder, RegType
  <2>2. orderLock' \in [Orders -> Requests \cup {None}]
    BY <1>3 DEF LockOrder, TypeOK, Aimed
  <2> QED
    BY <1>3, <2>1, <2>2 DEF LockOrder, TypeOK, tables, RegType, Book, Aimed
<1>4. ASSUME NEW r \in Requests, Net(r)
      PROVE  TypeOK'
  <2> DEFINE p == job[r].plan
             now == [o \in Orders |-> IF o \in reg[r].rows
                THEN PendingSheets(reg[r].terms[o], Elsewhere(o, Plans \ {p})) ELSE 0]
             runs == [o \in Orders |-> IF o \in reg[r].rows THEN planned[p][o] ELSE 0]
  <2>1. p \in Plans
    BY <1>4 DEF Net, TypeOK, Aimed
  <2>2. now \in PerOrder
    <3>1. ASSUME NEW o \in Orders
          PROVE  PendingSheets(reg[r].terms[o], Elsewhere(o, Plans \ {p})) \in Nat
      <4>1. reg[r].terms[o] \in Terms
        BY DEF TypeOK, Aimed
      <4>2. Elsewhere(o, Plans \ {p}) \in Nat
        BY ElsewhereType
      <4> QED
        BY <4>1, <4>2, PendingType
    <3> QED
      BY <3>1 DEF PerOrder
  <2>3. runs \in Counts
    BY <2>1, QuantityAssumption DEF TypeOK, Counts, Aimed
  <2>4. Ledger \in Book
    BY LedgerType
  <2>5. reg' = [reg EXCEPT ![r].pending = now, ![r].planned = runs, ![r].netted = Ledger]
    BY <1>4 DEF Net
  <2>6. job' = [job EXCEPT ![r].step = "netted"] /\ UNCHANGED <<tables, locks>>
    BY <1>4 DEF Net
  <2> HIDE DEF now, runs
  <2>7. reg' \in [Requests -> RegType]
    <3>1. [reg[r] EXCEPT !.pending = now, !.planned = runs, !.netted = Ledger] \in RegType
      <4>1. reg[r] \in RegType
        BY <1>0
      <4> HIDE DEF Ledger
      <4> QED
        BY <2>2, <2>3, <2>4, <4>1 DEF RegType
    <3>2. reg' = [reg EXCEPT ![r] =
                    [reg[r] EXCEPT !.pending = now, !.planned = runs, !.netted = Ledger]]
      BY <1>0, <2>5
    <3> QED
      BY <1>0, <3>1, <3>2
  <2>8. job' \in [Requests -> JobType]
    BY <1>0, <2>6 DEF JobType
  <2>9. Aimed'
    BY <1>0, <2>1, <2>6 DEF TypeOK, Aimed
  <2> QED
    BY <2>6, <2>7, <2>8, <2>9 DEF TypeOK, tables, locks, JobType, RegType, Book, Aimed
<1>5. ASSUME NEW r \in Requests, Register(r)
      PROVE  TypeOK'
  <2> DEFINE p == job[r].plan
             written == reg[r].rows \cap lines[p]
             Written(field, value) == [field EXCEPT ![p] =
               [o \in Orders |-> IF o \in written THEN value[o] ELSE field[p][o]]]
  <2>1. p \in Plans
    BY <1>5 DEF Register, TypeOK, Aimed
  <2>2. /\ status' = [status EXCEPT ![p] = "registered"]
        /\ allocated' = Written(allocated, reg[r].planned)
        /\ pending' = Written(pending, reg[r].pending)
        /\ excepted' = IF job[r].verb = "force" THEN excepted \cup written ELSE excepted
        /\ End(r) /\ UNCHANGED <<lines, terms, planned, ready>>
    BY <1>5 DEF Register
  <2>3. Written(allocated, reg[r].planned) \in [Plans -> Counts]
    <3>1. reg[r].planned \in Counts /\ allocated \in [Plans -> Counts]
      BY DEF TypeOK, Aimed
    <3> QED
      BY <2>1, <3>1 DEF Counts
  <2>4. Written(pending, reg[r].pending) \in [Plans -> PerOrder]
    <3>1. reg[r].pending \in PerOrder /\ pending \in [Plans -> PerOrder]
      BY DEF TypeOK, Aimed
    <3> QED
      BY <2>1, <3>1 DEF PerOrder
  <2>5. status' \in [Plans -> Statuses] /\ excepted' \subseteq Orders
    BY <2>1, <2>2 DEF TypeOK, Statuses, Aimed
  <2> HIDE DEF Written
  <2> QED
    BY <2>2, <2>3, <2>4, <2>5, EndType DEF TypeOK, JobType, RegType, Book, Aimed
<1>6. ASSUME NEW r \in Requests, Abort(r)
      PROVE  TypeOK'
  BY <1>6, EndType DEF Abort, TypeOK, tables, JobType, RegType, Book, Aimed
<1>7. ASSUME NEW r \in Requests, NEW p \in Plans, NEW o \in Orders, NEW verb \in Editing,
             Read(r, p, o, verb)
      PROVE  TypeOK'
  <2> DEFINE left == PendingSheets(Product(o), Elsewhere(o, Plans))
             new == [verb |-> verb, step |-> "read", plan |-> p, order |-> o,
                     status |-> status[p], pending |-> IF verb = "add" THEN left ELSE 0]
  <2>1. left \in Nat
    <3>1. Product(o) \in Terms /\ Elsewhere(o, Plans) \in Nat
      BY ProductType, ElsewhereType
    <3> QED
      BY <3>1, PendingType
  <2>2. job' = [job EXCEPT ![r] = new] /\ UNCHANGED <<tables, locks, reg>>
    BY <1>7 DEF Read
  <2> HIDE DEF left
  <2>3. new \in JobType /\ new.plan \in Plans /\ new.order \in Orders
    BY <2>1 DEF JobType, TypeOK, Aimed
  <2> HIDE DEF new
  <2>4. job' \in [Requests -> JobType]
        /\ Aimed'
    BY <1>0, <2>2, <2>3 DEF TypeOK, Aimed
  <2> QED
    BY <2>2, <2>4 DEF TypeOK, tables, locks, JobType, Aimed
<1>8. ASSUME NEW r \in Requests, Done(r)
      PROVE  /\ job' \in [Requests -> JobType] /\ UNCHANGED <<locks, reg, ready>>
             /\ Aimed'
  BY <1>0, <1>8, IdleType DEF Done, TypeOK, Idle, Aimed
<1>9. ASSUME NEW p \in Plans, NEW was \in Statuses, Invalidated(p, was)
      PROVE  status' \in [Plans -> Statuses] /\ planned' \in [Plans -> Counts]
  <2>1. CASE was = "solved"
    <3>1. /\ status' = [status EXCEPT ![p] = "draft"]
          /\ planned' = [planned EXCEPT ![p] = Zero]
      BY <1>9, <2>1 DEF Invalidated
    <3>2. status \in [Plans -> Statuses] /\ planned \in [Plans -> Counts]
      BY DEF TypeOK
    <3>3. "draft" \in Statuses
      BY DEF Statuses
    <3> QED
      BY <3>1, <3>2, <3>3, ZeroType
  <2>2. CASE was # "solved"
    BY <1>9, <2>2 DEF Invalidated, TypeOK
  <2> QED
    BY <2>1, <2>2
<1>10. ASSUME NEW r \in Requests, Add(r)
       PROVE  TypeOK'
  <2> DEFINE p == job[r].plan  o == job[r].order
  <2>1. p \in Plans /\ job[r].status \in Statuses /\ job[r].pending \in Nat
    BY <1>10 DEF Add, TypeOK, Aimed
  <2>2. /\ lines' = [lines EXCEPT ![p] = @ \cup {o}]
        /\ terms' = [terms EXCEPT ![p][o] = Product(o)]
        /\ pending' = [pending EXCEPT ![p][o] = job[r].pending]
        /\ Invalidated(p, job[r].status) /\ Done(r) /\ UNCHANGED <<allocated, excepted>>
    BY <1>10 DEF Add
  <2>3. o \in Orders
    BY <1>10 DEF Add, TypeOK
  <2>4. lines' \in [Plans -> SUBSET Orders]
    BY <2>1, <2>2, <2>3 DEF TypeOK, Aimed
  <2>5. terms' \in [Plans -> [Orders -> Terms]] /\ pending' \in [Plans -> PerOrder]
    BY <2>1, <2>2, <2>3, ProductType DEF TypeOK, PerOrder, Aimed
  <2> QED
    BY <1>8, <1>9, <2>1, <2>2, <2>4, <2>5 DEF TypeOK, JobType, locks, Aimed
<1>11. ASSUME NEW r \in Requests, Update(r)
       PROVE  TypeOK'
  <2> DEFINE p == job[r].plan  o == job[r].order
  <2>1. p \in Plans /\ o \in Orders /\ job[r].status \in Statuses
    BY <1>11 DEF Update, TypeOK
  <2>2. /\ \E t \in SetByHand(terms[p][o]) :
             /\ terms' = [terms EXCEPT ![p][o] = t]
             /\ \/ UNCHANGED pending
                \/ pending' = [pending EXCEPT ![p][o] = PendingSheets(t, Elsewhere(o, Plans))]
        /\ excepted' \subseteq excepted \cup {o}
        /\ Invalidated(p, job[r].status) /\ Done(r) /\ UNCHANGED <<lines, allocated>>
    BY <1>11 DEF Update
  <2> HIDE DEF p, o
  <2>3. /\ terms' \in [Plans -> [Orders -> Terms]] /\ pending' \in [Plans -> PerOrder]
        /\ excepted' \subseteq Orders
    <3>1. PICK t \in SetByHand(terms[p][o]) :
            /\ terms' = [terms EXCEPT ![p][o] = t]
            /\ \/ UNCHANGED pending
               \/ pending' = [pending EXCEPT ![p][o] = PendingSheets(t, Elsewhere(o, Plans))]
      BY <2>2
    <3>2. t \in Terms /\ Elsewhere(o, Plans) \in Nat
      BY <2>1, ElsewhereType, HandType DEF TypeOK
    <3>3. PendingSheets(t, Elsewhere(o, Plans)) \in Nat
      BY <3>2, PendingType
    <3>4. terms' \in [Plans -> [Orders -> Terms]]
      BY <2>1, <3>1, <3>2 DEF TypeOK
    <3>5. pending' \in [Plans -> PerOrder]
      <4>1. pending \in [Plans -> [Orders -> Nat]]
        BY DEF TypeOK, PerOrder
      <4>2. ASSUME NEW n \in Nat, pending' = [pending EXCEPT ![p][o] = n]
            PROVE  pending' \in [Plans -> [Orders -> Nat]]
        BY <2>1, <4>1, <4>2
      <4> QED
        BY <3>1, <3>3, <4>1, <4>2 DEF PerOrder
    <3> QED
      BY <2>1, <2>2, <3>4, <3>5 DEF TypeOK
  <2> QED
    BY <1>8, <1>9, <2>1, <2>2, <2>3 DEF TypeOK, JobType, locks, Aimed
<1>12. ASSUME NEW r \in Requests, Remove(r)
       PROVE  TypeOK'
  <2> DEFINE p == job[r].plan  o == job[r].order
  <2>1. p \in Plans /\ o \in Orders
    BY <1>12 DEF Remove, TypeOK
  <2>2. /\ lines' = [lines EXCEPT ![p] = @ \ {o}]
        /\ terms' = [terms EXCEPT ![p][o] = Blank]
        /\ pending' = [pending EXCEPT ![p][o] = 0]
        /\ allocated' = [allocated EXCEPT ![p][o] = 0]
        /\ \/ Invalidated(p, "solved")
           \/ planned' = [planned EXCEPT ![p][o] = 0] /\ UNCHANGED status
        /\ Done(r) /\ UNCHANGED excepted
    BY <1>12 DEF Remove
  <2> HIDE DEF p, o
  <2>3. lines' \in [Plans -> SUBSET Orders]
    BY <2>1, <2>2 DEF TypeOK
  <2>4. terms' \in [Plans -> [Orders -> Terms]] /\ pending' \in [Plans -> PerOrder]
    BY <2>1, <2>2, BlankType DEF TypeOK, PerOrder
  <2>5. allocated' \in [Plans -> Counts]
    BY <2>1, <2>2, QuantityAssumption DEF TypeOK, Counts
  <2>6. status' \in [Plans -> Statuses] /\ planned' \in [Plans -> Counts]
    <3>1. CASE Invalidated(p, "solved")
      BY <1>9, <2>1, <3>1 DEF Statuses
    <3>2. CASE planned' = [planned EXCEPT ![p][o] = 0] /\ UNCHANGED status
      BY <2>1, <3>2, QuantityAssumption DEF TypeOK, Counts
    <3> QED
      BY <2>2, <3>1, <3>2
  <2> QED
    BY <1>8, <2>2, <2>3, <2>4, <2>5, <2>6 DEF TypeOK, JobType, locks, Aimed
<1>13. ASSUME NEW r \in Requests, Adjust(r)
       PROVE  TypeOK'
  <2> DEFINE p == job[r].plan  o == job[r].order
  <2>1. p \in Plans /\ o \in Orders
    BY <1>13 DEF Adjust, TypeOK
  <2>2. /\ \E n \in Sheets : planned' = [planned EXCEPT ![p][o] = n]
        /\ Done(r) /\ UNCHANGED <<status, lines, terms, pending, allocated, excepted>>
    BY <1>13 DEF Adjust
  <2> HIDE DEF p, o
  <2>3. planned' \in [Plans -> Counts]
    BY <2>1, <2>2, QuantityAssumption DEF TypeOK, Counts
  <2> QED
    BY <1>8, <2>2, <2>3 DEF TypeOK, JobType, locks, Aimed
<1>14. ASSUME NEW p \in Plans, StartSolve(p)
       PROVE  TypeOK'
  BY <1>14, ZeroType DEF StartSolve, Becomes, TypeOK, Statuses, locks
<1>15. ASSUME NEW p \in Plans, CompleteSolve(p)
       PROVE  TypeOK'
  <2>1. ASSUME NEW runs \in Counts, NEW after \in Statuses,
               Becomes(p, {"solving"}, after, runs)
        PROVE  TypeOK'
    BY <1>15, <2>1 DEF CompleteSolve, Becomes, TypeOK, locks
  <2>2. [Orders -> Sheets \cup {0}] \subseteq Counts
    <3>1. ASSUME NEW runs \in [Orders -> Sheets \cup {0}]
          PROVE  runs \in [Orders -> 0 .. Most]
      <4>1. Sheets \cup {0} \subseteq 0 .. Most
        BY QuantityAssumption
      <4> QED
        BY <4>1
    <3> QED
      BY <3>1 DEF Counts
  <2> QED
    BY <1>15, <2>1, <2>2, ZeroType DEF CompleteSolve, Statuses
<1>16. ASSUME NEW p \in Plans, Unregister(p)
       PROVE  TypeOK'
  <2>1. planned[p] \in Counts
    BY DEF TypeOK
  <2> QED
    BY <1>16, <2>1, ZeroType DEF Unregister, Becomes, TypeOK, Statuses, locks
<1>17. ASSUME NEW o \in Orders, Switch(o)
       PROVE  TypeOK'
  BY <1>17 DEF Switch, TypeOK, locks
<1>18. ASSUME NEW r \in Requests, NEW line \in Edited, NEW verb \in Editing,
              Read(r, line[1], line[2], verb)
       PROVE  TypeOK'
  BY <1>7, <1>18, EditedAssumption
<1> QED
  BY <1>1, <1>2, <1>3, <1>4, <1>5, <1>6, <1>10, <1>11, <1>12, <1>13, <1>14, <1>15, <1>16,
     <1>17, <1>18 DEF Next, Step

(* Every variable keeps its type. *)
THEOREM TypeInvariance == Spec => []TypeOK
BY InitType, TypeStep, PTL DEF Spec

-----------------------------------------------------------------------------
(* The inductive invariant. *)

(* Only lines of a plan have an allocation. *)
Unlined == \A q \in Plans : \A o \in Orders : o \notin lines[q] => allocated[q][o] = 0

(* A line needs what its order needs and may overrun as its product may,    *)
(* unless that was set by hand.                                             *)
AsProduct(t, o) == t.required = Quantity[o] /\ t.overrun = Overrun[o]
Seeded == \A q \in Plans : \A o \in lines[q] \ excepted : AsProduct(terms[q][o], o)

(* A registration holds its plan and the orders it went through, and knows  *)
(* the terms of their lines.                                                *)
Holding(r) ==
  /\ job[r].plan \in Plans
  /\ planLock[job[r].plan] = r
  /\ lines[job[r].plan] \subseteq reg[r].rows
  /\ \A o \in reg[r].rows \ reg[r].todo : orderLock[o] = r
  /\ \A o \in reg[r].rows \ excepted : AsProduct(reg[r].terms[o], o)

(* What it netted covers what the other plans program of its orders since,  *)
(* and, unless it is forced, what it is to program is within its limit.     *)
Covered(r) ==
  /\ reg[r].todo = {}
  /\ \A o \in reg[r].rows : ready[o]
  /\ \A o \in reg[r].rows : \A q \in Plans \ {job[r].plan} :
       Netted(q, o) <= reg[r].netted[q][o]
  /\ job[r].verb # "force" => \A o \in reg[r].rows \ excepted :
       reg[r].planned[o] <= Limit(Product(o), PendingSheets(reg[r].terms[o],
                              Counted(reg[r].netted, o, Plans \ {job[r].plan})))

Good(r) ==
  /\ job[r].step \in {"locking", "netted"} => Holding(r)
  /\ job[r].step = "netted" => Covered(r)

Inv ==
  /\ TypeOK /\ Unlined /\ Seeded /\ OrderNotOverbooked
  /\ \A r \in Requests : Good(r)

-----------------------------------------------------------------------------
(* All steps but a registration's commit are quiet: they allocate nothing.  *)
Quiet ==
  /\ \A q \in Plans : status'[q] = "registered" => status[q] = "registered"
  /\ \A q \in Plans : \A o \in Orders :
       /\ allocated'[q][o] = allocated[q][o] \/ allocated'[q][o] = 0
       /\ o \in lines[q] \ lines'[q] => allocated'[q][o] = 0
  /\ \A q \in Plans : \A o \in lines'[q] \ excepted' :
       \/ o \in lines[q] /\ terms'[q][o] = terms[q][o]
       \/ AsProduct(terms'[q][o], o)
  /\ excepted \subseteq excepted'

(* A step leaves alone what a request holds. *)
Keeps(s) ==
  /\ job'[s] = job[s] /\ reg'[s] = reg[s]
  /\ \A q \in Plans : planLock[q] = s => planLock'[q] = s /\ lines'[q] \subseteq lines[q]
  /\ \A o \in Orders : orderLock[o] = s => orderLock'[o] = s /\ ready'[o] = ready[o]

Lowered(o, plans) == \A q \in plans : Netted(q, o)' <= Netted(q, o)

LEMMA QuietLowers ==
  ASSUME TypeOK, Unlined, Quiet, NEW o \in Orders
  PROVE  Lowered(o, Plans)
<1>1. \A q \in Plans : allocated[q][o] \in Nat
  BY QuantityAssumption DEF TypeOK, Counts
<1> QED
  BY <1>1 DEF Quiet, Unlined, Netted, Lowered

LEMMA QuietStep ==
  ASSUME Inv, TypeOK', Quiet
  PROVE  Unlined' /\ Seeded' /\ OrderNotOverbooked'
<1>1. Unlined'
  BY DEF Inv, Quiet, Unlined
<1>2. Seeded'
  BY DEF Inv, Quiet, Seeded
<1>3. ASSUME NEW o \in Orders \ excepted'
      PROVE  Elsewhere(o, Plans)' <= Limit(Product(o), (Quantity[o] + 1) \div 2)
  <2>1. Ledger \in Book /\ Ledger' \in Book
    BY LedgerType, LedgerTypeNext DEF Inv
  <2>2. \A q \in Plans : Ledger'[q][o] <= Ledger[q][o]
    BY QuietLowers DEF Inv, Lowered, Ledger
  <2>3. Counted(Ledger', o, Plans) <= Counted(Ledger, o, Plans)
    BY <2>1, <2>2, CountedMonotone
  <2>4. Elsewhere(o, Plans) <= Limit(Product(o), (Quantity[o] + 1) \div 2)
    BY DEF Inv, OrderNotOverbooked, Quiet
  <2>5. Limit(Product(o), (Quantity[o] + 1) \div 2) \in Nat
    BY LimitType, ProductType, QuantityAssumption
  <2>6. Elsewhere(o, Plans)' = Counted(Ledger', o, Plans)
    BY DEF Elsewhere, Counted
  <2> QED
    BY <2>3, <2>4, <2>5, <2>6, CountedFinite DEF Elsewhere
<1> QED
  BY <1>1, <1>2, <1>3 DEF OrderNotOverbooked

LEMMA KeptStep ==
  ASSUME Inv, TypeOK', NEW s \in Requests, Keeps(s), excepted \subseteq excepted',
         \A o \in Orders : orderLock[o] = s => Lowered(o, Plans \ {job[s].plan})
  PROVE  Good(s)'
<1>1. ASSUME job[s].step \in {"locking", "netted"}
      PROVE  Holding(s)'
  <2>1. Holding(s) /\ reg[s].rows \subseteq Orders
    BY <1>1 DEF Inv, Good, TypeOK
  <2> QED
    BY <2>1 DEF Keeps, Holding
<1>2. ASSUME job[s].step = "netted"
      PROVE  Covered(s)'
  <2>1. Holding(s) /\ Covered(s) /\ reg[s].rows \subseteq Orders
    BY <1>2 DEF Inv, Good, TypeOK
  <2>2. \A o \in reg[s].rows : orderLock[o] = s
    BY <2>1 DEF Holding, Covered
  <2>3. ASSUME NEW o \in reg[s].rows, NEW q \in Plans \ {job[s].plan}
        PROVE  Netted(q, o)' <= reg[s].netted[q][o]
    <3>1. Netted(q, o)' <= Netted(q, o) /\ Netted(q, o) <= reg[s].netted[q][o]
      BY <2>1, <2>2 DEF Lowered, Covered
    <3>2. Netted(q, o)' \in Nat /\ Netted(q, o) \in Nat /\ reg[s].netted[q][o] \in Nat
      BY <2>1, QuantityAssumption DEF Inv, TypeOK, Counts, Netted
    <3> QED
      BY <3>1, <3>2
  <2>4. \A o \in reg[s].rows : ready'[o]
    BY <2>1, <2>2 DEF Keeps, Covered
  <2>5. job'[s] = job[s] /\ reg'[s] = reg[s]
    BY DEF Keeps
  <2> QED
    BY <2>1, <2>3, <2>4, <2>5 DEF Covered, Counted
<1> QED
  BY <1>1, <1>2 DEF Good, Keeps

(* A request that ends leaves alone what another holds. *)
LEMMA EndKeeps ==
  ASSUME TypeOK, NEW r \in Requests, End(r), UNCHANGED <<lines, ready>>
  PROVE  Good(r)' /\ \A s \in Requests \ {r} : Keeps(s)
<1>1. job'[r].step = "idle"
  BY DEF End, TypeOK, Idle
<1>2. ASSUME NEW s \in Requests \ {r}
      PROVE  Keeps(s)
  <2>1. job'[s] = job[s] /\ reg'[s] = reg[s]
    BY DEF End, TypeOK
  <2>2. /\ \A q \in Plans : planLock[q] = s => planLock'[q] = s
        /\ \A o \in Orders : orderLock[o] = s => orderLock'[o] = s
    BY DEF End, Unlocked, TypeOK
  <2> QED
    BY <2>1, <2>2 DEF Keeps
<1> QED
  BY <1>1, <1>2 DEF Good

(* An edit holds nothing when it is done. *)
LEMMA DoneKeeps ==
  ASSUME TypeOK, NEW r \in Requests, Done(r),
         \A q \in Plans : planLock[q] # None => lines'[q] \subseteq lines[q]
  PROVE  Good(r)' /\ \A s \in Requests \ {r} : Keeps(s)
<1>1. job'[r].step = "idle"
  BY DEF Done, TypeOK, Idle
<1>2. ASSUME NEW s \in Requests \ {r}
      PROVE  Keeps(s)
  <2>1. job'[s] = job[s] /\ reg'[s] = reg[s]
    BY DEF Done, TypeOK
  <2> QED
    BY <2>1 DEF Keeps, Done, locks
<1> QED
  BY <1>1, <1>2 DEF Good

LEMMA InvalidatedStatus ==
  ASSUME TypeOK, NEW p \in Plans, NEW was, Invalidated(p, was)
  PROVE  \A q \in Plans : status'[q] = "registered" => status[q] = "registered"
BY DEF Invalidated, TypeOK

(* What a registration commits leaves every order within its limit. *)
LEMMA RegisterStep ==
  ASSUME Inv, TypeOK', NEW r \in Requests, Register(r)
  PROVE  /\ Unlined' /\ Seeded' /\ OrderNotOverbooked'
         /\ excepted \subseteq excepted'
         /\ \A s \in Requests \ {r} : \A o \in Orders :
              orderLock[o] = s => Lowered(o, Plans)
<1>0. PICK p \in Plans : p = job[r].plan
  BY DEF Register, Inv, TypeOK
<1>1. /\ Holding(r) /\ Covered(r) /\ TypeOK
      /\ reg[r].rows \subseteq Orders /\ reg[r].planned \in Counts /\ reg[r].netted \in Book
      /\ Quantity \in [Orders -> Nat] /\ Most \in Nat
  BY QuantityAssumption DEF Register, Inv, Good, Holding, TypeOK, Book
<1>2. reg[r].rows \cap lines[p] = lines[p]
  BY <1>0, <1>1 DEF Holding
<1>3. /\ status' = [status EXCEPT ![p] = "registered"]
      /\ allocated' = [allocated EXCEPT ![p] =
           [o \in Orders |-> IF o \in lines[p] THEN reg[r].planned[o] ELSE allocated[p][o]]]
      /\ excepted' = IF job[r].verb = "force" THEN excepted \cup lines[p] ELSE excepted
      /\ UNCHANGED <<lines, terms, planned, ready>>
  BY <1>0, <1>2 DEF Register
<1>4. excepted \subseteq excepted'
  BY <1>3
<1>5. /\ \A q \in Plans \ {p} : status'[q] = status[q] /\ allocated'[q] = allocated[q]
      /\ \A o \in Orders : allocated'[p][o] =
           IF o \in lines[p] THEN reg[r].planned[o] ELSE allocated[p][o]
      /\ lines' = lines /\ terms' = terms
  BY <1>1, <1>2, <1>3 DEF TypeOK
<1>6. Unlined'
  BY <1>1, <1>5 DEF Inv, Unlined
<1>7. Seeded'
  BY <1>4, <1>5 DEF Inv, Seeded
<1>8. \A o \in Orders : \A q \in Plans \ {p} : Netted(q, o)' = Netted(q, o)
  BY <1>5 DEF Netted
<1>9. \A o \in Orders : Netted(p, o)' = IF o \in lines[p] THEN Netted(p, o)' ELSE 0
  BY <1>5 DEF Netted
<1>10. \A o \in lines[p] : Netted(p, o)' = reg[r].planned[o]
  BY <1>1, <1>3, <1>5 DEF Netted, TypeOK
<1>11. \A q \in Plans : \A o \in Orders : Netted(q, o) \in Nat /\ Netted(q, o)' \in Nat
  BY <1>1 DEF TypeOK, Counts, Netted
<1>12. ASSUME NEW o \in Orders \ lines[p]
       PROVE  Lowered(o, Plans)
  BY <1>8, <1>9, <1>11 DEF Lowered
<1>13. ASSUME NEW s \in Requests \ {r}, NEW o \in Orders, orderLock[o] = s
       PROVE  Lowered(o, Plans)
  <2>1. o \notin reg[r].rows
    BY <1>1, <1>13 DEF Holding, Covered
  <2>2. o \notin lines[p]
    BY <1>0, <1>1, <2>1 DEF Holding
  <2> QED
    BY <1>12, <2>2
<1>14. Ledger \in Book /\ Ledger' \in Book
  BY <1>1, LedgerType, LedgerTypeNext
<1>15. ASSUME NEW o \in Orders \ excepted'
       PROVE  Elsewhere(o, Plans)' <= Limit(Product(o), (Quantity[o] + 1) \div 2)
  <2> DEFINE whole == (Quantity[o] + 1) \div 2
             taken == Counted(reg[r].netted, o, Plans \ {p})
             before == Counted(Ledger, o, Plans)
             after == Counted(Ledger', o, Plans)
             rest == Counted(Ledger', o, Plans \ {p})
             n == reg[r].planned[o]
             t == reg[r].terms[o]
  <2>0. Product(o) \in Terms /\ t \in Terms
    BY <1>1, ProductType DEF TypeOK
  <2>1. Quantity[o] \in Nat /\ whole \in Nat /\ n \in Nat
    BY <1>1 DEF Counts
  <2>2. taken \in Nat /\ before \in Nat /\ after \in Nat /\ rest \in Nat
    BY CountedFinite
  <2>3. before <= Limit(Product(o), whole) /\ o \notin excepted
    BY <1>4 DEF Inv, OrderNotOverbooked, Elsewhere
  <2>4. Elsewhere(o, Plans)' = after
    BY DEF Elsewhere, Counted
  <2>5. Limit(Product(o), whole) \in Nat
    BY <2>0, <2>1, LimitType
  <2>6. CASE o \notin lines[p]
    <3>1. \A q \in Plans : Ledger'[q][o] <= Ledger[q][o]
      BY <1>12, <2>6 DEF Lowered, Ledger
    <3>2. after <= before
      BY <1>14, <3>1, CountedMonotone
    <3> QED
      BY <2>2, <2>3, <2>4, <2>5, <3>2
  <2>7. CASE o \in lines[p]
    <3>1. o \in reg[r].rows /\ job[r].verb # "force"
      BY <1>0, <1>1, <1>3, <2>7 DEF Holding
    <3>2. n <= Limit(Product(o), PendingSheets(t, taken)) /\ t.required = Quantity[o]
      BY <1>0, <1>1, <2>3, <3>1 DEF Covered, Holding, AsProduct
    <3>3. \A q \in Plans \ {p} : Ledger'[q][o] <= reg[r].netted[q][o]
      BY <1>0, <1>1, <1>8, <3>1 DEF Covered, Ledger
    <3>4. rest <= taken
      BY <1>1, <1>14, <3>3, CountedMonotone
    <3>5. Ledger'[p][o] = n
      BY <1>1, <1>10, <2>7 DEF Ledger
    <3>6. after = rest + n
      BY <1>1, <1>14, <3>5, CountedApart
    <3>7. \A q \in Plans \ {p} : Ledger'[q][o] <= Ledger[q][o]
      BY <1>8, <1>11 DEF Ledger
    <3>8. rest <= before
      BY <1>14, <3>7, CountedMonotone
    <3>9. PendingSheets(t, taken) \in Nat
      BY <2>0, <2>2, PendingType
    <3>10. CASE PendingSheets(t, taken) = 0
      <4>1. Limit(Product(o), 0) = 0
        <5>1. Product(o).overrun \in Nat
          BY <2>0 DEF Terms
        <5>2. 0 * (100 + Product(o).overrun) = 0
          BY <5>1
        <5> QED
          BY <5>1, <5>2 DEF Limit
      <4>2. n = 0
        BY <2>1, <3>2, <3>10, <4>1
      <4> HIDE DEF after, rest, before
      <4> QED
        BY <2>2, <2>3, <2>4, <2>5, <3>6, <3>8, <4>2
    <3>11. CASE PendingSheets(t, taken) > 0
      <4>1. taken + PendingSheets(t, taken) <= whole
        BY <2>0, <2>2, <3>2, <3>11, PendingBound
      <4>2. taken + n <= Limit(Product(o), whole)
        BY <2>0, <2>1, <2>2, <3>2, <3>9, <4>1, LimitBound
      <4> HIDE DEF after, rest, taken, n
      <4> QED
        BY <2>1, <2>2, <2>4, <2>5, <3>4, <3>6, <4>2
    <3> QED
      BY <3>9, <3>10, <3>11
  <2> QED
    BY <2>6, <2>7
<1>16. OrderNotOverbooked'
  BY <1>15 DEF OrderNotOverbooked
<1> QED
  BY <1>4, <1>6, <1>7, <1>13, <1>16

LEMMA InitInv == Init => Inv
<1> SUFFICES ASSUME Init PROVE Inv
  OBVIOUS
<1>1. TypeOK
  BY InitType
<1>2. Unlined /\ Seeded
  BY DEF Init, Unlined, Seeded, Zero, AsProduct, Product
<1>3. \A r \in Requests : Good(r)
  BY DEF Init, Good, Idle
<1>4. ASSUME NEW o \in Orders
      PROVE  Elsewhere(o, Plans) <= Limit(Product(o), (Quantity[o] + 1) \div 2)
  <2>1. Programmed(Ledger, o, Plans) = {}
    <3>1. \A q \in Plans : Ledger[q][o] = 0
      BY DEF Ledger, Netted, Init, Zero
    <3> QED
      BY <3>1 DEF Programmed
  <2>2. Elsewhere(o, Plans) = 0
    BY <2>1, CountedFinite, FS_EmptySet DEF Elsewhere
  <2>3. Limit(Product(o), (Quantity[o] + 1) \div 2) \in Nat
    BY LimitType, ProductType, QuantityAssumption
  <2> QED
    BY <2>2, <2>3
<1> QED
  BY <1>1, <1>2, <1>3, <1>4 DEF Inv, OrderNotOverbooked

(* A quiet step that keeps what other requests hold keeps the invariant. *)
LEMMA QuietKeeps ==
  ASSUME Inv, TypeOK', Quiet, NEW s \in Requests, Keeps(s)
  PROVE  Good(s)'
<1>1. \A o \in Orders : Lowered(o, Plans)
  BY QuietLowers DEF Inv
<1>2. \A o \in Orders : Lowered(o, Plans \ {job[s].plan})
  BY <1>1 DEF Lowered
<1> QED
  BY <1>2, KeptStep DEF Quiet

LEMMA InvStep == Inv /\ [Next]_vars => Inv'
<1> SUFFICES ASSUME Inv, [Next]_vars PROVE Inv'
  OBVIOUS
<1>t. TypeOK /\ TypeOK'
  BY TypeStep DEF Inv
<1>q. ASSUME Quiet, \A s \in Requests : Keeps(s) \/ Good(s)'
      PROVE  Inv'
  BY <1>t, <1>q, QuietStep, QuietKeeps DEF Inv
<1>1. CASE UNCHANGED vars
  <2>1. Quiet /\ \A s \in Requests : Keeps(s)
    BY <1>1, <1>t DEF Quiet, Keeps, Inv, Seeded, vars, tables, locks
  <2> QED
    BY <1>q, <2>1
<1>2. ASSUME NEW r \in Requests, NEW p \in Plans, NEW verb \in Registering, Open(r, p, verb)
      PROVE  Inv'
  <2>1. Quiet
    BY <1>2, <1>t DEF Quiet, Inv, Seeded, Open, tables
  <2>2. ASSUME NEW s \in Requests \ {r}
        PROVE  Keeps(s)
    BY <1>2, <1>t DEF Keeps, Open, tables, TypeOK
  <2>3. Good(r)'
    <3>1. /\ job'[r].plan = p /\ job'[r].step = "locking" /\ planLock'[p] = r
          /\ reg'[r].rows = lines[p] /\ reg'[r].todo = lines[p]
          /\ reg'[r].terms = terms[p] /\ UNCHANGED tables
      BY <1>2, <1>t DEF Open, TypeOK, Idle, Nothing
    <3>2. Holding(r)'
      BY <3>1 DEF Holding, tables, Inv, Seeded
    <3> QED
      BY <3>1, <3>2 DEF Good
  <2> QED
    BY <1>q, <2>1, <2>2, <2>3
<1>3. ASSUME NEW r \in Requests, NEW o \in Orders, LockOrder(r, o)
      PROVE  Inv'
  <2>1. Quiet
    BY <1>3, <1>t DEF Quiet, Inv, Seeded, LockOrder, tables
  <2>2. ASSUME NEW s \in Requests \ {r}
        PROVE  Keeps(s)
    BY <1>3, <1>t DEF Keeps, LockOrder, tables, TypeOK
  <2>3. Good(r)'
    <3>1. /\ job' = job /\ job[r].step = "locking" /\ planLock' = planLock /\ UNCHANGED tables
          /\ orderLock' = [orderLock EXCEPT ![o] = r]
          /\ reg'[r].rows = reg[r].rows /\ reg'[r].todo = reg[r].todo \ {o}
          /\ reg'[r].terms = reg[r].terms
      BY <1>3, <1>t DEF LockOrder, TypeOK
    <3>2. Holding(r) /\ reg[r].rows \subseteq Orders
      BY <3>1, <1>t DEF Inv, Good, TypeOK
    <3>3. Holding(r)'
      BY <1>t, <3>1, <3>2 DEF Holding, tables, TypeOK
    <3> QED
      BY <3>1, <3>3 DEF Good
  <2> QED
    BY <1>q, <2>1, <2>2, <2>3
<1>4. ASSUME NEW r \in Requests, Net(r)
      PROVE  Inv'
  <2>1. Quiet
    BY <1>4, <1>t DEF Quiet, Inv, Seeded, Net, tables
  <2>2. ASSUME NEW s \in Requests \ {r}
        PROVE  Keeps(s)
    BY <1>4, <1>t DEF Keeps, Net, tables, locks, TypeOK
  <2>3. Good(r)'
    <3> DEFINE p == job[r].plan
               now == [o \in Orders |-> IF o \in reg[r].rows
                  THEN PendingSheets(reg[r].terms[o], Elsewhere(o, Plans \ {p})) ELSE 0]
               runs == [o \in Orders |-> IF o \in reg[r].rows THEN planned[p][o] ELSE 0]
    <3>1. /\ job[r].step = "locking" /\ reg[r].todo = {} /\ \A o \in reg[r].rows : ready[o]
          /\ job[r].verb = "force" \/ \A o \in reg[r].rows : Admissible(r, o, now[o], runs[o])
          /\ job' = [job EXCEPT ![r].step = "netted"]
          /\ reg' = [reg EXCEPT ![r].pending = now, ![r].planned = runs, ![r].netted = Ledger]
          /\ UNCHANGED <<tables, locks>>
      BY <1>4 DEF Net
    <3> HIDE DEF now, runs
    <3>2. /\ job'[r].plan = p /\ job'[r].verb = job[r].verb /\ job'[r].step = "netted"
          /\ reg'[r].rows = reg[r].rows /\ reg'[r].todo = reg[r].todo
          /\ reg'[r].terms = reg[r].terms /\ reg'[r].planned = runs
          /\ reg'[r].netted = Ledger
      BY <1>t, <3>1 DEF TypeOK
    <3>3. Holding(r) /\ reg[r].rows \subseteq Orders
      BY <1>t, <3>1 DEF Inv, Good, TypeOK
    <3>4. Holding(r)'
      BY <3>1, <3>2, <3>3 DEF Holding, tables, locks
    <3>5. ASSUME NEW o \in reg[r].rows, NEW q \in Plans
          PROVE  Netted(q, o)' <= Ledger[q][o]
      <4>1. Netted(q, o)' = Netted(q, o)
        BY <3>1 DEF Netted, tables
      <4>2. Ledger[q][o] = Netted(q, o)
        BY <3>3 DEF Ledger
      <4>3. Netted(q, o) \in Nat
        BY <1>t, <3>3, QuantityAssumption DEF TypeOK, Counts, Netted
      <4> QED
        BY <4>1, <4>2, <4>3
    <3>6. ASSUME job[r].verb # "force", NEW o \in reg[r].rows \ excepted
          PROVE  runs[o] <= Limit(Product(o), PendingSheets(reg[r].terms[o],
                                     Counted(Ledger, o, Plans \ {p})))
      <4>1. runs[o] <= Limit(reg[r].terms[o], now[o])
        BY <3>1, <3>6 DEF Admissible
      <4>2. now[o] = PendingSheets(reg[r].terms[o], Elsewhere(o, Plans \ {p}))
        BY <3>3 DEF now
      <4>3. reg[r].terms[o].overrun = Product(o).overrun
        BY <3>3 DEF Holding, AsProduct, Product
      <4> QED
        BY <4>1, <4>2, <4>3 DEF Elsewhere, Limit
    <3>7. Covered(r)'
      <4>1. reg'[r].todo = {} /\ \A o \in reg'[r].rows : ready'[o]
        BY <3>1, <3>2 DEF tables
      <4>2. \A o \in reg'[r].rows : \A q \in Plans \ {job'[r].plan} :
              Netted(q, o)' <= reg'[r].netted[q][o]
        BY <3>2, <3>5
      <4>3. job'[r].verb # "force" => \A o \in reg'[r].rows \ excepted' :
              reg'[r].planned[o] <= Limit(Product(o), PendingSheets(reg'[r].terms[o],
                                      Counted(reg'[r].netted, o, Plans \ {job'[r].plan})))
        BY <3>1, <3>2, <3>6 DEF tables
      <4> QED
        BY <4>1, <4>2, <4>3 DEF Covered, Counted
    <3> QED
      BY <3>4, <3>7 DEF Good
  <2> QED
    BY <1>q, <2>1, <2>2, <2>3
<1>5. ASSUME NEW r \in Requests, Register(r)
      PROVE  Inv'
  <2>1. End(r) /\ UNCHANGED <<lines, ready>>
    BY <1>5 DEF Register
  <2>2. Good(r)' /\ \A s \in Requests \ {r} : Keeps(s)
    BY <1>t, <2>1, EndKeeps
  <2>3. /\ Unlined' /\ Seeded' /\ OrderNotOverbooked' /\ excepted \subseteq excepted'
        /\ \A s \in Requests \ {r} : \A o \in Orders : orderLock[o] = s => Lowered(o, Plans)
    BY <1>5, <1>t, RegisterStep
  <2>4. ASSUME NEW s \in Requests \ {r}
        PROVE  Good(s)'
    <3>1. \A o \in Orders : orderLock[o] = s => Lowered(o, Plans \ {job[s].plan})
      BY <2>3 DEF Lowered
    <3> QED
      BY <1>t, <2>2, <2>3, <3>1, KeptStep
  <2> QED
    BY <1>t, <2>2, <2>3, <2>4 DEF Inv
<1>6. ASSUME NEW r \in Requests, Abort(r)
      PROVE  Inv'
  <2>1. Quiet
    BY <1>6, <1>t DEF Quiet, Inv, Seeded, Abort, tables
  <2>2. Good(r)' /\ \A s \in Requests \ {r} : Keeps(s)
    BY <1>6, <1>t, EndKeeps DEF Abort, tables
  <2> QED
    BY <1>q, <2>1, <2>2
<1>7. ASSUME NEW r \in Requests, NEW p \in Plans, NEW o \in Orders, NEW verb \in Editing,
             Read(r, p, o, verb)
      PROVE  Inv'
  <2>1. Quiet
    BY <1>7, <1>t DEF Quiet, Inv, Seeded, Read, tables
  <2>2. ASSUME NEW s \in Requests \ {r}
        PROVE  Keeps(s)
    BY <1>7, <1>t DEF Keeps, Read, tables, locks, TypeOK
  <2>3. job'[r].step = "read"
    BY <1>7, <1>t DEF Read, TypeOK
  <2> QED
    BY <1>q, <2>1, <2>2, <2>3 DEF Good
<1>8. ASSUME NEW r \in Requests, Add(r)
      PROVE  Inv'
  <2> DEFINE p == job[r].plan  o == job[r].order
  <2>1. /\ planLock[p] = None /\ o \notin lines[p] /\ p \in Plans
        /\ lines' = [lines EXCEPT ![p] = @ \cup {o}]
        /\ terms' = [terms EXCEPT ![p][o] = Product(o)]
        /\ Invalidated(p, job[r].status) /\ Done(r) /\ UNCHANGED <<allocated, excepted>>
    BY <1>8, <1>t DEF Add, TypeOK
  <2>2. Good(r)' /\ \A s \in Requests \ {r} : Keeps(s)
    BY <1>t, <2>1, DoneKeeps DEF TypeOK
  <2>3. Quiet
    <3>1. \A q \in Plans : status'[q] = "registered" => status[q] = "registered"
      BY <1>t, <2>1, InvalidatedStatus
    <3>2. \A q \in Plans : \A x \in lines'[q] \ excepted' :
            \/ x \in lines[q] /\ terms'[q][x] = terms[q][x]
            \/ AsProduct(terms'[q][x], x)
      BY <1>t, <2>1 DEF TypeOK, AsProduct, Product
    <3>3. \A q \in Plans : lines[q] \subseteq lines'[q]
      BY <1>t, <2>1 DEF TypeOK
    <3> QED
      BY <2>1, <3>1, <3>2, <3>3 DEF Quiet
  <2> QED
    BY <1>q, <2>2, <2>3
<1>9. ASSUME NEW r \in Requests, Update(r)
      PROVE  Inv'
  <2> DEFINE p == job[r].plan  o == job[r].order
  <2>1. /\ p \in Plans /\ o \in Orders
        /\ \E t \in SetByHand(terms[p][o]) :
             /\ terms' = [terms EXCEPT ![p][o] = t]
             /\ excepted' = IF t.required = Quantity[o] /\ t.overrun = Overrun[o]
                            THEN excepted ELSE excepted \cup {o}
        /\ Invalidated(p, job[r].status) /\ Done(r) /\ UNCHANGED <<lines, allocated>>
    BY <1>9, <1>t DEF Update, TypeOK
  <2> HIDE DEF p, o
  <2>2. Good(r)' /\ \A s \in Requests \ {r} : Keeps(s)
    BY <1>t, <2>1, DoneKeeps
  <2>3. Quiet
    <3>1. \A q \in Plans : status'[q] = "registered" => status[q] = "registered"
      BY <1>t, <2>1, InvalidatedStatus
    <3>0. PICK t \in SetByHand(terms[p][o]) :
            /\ terms' = [terms EXCEPT ![p][o] = t]
            /\ excepted' = IF t.required = Quantity[o] /\ t.overrun = Overrun[o]
                           THEN excepted ELSE excepted \cup {o}
      BY <2>1
    <3>2. ASSUME NEW q \in Plans, NEW x \in Orders \ excepted'
          PROVE  terms'[q][x] = terms[q][x] \/ AsProduct(terms'[q][x], x)
      <4>1. terms \in [Plans -> [Orders -> Terms]]
        BY <1>t DEF TypeOK
      <4>2. CASE q = p /\ x = o
        BY <2>1, <3>0, <4>1, <4>2 DEF AsProduct
      <4>3. CASE ~(q = p /\ x = o)
        BY <2>1, <3>0, <4>1, <4>3
      <4> QED
        BY <4>2, <4>3
    <3>3. \A q \in Plans : lines'[q] \subseteq Orders
      BY <1>t DEF TypeOK
    <3> QED
      BY <2>1, <3>1, <3>2, <3>3 DEF Quiet
  <2> QED
    BY <1>q, <2>2, <2>3
<1>10. ASSUME NEW r \in Requests, Remove(r)
      PROVE  Inv'
  <2> DEFINE p == job[r].plan  o == job[r].order
  <2>1. /\ p \in Plans /\ o \in Orders
        /\ lines' = [lines EXCEPT ![p] = @ \ {o}]
        /\ terms' = [terms EXCEPT ![p][o] = Blank]
        /\ allocated' = [allocated EXCEPT ![p][o] = 0]
        /\ Invalidated(p, "solved") \/ UNCHANGED status
        /\ Done(r) /\ UNCHANGED excepted
    BY <1>10, <1>t DEF Remove, TypeOK
  <2> HIDE DEF p, o
  <2>2. \A q \in Plans : lines'[q] \subseteq lines[q]
    BY <1>t, <2>1 DEF TypeOK
  <2>3. Good(r)' /\ \A s \in Requests \ {r} : Keeps(s)
    BY <1>t, <2>1, <2>2, DoneKeeps
  <2>4. Quiet
    <3>1. \A q \in Plans : status'[q] = "registered" => status[q] = "registered"
      BY <1>t, <2>1, InvalidatedStatus
    <3>2. \A q \in Plans : \A x \in lines'[q] : terms'[q][x] = terms[q][x]
      BY <1>t, <2>1 DEF TypeOK
    <3>3. \A q \in Plans : \A x \in Orders :
            /\ allocated'[q][x] = allocated[q][x] \/ allocated'[q][x] = 0
            /\ x \in lines[q] \ lines'[q] => allocated'[q][x] = 0
      BY <1>t, <2>1 DEF TypeOK, Counts
    <3> QED
      BY <2>1, <2>2, <3>1, <3>2, <3>3 DEF Quiet
  <2> QED
    BY <1>q, <2>3, <2>4
<1>11. ASSUME NEW r \in Requests, Adjust(r)
      PROVE  Inv'
  <2>1. Done(r) /\ UNCHANGED <<status, lines, terms, pending, allocated, excepted>>
    BY <1>11 DEF Adjust
  <2>2. Good(r)' /\ \A s \in Requests \ {r} : Keeps(s)
    BY <1>t, <2>1, DoneKeeps
  <2>3. Quiet
    BY <1>t, <2>1 DEF Quiet, Inv, Seeded
  <2> QED
    BY <1>q, <2>2, <2>3
<1>12. ASSUME NEW p \in Plans, NEW before \in SUBSET Statuses, NEW after \in Statuses \ {"registered"},
              NEW runs, Becomes(p, before, after, runs),
              allocated' = allocated \/ allocated' = [allocated EXCEPT ![p] = Zero]
      PROVE  Inv'
  <2>1. /\ status' = [status EXCEPT ![p] = after]
        /\ UNCHANGED <<lines, terms, ready, excepted, locks, job, reg>>
    BY <1>12 DEF Becomes
  <2>2. \A s \in Requests : Keeps(s)
    BY <2>1 DEF Keeps, locks
  <2>3. \A q \in Plans : \A o \in Orders :
          allocated'[q][o] = allocated[q][o] \/ allocated'[q][o] = 0
    <3>1. CASE allocated' = allocated
      BY <3>1
    <3>2. CASE allocated' = [allocated EXCEPT ![p] = Zero]
      BY <1>t, <3>2 DEF TypeOK, Zero
    <3> QED
      BY <1>12, <3>1, <3>2
  <2>4. Quiet
    BY <1>t, <2>1, <2>3 DEF Quiet, TypeOK
  <2> QED
    BY <1>q, <2>2, <2>4
<1>13. ASSUME NEW p \in Plans, StartSolve(p) \/ CompleteSolve(p) \/ Unregister(p)
      PROVE  Inv'
  <2>1. CASE StartSolve(p)
    BY <1>12, <2>1 DEF StartSolve, Statuses
  <2>2. CASE CompleteSolve(p)
    BY <1>12, <2>2 DEF CompleteSolve, Statuses
  <2>3. CASE Unregister(p)
    BY <1>12, <2>3 DEF Unregister, Statuses
  <2> QED
    BY <1>13, <2>1, <2>2, <2>3
<1>14. ASSUME NEW o \in Orders, Switch(o)
      PROVE  Inv'
  <2>1. Quiet
    BY <1>14, <1>t DEF Quiet, Inv, Seeded, Switch
  <2>2. \A s \in Requests : Keeps(s)
    BY <1>14, <1>t DEF Keeps, Switch, locks, TypeOK
  <2> QED
    BY <1>q, <2>1, <2>2
<1> QED
  BY <1>1, <1>2, <1>3, <1>4, <1>5, <1>6, <1>7, <1>8, <1>9, <1>10, <1>11, <1>13, <1>14,
     EditedAssumption DEF Next, Step

LEMMA Invariance == Spec => []Inv
BY InitInv, InvStep, PTL DEF Spec

(* Registered plans program together no more of an order than it needs,     *)
(* rounded up, and its overrun (plan.service.ts:2253-2314).                 *)
THEOREM NotOverbooked == Spec => []OrderNotOverbooked
<1>1. Inv => OrderNotOverbooked
  BY DEF Inv
<1> QED
  BY <1>1, Invariance, PTL

(* What a registration found still holds when it commits                    *)
(* (plan.service.ts:2219-2228).                                             *)
THEOREM Stands == Spec => RegistrationStands
<1>1. ASSUME Inv, NEW r \in Requests, Register(r), NEW o \in lines[job[r].plan]
      PROVE  /\ ready[o]
             /\ \A q \in Plans \ {job[r].plan} : Netted(q, o) <= reg[r].netted[q][o]
  <2>1. Holding(r) /\ Covered(r)
    BY <1>1 DEF Register, Inv, Good
  <2> QED
    BY <1>1, <2>1 DEF Holding, Covered
<1>2. Inv /\ [Next]_vars =>
        (\A r \in Requests : Register(r) =>
           \A o \in lines[job[r].plan] :
             /\ ready[o]
             /\ \A q \in Plans \ {job[r].plan} : Netted(q, o) <= reg[r].netted[q][o])
  BY <1>1
<1> QED
  BY <1>2, Invariance, PTL DEF Spec, RegistrationStands
=============================================================================
