------------------------- MODULE NodeFilesRunsProofs -------------------------
(***************************************************************************)
(* Invariants of NodeFilesRuns. For any runs, companies, processes,        *)
(* requests and mishaps: the types, that whatever a worker leaves behind   *)
(* is found by exactly one sweep, and that no graph is walked without the  *)
(* run's values; none of these needs to know who holds a row. And, as long *)
(* as requests and sweeps about a run come one at a time: one worker per   *)
(* run, one walk per attempt, a review before it.                          *)
(***************************************************************************)
EXTENDS NodeFilesRuns, SequenceTheorems, TLAPS

(* A non-empty sequence cut in two and put together the other way round.   *)
LEMMA RotatedSequence ==
  ASSUME NEW s \in Seq(Nat), NEW i \in 1 .. Len(s)
  PROVE  /\ SubSeq(s, i + 1, Len(s)) \o SubSeq(s, 1, i) \in Seq(Nat)
         /\ SubSeq(s, i + 1, Len(s)) \o SubSeq(s, 1, i) # <<>>
<1> DEFINE rest == SubSeq(s, i + 1, Len(s))
           start == SubSeq(s, 1, i)
<1>1. /\ Len(s) \in Nat /\ i \in Int
      /\ \A j \in i + 1 .. Len(s) : s[j] \in Nat
      /\ \A j \in 1 .. i : s[j] \in Nat
  OBVIOUS
<1>2. rest \in Seq(Nat) /\ Len(rest) \in Nat
  BY <1>1, SubSeqProperties
<1>3. start \in Seq(Nat) /\ Len(start) = i
  BY <1>1, SubSeqProperties
<1> HIDE DEF rest, start
<1>4. rest \o start \in Seq(Nat) /\ Len(rest \o start) = Len(rest) + Len(start)
  BY <1>2, <1>3, ConcatProperties
<1>5. rest \o start # <<>>
  BY <1>2, <1>3, <1>4
<1> QED BY <1>4, <1>5 DEF rest, start

(* A round's order is a sequence of companies, and there is one to visit.  *)
LEMMA RotationType ==
  ASSUME NEW l
  PROVE  RotateTenants(l) \in Seq(Nat) /\ RotateTenants(l) # <<>>
<1>1. Companies \in Seq(Nat) /\ Companies # <<>>
  BY RunsAssumption
<1>2. CASE l \notin Range(Companies)
  BY <1>1, <1>2 DEF RotateTenants
<1>3. CASE l \in Range(Companies)
  <2> DEFINE at == CHOOSE i \in DOMAIN Companies : Companies[i] = l
  <2>1. \E j \in DOMAIN Companies : Companies[j] = l
    BY <1>3 DEF Range
  <2>2. at \in 1 .. Len(Companies)
    BY <1>1, <2>1
  <2>3. RotateTenants(l) = SubSeq(Companies, at + 1, Len(Companies))
                             \o SubSeq(Companies, 1, at)
    BY <1>3 DEF RotateTenants
  <2> HIDE DEF at
  <2> QED BY <1>1, <2>2, <2>3, RotatedSequence
<1> QED BY <1>2, <1>3

-----------------------------------------------------------------------------
(* Types.                                                                  *)

LEMMA InitTypes == Init => TypeOK
<1> SUFFICES ASSUME Init PROVE TypeOK
  OBVIOUS
<1>1. /\ visits \in [Workers -> Seq(Nat)]
      /\ mishaps \in 0 .. MaxMishaps
  BY RunsAssumption DEF Init
<1>2. asked \in [Clients -> [verb : Verbs \cup {"none"}, run : Runs \cup {None},
                            extracted : BOOLEAN]]
  BY DEF Init, Idle
<1>3. \A c \in Clients : asked[c].verb = "none"
  BY DEF Init, Idle
<1> QED BY <1>1, <1>2, <1>3 DEF Init, TypeOK, Statuses, Ages, Steps, Working

(* Writing one row keeps the columns typed.                                *)
LEMMA WriteTypes ==
  ASSUME TypeOK, NEW r \in Runs, NEW to \in Statuses, NEW by \in BOOLEAN,
         NEW at \in Ages, Write(r, to, by, at)
  PROVE  /\ status' \in [Runs -> Statuses]
         /\ lockedBy' \in [Runs -> BOOLEAN]
         /\ lockedAt' \in [Runs -> Ages]
  BY DEF TypeOK, Write

(* So does a sweep's update of many.                                       *)
LEMMA ReleaseAllTypes ==
  ASSUME TypeOK, NEW rs, NEW from, NEW to \in Statuses, ReleaseAll(rs, from, to)
  PROVE  /\ status' \in [Runs -> Statuses]
         /\ lockedBy' \in [Runs -> BOOLEAN]
         /\ lockedAt' \in [Runs -> Ages]
  BY DEF TypeOK, ReleaseAll, Ages

(* What a worker's part of the state must be, for the actions that leave   *)
(* the rows and the requests to the lemmas above.                          *)
WorkersTyped ==
  /\ step \in [Workers -> Steps]
  /\ claim \in [Workers -> Runs \cup {None}]
  /\ listed \in [Workers -> SUBSET Runs]
  /\ visits \in [Workers -> Seq(Nat)]
  /\ last \in [Workers -> Nat \cup {None}]
  /\ worked \in [Workers -> BOOLEAN]
  /\ inline \in [Workers -> BOOLEAN]
  /\ \A w \in Workers : step[w] \in Working => claim[w] \in Runs
  /\ \A w \in Workers : step[w] \notin {"off", "idle", "dead"} => visits[w] # <<>>

(* The end of a visit.                                                     *)
LEMMA LeaveTypes ==
  ASSUME WorkersTyped, NEW w \in Workers, NEW did \in BOOLEAN,
         visits[w] # <<>>, Leave(w, did)
  PROVE  WorkersTyped'
<1> DEFINE rest == IF did THEN <<>> ELSE Tail(visits[w])
<1>1. rest \in Seq(Nat) /\ Head(visits[w]) \in Nat
  BY DEF WorkersTyped
<1>2. /\ visits' = [visits EXCEPT ![w] = rest]
      /\ step' = [step EXCEPT ![w] = IF rest = <<>> THEN "idle" ELSE "listing"]
  BY DEF Leave, Goto
<1> HIDE DEF rest
<1>3. /\ step' \in [Workers -> Steps]
      /\ \A v \in Workers : step'[v] \in Working => claim'[v] \in Runs
      /\ claim' \in [Workers -> Runs \cup {None}]
  BY <1>2 DEF WorkersTyped, Leave, Steps, Working
<1>4. /\ visits' \in [Workers -> Seq(Nat)]
      /\ \A v \in Workers :
           step'[v] \notin {"off", "idle", "dead"} => visits'[v] # <<>>
  BY <1>1, <1>2 DEF WorkersTyped
<1>5. /\ listed' \in [Workers -> SUBSET Runs]
      /\ last' \in [Workers -> Nat \cup {None}]
      /\ worked' \in [Workers -> BOOLEAN]
      /\ inline' \in [Workers -> BOOLEAN]
  BY <1>1 DEF WorkersTyped, Leave
<1> QED BY <1>3, <1>4, <1>5 DEF WorkersTyped

(* The worker goes on to the rest of its visit.                            *)
LEMMA HandOverTypes ==
  ASSUME WorkersTyped, NEW w \in Workers, step[w] \in Working, HandOver(w),
         UNCHANGED <<listed, visits, last, worked>>,
         inline' \in [Workers -> BOOLEAN]
  PROVE  WorkersTyped'
  BY DEF WorkersTyped, HandOver, Goto, Steps, Working

LEMMA ResumeTypes ==
  ASSUME WorkersTyped, NEW w \in Workers, step[w] \in Working, Resume(w)
  PROVE  WorkersTyped'
<1>1. CASE inline[w]
  <2>1. /\ HandOver(w)
        /\ UNCHANGED <<listed, visits, last, worked>>
        /\ inline' \in [Workers -> BOOLEAN]
    BY <1>1 DEF Resume, WorkersTyped
  <2> QED BY <2>1, HandOverTypes
<1>2. CASE ~inline[w]
  <2>1. Leave(w, TRUE) /\ visits[w] # <<>>
    BY <1>2 DEF Resume, WorkersTyped, Working
  <2> QED BY <2>1, LeaveTypes
<1> QED BY <1>1, <1>2

(* Every step keeps every variable in its type: a claim is of a run while  *)
(* a worker works, and a round has a company to visit until it is over.    *)
LEMMA StepTypes == TypeOK /\ [Next]_vars => TypeOK'
<1> SUFFICES ASSUME TypeOK, [Next]_vars PROVE TypeOK'
  OBVIOUS
<1> DEFINE Rows == /\ status' \in [Runs -> Statuses]
                   /\ lockedBy' \in [Runs -> BOOLEAN]
                   /\ lockedAt' \in [Runs -> Ages]
           History == /\ extracted' \in [Runs -> BOOLEAN]
                      /\ reviewed' \in [Runs -> BOOLEAN]
                      /\ spent' \in [Runs -> BOOLEAN]
           Requests == /\ asked' \in [Clients ->
                            [verb : Verbs \cup {"none"}, run : Runs \cup {None},
                             extracted : BOOLEAN]]
                       /\ \A c \in Clients :
                            asked'[c].verb # "none" => asked'[c].run \in Runs
           Rest == mishaps' \in 0 .. MaxMishaps
<1>1. /\ WorkersTyped
      /\ UNCHANGED workerVars => WorkersTyped'
  BY DEF TypeOK, WorkersTyped, workerVars
<1>2. UNCHANGED <<status, lockedBy, lockedAt>> => Rows
  BY DEF TypeOK
<1>3. UNCHANGED <<extracted, reviewed, spent>> => History
  BY DEF TypeOK
<1>4. UNCHANGED asked => Requests
  BY DEF TypeOK
<1>5. UNCHANGED mishaps => Rest
  BY DEF TypeOK
<1>6. Rows /\ History /\ Requests /\ Rest /\ WorkersTyped' => TypeOK'
  BY DEF TypeOK, WorkersTyped
<1>7. \A r \in Runs : "null" \in Ages /\ "fresh" \in Ages /\ FALSE \in BOOLEAN
        /\ lockedBy[r] \in BOOLEAN
  BY DEF Ages, TypeOK
<1> HIDE DEF Rows, History, Requests, Rest
<1>10. ASSUME NEW w \in Workers, Boot(w) PROVE TypeOK'
  <2>1. WorkersTyped'
    BY <1>1, <1>10 DEF Boot, Goto, WorkersTyped, Steps, Working
  <2> QED BY <2>1, <1>2, <1>3, <1>4, <1>5, <1>6, <1>10 DEF Boot, rowVars
<1>11. ASSUME NEW w \in Workers, Tick(w) PROVE TypeOK'
  <2>1. WorkersTyped'
    BY <1>1, <1>11, RotationType DEF Tick, Goto, WorkersTyped, Steps, Working
  <2> QED BY <2>1, <1>2, <1>3, <1>4, <1>5, <1>6, <1>11 DEF Tick, rowVars
<1>12. ASSUME NEW w \in Workers, ListExtracting(w) PROVE TypeOK'
  <2>1. WorkersTyped'
    BY <1>1, <1>12 DEF ListExtracting, RunsOf, Goto, WorkersTyped, Steps, Working
  <2> QED BY <2>1, <1>2, <1>3, <1>4, <1>5, <1>6, <1>12 DEF ListExtracting, rowVars
<1>13. ASSUME NEW w \in Workers, Requeue(w) PROVE TypeOK'
  <2>1. WorkersTyped'
    BY <1>1, <1>13 DEF Requeue, Goto, WorkersTyped, Steps, Working
  <2>2. Rows
    BY <1>13, ReleaseAllTypes DEF Requeue, Statuses, Rows
  <2> QED BY <2>1, <2>2, <1>3, <1>4, <1>5, <1>6, <1>13 DEF Requeue
<1>14. ASSUME NEW w \in Workers, ListRunningClaims(w) PROVE TypeOK'
  <2>1. WorkersTyped'
    BY <1>1, <1>14 DEF ListRunningClaims, RunsOf, Goto, WorkersTyped, Steps, Working
  <2> QED BY <2>1, <1>2, <1>3, <1>4, <1>5, <1>6, <1>14
          DEF ListRunningClaims, rowVars
<1>15. ASSUME NEW w \in Workers, FailAbandonedExecutions(w) PROVE TypeOK'
  <2>1. WorkersTyped'
    BY <1>1, <1>15 DEF FailAbandonedExecutions, Goto, WorkersTyped, Steps, Working
  <2>2. Rows
    BY <1>15, ReleaseAllTypes DEF FailAbandonedExecutions, Statuses, Rows
  <2> QED BY <2>1, <2>2, <1>3, <1>4, <1>5, <1>6, <1>15 DEF FailAbandonedExecutions
<1>16. ASSUME NEW w \in Workers, ClaimNext(w) PROVE TypeOK'
  <2> DEFINE queued == {r \in RunsOf(w) : status[r] = "queued"}
  <2>1. worked' \in [Workers -> BOOLEAN] /\ queued \subseteq Runs
    BY <1>1, <1>16 DEF ClaimNext, WorkersTyped, RunsOf
  <2>2. CASE queued # {}
    <3>1. PICK r \in queued : Take(w, r, "extracting", "extracting")
      BY <1>16, <2>2 DEF ClaimNext
    <3>2. Rows
      BY <1>7, <2>1, <3>1, WriteTypes DEF Take, Statuses, Rows
    <3>3. WorkersTyped'
      BY <1>1, <1>16, <2>1, <3>1
      DEF Take, ClaimNext, Goto, WorkersTyped, Steps, Working
    <3> QED BY <3>2, <3>3, <1>3, <1>4, <1>5, <1>6, <1>16 DEF ClaimNext
  <2>3. CASE queued = {}
    <3>1. WorkersTyped'
      BY <1>1, <1>16, <2>1, <2>3 DEF ClaimNext, Goto, WorkersTyped, Steps, Working
    <3> QED BY <2>3, <3>1, <1>2, <1>3, <1>4, <1>5, <1>6, <1>16 DEF ClaimNext
  <2> QED BY <2>2, <2>3
<1>17. ASSUME NEW w \in Workers, MarkFinished(w) PROVE TypeOK'
  <2>1. claim[w] \in Runs /\ step[w] \in Working
    BY <1>17 DEF MarkFinished, TypeOK, Working
  <2>2. History
    BY <1>17 DEF MarkFinished, TypeOK, History
  <2>3. CASE claim[w] \in Reviewable
    <3>1. Rows
      BY <1>7, <1>17, <2>1, <2>3, WriteTypes DEF MarkFinished, Release, Statuses, Rows
    <3>2. /\ HandOver(w)
          /\ UNCHANGED <<listed, visits, last, worked>>
          /\ inline' \in [Workers -> BOOLEAN]
      BY <1>1, <1>17, <2>3 DEF MarkFinished, WorkersTyped
    <3>3. WorkersTyped'
      BY <1>1, <2>1, <3>2, HandOverTypes
    <3> QED BY <2>2, <3>1, <3>3, <1>4, <1>5, <1>6, <1>17 DEF MarkFinished
  <2>4. CASE claim[w] \notin Reviewable
    <3>1. Rows
      BY <1>7, <1>17, <2>1, <2>4, WriteTypes DEF MarkFinished, Statuses, Rows
    <3>2. WorkersTyped'
      BY <1>1, <1>17, <2>4 DEF MarkFinished, Goto, WorkersTyped, Steps, Working
    <3> QED BY <2>2, <3>1, <3>2, <1>4, <1>5, <1>6, <1>17 DEF MarkFinished
  <2> QED BY <2>3, <2>4
<1>18. ASSUME NEW w \in Workers, MarkFailed(w) PROVE TypeOK'
  <2>1. claim[w] \in Runs /\ step[w] \in Working
    BY <1>18 DEF MarkFailed, TypeOK, Working
  <2>2. Rows
    BY <1>7, <1>18, <2>1, WriteTypes DEF MarkFailed, Release, Statuses, Rows
  <2>3. WorkersTyped'
    BY <1>1, <1>18, <2>1, HandOverTypes DEF MarkFailed, WorkersTyped
  <2> QED BY <2>2, <2>3, <1>3, <1>4, <1>5, <1>6, <1>18 DEF MarkFailed
<1>19. ASSUME NEW w \in Workers, ClaimNextRunnable(w) PROVE TypeOK'
  <2> DEFINE runnable == {r \in RunsOf(w) : status[r] = "running" /\ ~lockedBy[r]}
  <2>1. runnable \subseteq Runs /\ visits[w] # <<>> /\ worked[w] \in BOOLEAN
    BY <1>1, <1>19 DEF ClaimNextRunnable, WorkersTyped, RunsOf
  <2>2. CASE runnable # {}
    <3>1. PICK r \in runnable : Take(w, r, "running", "starting")
      BY <1>19, <2>2 DEF ClaimNextRunnable
    <3>2. Rows
      BY <1>7, <2>1, <3>1, WriteTypes DEF Take, Statuses, Rows
    <3>3. WorkersTyped'
      BY <1>1, <1>19, <2>1, <2>2, <3>1
      DEF Take, ClaimNextRunnable, Goto, WorkersTyped, Steps, Working
    <3> QED BY <3>2, <3>3, <1>3, <1>4, <1>5, <1>6, <1>19 DEF ClaimNextRunnable
  <2>3. CASE runnable = {}
    <3>1. WorkersTyped'
      BY <1>1, <1>19, <2>1, <2>3, LeaveTypes DEF ClaimNextRunnable
    <3> QED BY <2>3, <3>1, <1>2, <1>3, <1>4, <1>5, <1>6, <1>19
            DEF ClaimNextRunnable
  <2> QED BY <2>2, <2>3
<1>20. ASSUME NEW w \in Workers, Walk(w) PROVE TypeOK'
  <2>1. WorkersTyped'
    BY <1>1, <1>20 DEF Walk, Goto, WorkersTyped, Steps, Working
  <2>2. History
    BY <1>20 DEF Walk, TypeOK, History
  <2> QED BY <2>1, <2>2, <1>2, <1>4, <1>5, <1>6, <1>20 DEF Walk
<1>21. ASSUME NEW w \in Workers, FinishExecution(w) PROVE TypeOK'
  <2>1. claim[w] \in Runs /\ step[w] \in Working
    BY <1>21 DEF FinishExecution, TypeOK, Working
  <2>2. Rows
    BY <1>7, <1>21, <2>1, WriteTypes DEF FinishExecution, Release, Statuses, Rows
  <2>3. WorkersTyped'
    BY <1>1, <1>21, <2>1, ResumeTypes DEF FinishExecution
  <2> QED BY <2>2, <2>3, <1>3, <1>4, <1>5, <1>6, <1>21 DEF FinishExecution
<1>22. ASSUME NEW kind, Mishap(kind) PROVE Rest /\ Requests
  BY <1>4, <1>22, RunsAssumption DEF Mishap, TypeOK, Rest
<1>23. ASSUME NEW w \in Workers, Crash(w) PROVE TypeOK'
  <2>1. WorkersTyped'
    BY <1>1, <1>23 DEF Crash, Goto, WorkersTyped, Steps, Working
  <2> QED BY <2>1, <1>2, <1>3, <1>6, <1>22, <1>23 DEF Crash, rowVars
<1>24. ASSUME NEW w \in Workers, Unrecorded(w) PROVE TypeOK'
  <2>1. step[w] \in Working
    BY <1>24 DEF Unrecorded, Working
  <2>2. \/ Resume(w)
        \/ /\ HandOver(w)
           /\ UNCHANGED <<listed, visits, last, worked>>
           /\ inline' \in [Workers -> BOOLEAN]
    BY <1>1, <1>24 DEF Unrecorded, WorkersTyped
  <2>3. WorkersTyped'
    BY <1>1, <2>1, <2>2, ResumeTypes, HandOverTypes
  <2> QED BY <2>3, <1>2, <1>3, <1>6, <1>22, <1>24 DEF Unrecorded, rowVars
<1>25. ASSUME NEW w \in Workers, Unreachable(w) PROVE TypeOK'
  <2>1. Leave(w, FALSE) /\ visits[w] # <<>>
    BY <1>1, <1>25 DEF Unreachable, WorkersTyped
  <2>2. WorkersTyped'
    BY <1>1, <2>1, LeaveTypes
  <2> QED BY <2>2, <1>2, <1>3, <1>6, <1>22, <1>25 DEF Unreachable, rowVars
<1>26. ASSUME NEW r \in Runs, Upload(r) PROVE TypeOK'
  <2>1. Rows
    BY <1>7, <1>26, WriteTypes DEF Upload, Release, Statuses, Rows
  <2> QED BY <2>1, <1>1, <1>3, <1>4, <1>5, <1>6, <1>26 DEF Upload
<1>27. ASSUME NEW r \in Runs, Age(r) PROVE TypeOK'
  <2>1. Rows
    BY <1>27 DEF Age, TypeOK, Ages, Rows
  <2> QED BY <2>1, <1>1, <1>3, <1>4, <1>5, <1>6, <1>27 DEF Age
<1>28. ASSUME NEW c \in Clients, NEW verb \in Verbs, NEW r \in Runs, Ask(c, verb, r)
       PROVE TypeOK'
  <2>1. Requests
    BY <1>28 DEF Ask, TypeOK, Requests
  <2> QED BY <2>1, <1>1, <1>2, <1>3, <1>5, <1>6, <1>28 DEF Ask, rowVars
<1>29. ASSUME NEW c \in Clients, asked' = [asked EXCEPT ![c] = Idle] PROVE Requests
  BY <1>29 DEF Idle, TypeOK, Requests
<1>30. ASSUME NEW c \in Clients, Answer(c) PROVE TypeOK'
  <2>1. asked[c].run \in Runs
    BY <1>30 DEF Answer, TypeOK
  <2>2. PICK to \in {"running", "queued", "failed"} : Release(asked[c].run, to)
    BY <1>30 DEF Answer
  <2>3. Rows
    BY <1>7, <2>1, <2>2, WriteTypes DEF Release, Statuses, Rows
  <2>4. History
    BY <1>30, <2>1 DEF Answer, TypeOK, History
  <2> QED BY <2>3, <2>4, <1>1, <1>5, <1>6, <1>29, <1>30 DEF Answer
<1>31. ASSUME NEW c \in Clients, Abandon(c) PROVE TypeOK'
  BY <1>1, <1>2, <1>3, <1>5, <1>6, <1>29, <1>31 DEF Abandon, rowVars
<1>32. CASE UNCHANGED vars
  BY <1>1, <1>2, <1>3, <1>4, <1>5, <1>6, <1>32 DEF vars, rowVars
<1> QED
  BY <1>10, <1>11, <1>12, <1>13, <1>14, <1>15, <1>16, <1>17, <1>18, <1>19,
     <1>20, <1>21, <1>23, <1>24, <1>25, <1>26, <1>27, <1>28, <1>30, <1>31,
     <1>32 DEF Next, Proceed

(* The row columns, the workers' places and the requests stay in their     *)
(* types through every claim, sweep, execution, mishap and request.        *)
THEOREM TypeInvariance == Spec => []TypeOK
  BY InitTypes, StepTypes, PTL DEF Spec

-----------------------------------------------------------------------------
(* The claims and the sweeps.                                              *)

(* SweepsSeeEveryClaim of one row, to tell the written row from the rest.  *)
Seen(r) == /\ lockedBy[r] => status[r] \in {"extracting", "running"}
           /\ lockedBy[r] => lockedAt[r] # "null"
           /\ status[r] = "extracting" => lockedBy[r]

(* A write leaves its row seen if what it writes is.                       *)
LEMMA WriteSeen ==
  ASSUME TypeOK, SweepsSeeEveryClaim, NEW r \in Runs, NEW to, NEW by, NEW at,
         Write(r, to, by, at),
         by => to \in {"extracting", "running"} /\ at # "null",
         to = "extracting" => by
  PROVE  SweepsSeeEveryClaim'
<1> SUFFICES ASSUME NEW q \in Runs PROVE Seen(q)'
  BY DEF SweepsSeeEveryClaim, Seen
<1>1. Seen(q)
  BY DEF SweepsSeeEveryClaim, Seen
<1>2. CASE q = r
  <2>1. status'[q] = to /\ lockedBy'[q] = by /\ lockedAt'[q] = at
    BY <1>2 DEF Write, TypeOK
  <2> QED BY <2>1 DEF Seen
<1>3. CASE q # r
  BY <1>1, <1>3 DEF Write, TypeOK, Seen
<1> QED BY <1>2, <1>3

LEMMA ReleaseSeen ==
  ASSUME TypeOK, SweepsSeeEveryClaim, NEW r \in Runs, NEW to,
         to # "extracting", Release(r, to)
  PROVE  SweepsSeeEveryClaim'
<1> SUFFICES ASSUME NEW q \in Runs PROVE Seen(q)'
  BY DEF SweepsSeeEveryClaim, Seen
<1>1. Seen(q)
  BY DEF SweepsSeeEveryClaim, Seen
<1>2. CASE q = r
  <2>1. status'[q] = to /\ ~lockedBy'[q]
    BY <1>2 DEF Release, Write, TypeOK
  <2> QED BY <2>1 DEF Seen
<1>3. CASE q # r
  BY <1>1, <1>3 DEF Release, Write, TypeOK, Seen
<1> QED BY <1>2, <1>3

LEMMA ReleaseAllSeen ==
  ASSUME TypeOK, SweepsSeeEveryClaim, NEW rs, NEW from, NEW to,
         to # "extracting", ReleaseAll(rs, from, to)
  PROVE  SweepsSeeEveryClaim'
<1> SUFFICES ASSUME NEW q \in Runs PROVE Seen(q)'
  BY DEF SweepsSeeEveryClaim, Seen
<1>1. Seen(q)
  BY DEF SweepsSeeEveryClaim, Seen
<1>2. CASE q \in rs /\ status[q] = from
  BY <1>2 DEF ReleaseAll, Seen
<1>3. CASE ~(q \in rs /\ status[q] = from)
  BY <1>1, <1>3 DEF ReleaseAll, Seen, TypeOK
<1> QED BY <1>2, <1>3

LEMMA StepSeen == TypeOK /\ SweepsSeeEveryClaim /\ [Next]_vars => SweepsSeeEveryClaim'
<1> SUFFICES ASSUME TypeOK, SweepsSeeEveryClaim, [Next]_vars
             PROVE  SweepsSeeEveryClaim'
  OBVIOUS
<1>1. UNCHANGED <<status, lockedBy, lockedAt>> => SweepsSeeEveryClaim'
  BY DEF SweepsSeeEveryClaim
<1>2. ASSUME NEW w \in Workers, Requeue(w) \/ FailAbandonedExecutions(w)
      PROVE  SweepsSeeEveryClaim'
  BY <1>2, ReleaseAllSeen DEF Requeue, FailAbandonedExecutions
<1>3. ASSUME NEW w \in Workers, ClaimNext(w) PROVE SweepsSeeEveryClaim'
  <2>1. \/ UNCHANGED <<status, lockedBy, lockedAt>>
        \/ \E r \in Runs : Write(r, "extracting", TRUE, "fresh")
    BY <1>3 DEF ClaimNext, RunsOf, Take
  <2> QED BY <2>1, <1>1, WriteSeen
<1>4. ASSUME NEW w \in Workers, ClaimNextRunnable(w) PROVE SweepsSeeEveryClaim'
  <2>1. \/ UNCHANGED <<status, lockedBy, lockedAt>>
        \/ \E r \in Runs : Write(r, "running", TRUE, "fresh")
    BY <1>4 DEF ClaimNextRunnable, RunsOf, Take
  <2> QED BY <2>1, <1>1, WriteSeen
<1>5. ASSUME NEW w \in Workers, MarkFinished(w) PROVE SweepsSeeEveryClaim'
  <2>1. claim[w] \in Runs
    BY <1>5 DEF MarkFinished, TypeOK, Working
  <2>2. \/ Release(claim[w], "pending_review")
        \/ Write(claim[w], "running", lockedBy[claim[w]], "fresh")
    BY <1>5 DEF MarkFinished
  <2> QED BY <2>1, <2>2, WriteSeen, ReleaseSeen
<1>6. ASSUME NEW w \in Workers, MarkFailed(w) \/ FinishExecution(w)
      PROVE  SweepsSeeEveryClaim'
  <2>1. claim[w] \in Runs
    BY <1>6 DEF MarkFailed, FinishExecution, TypeOK, Working
  <2>2. \E to \in {"failed", "succeeded"} : Release(claim[w], to)
    BY <1>6 DEF MarkFailed, FinishExecution
  <2> QED BY <2>1, <2>2, ReleaseSeen
<1>7. ASSUME NEW r \in Runs, Upload(r) PROVE SweepsSeeEveryClaim'
  BY <1>7, ReleaseSeen DEF Upload
<1>8. ASSUME NEW r \in Runs, Age(r) PROVE SweepsSeeEveryClaim'
  <2>1. Write(r, status[r], lockedBy[r], "old")
    BY <1>8 DEF Age, Write, TypeOK
  <2>2. /\ lockedBy[r] => status[r] \in {"extracting", "running"}
        /\ status[r] = "extracting" => lockedBy[r]
    BY DEF SweepsSeeEveryClaim
  <2> QED BY <2>1, <2>2, WriteSeen
<1>9. ASSUME NEW c \in Clients, Answer(c) PROVE SweepsSeeEveryClaim'
  <2>1. asked[c].run \in Runs
    BY <1>9 DEF Answer, TypeOK
  <2>2. \E to \in {"running", "queued", "failed"} : Release(asked[c].run, to)
    BY <1>9 DEF Answer
  <2> QED BY <2>1, <2>2, ReleaseSeen
<1>10. ASSUME NEW w \in Workers,
              \/ Boot(w) \/ Tick(w) \/ ListExtracting(w) \/ ListRunningClaims(w)
              \/ Walk(w) \/ Crash(w) \/ Unrecorded(w) \/ Unreachable(w)
       PROVE  SweepsSeeEveryClaim'
  BY <1>1, <1>10 DEF Boot, Tick, ListExtracting, ListRunningClaims, Walk, Crash,
     Unrecorded, Unreachable, rowVars
<1>11. ASSUME NEW c \in Clients,
              Abandon(c) \/ \E verb \in Verbs, r \in Runs : Ask(c, verb, r)
       PROVE  SweepsSeeEveryClaim'
  BY <1>1, <1>11 DEF Abandon, Ask, rowVars
<1>12. CASE UNCHANGED vars
  BY <1>1, <1>12 DEF vars, rowVars
<1> QED BY <1>2, <1>3, <1>4, <1>5, <1>6, <1>7, <1>8, <1>9, <1>10, <1>11, <1>12
        DEF Next, Proceed

(* Whatever dies, is cancelled, stolen or late, a held row is extracting   *)
(* or running and dated, and an extracting one is held: one of the two     *)
(* sweeps will find it and no other row.                                   *)
THEOREM ClaimsAreSwept == Spec => []SweepsSeeEveryClaim
<1>1. Init => SweepsSeeEveryClaim
  BY DEF Init, SweepsSeeEveryClaim
<1> QED BY <1>1, StepSeen, TypeInvariance, PTL DEF Spec

-----------------------------------------------------------------------------
(* The values.                                                             *)

(* The values of a run are never taken away, and requests begin with what  *)
(* its row says.                                                           *)
LEMMA ValuesAreKept ==
  ASSUME TypeOK, [Next]_vars, NEW r \in Runs, extracted[r]
  PROVE  extracted'[r]
<1>1. CASE UNCHANGED extracted
  BY <1>1
<1>2. ASSUME NEW w \in Workers, MarkFinished(w) PROVE extracted'[r]
  BY <1>2 DEF MarkFinished, TypeOK
<1> QED
  BY <1>1, <1>2 DEF Next, Proceed, Boot, Tick, ListExtracting, Requeue,
     ListRunningClaims, FailAbandonedExecutions, ClaimNext, MarkFailed,
     ClaimNextRunnable, Walk, FinishExecution, Crash, Unrecorded, Unreachable,
     Upload, Age, Answer, Abandon, Ask, rowVars, vars

(* The three ways to the executor, each kept by every step.                *)
LEMMA RowValues ==
  ASSUME TypeOK, ValuesOnTheWay, [Next]_vars, NEW r \in Runs,
         status'[r] \in {"pending_review", "running"}
  PROVE  extracted'[r]
<1> DEFINE Ready == {"pending_review", "running"}
<1>1. CASE status'[r] = status[r]
  BY <1>1, ValuesAreKept DEF ValuesOnTheWay
<1>2. ASSUME NEW rs, NEW from, NEW to, ReleaseAll(rs, from, to), to \notin Ready
      PROVE  extracted'[r]
  <2>1. status'[r] = status[r]
    BY <1>2 DEF ReleaseAll
  <2> QED BY <1>1, <2>1
<1>3. ASSUME NEW q \in Runs, NEW to, NEW by, NEW at, Write(q, to, by, at),
             to \in Ready => extracted'[q]
      PROVE  extracted'[r]
  <2>1. CASE q = r
    <3>1. status'[r] = to
      BY <1>3, <2>1 DEF Write, TypeOK
    <3> QED BY <1>3, <2>1, <3>1
  <2>2. CASE q # r
    <3>1. status'[r] = status[r]
      BY <1>3, <2>2 DEF Write, TypeOK
    <3> QED BY <1>1, <3>1
  <2> QED BY <2>1, <2>2
<1>4. ASSUME NEW w \in Workers, Requeue(w) \/ FailAbandonedExecutions(w)
      PROVE  extracted'[r]
  BY <1>2, <1>4 DEF Requeue, FailAbandonedExecutions
<1>5. ASSUME NEW w \in Workers, ClaimNext(w) PROVE extracted'[r]
  <2>1. \/ UNCHANGED status
        \/ \E q \in Runs : Write(q, "extracting", TRUE, "fresh")
    BY <1>5 DEF ClaimNext, RunsOf, Take
  <2> QED BY <2>1, <1>1, <1>3
<1>6. ASSUME NEW w \in Workers, ClaimNextRunnable(w) PROVE extracted'[r]
  <2>1. \/ UNCHANGED status
        \/ \E q \in Runs : /\ status[q] = "running"
                           /\ Write(q, "running", TRUE, "fresh")
    BY <1>6 DEF ClaimNextRunnable, RunsOf, Take
  <2>2. CASE UNCHANGED status
    BY <1>1, <2>2
  <2>3. ASSUME NEW q \in Runs, status[q] = "running",
               Write(q, "running", TRUE, "fresh")
        PROVE  extracted'[r]
    <3>1. status'[r] = status[r]
      BY <2>3 DEF Write, TypeOK
    <3> QED BY <1>1, <3>1
  <2> QED BY <2>1, <2>2, <2>3
<1>7. ASSUME NEW w \in Workers, MarkFinished(w) PROVE extracted'[r]
  <2>1. claim[w] \in Runs /\ extracted'[claim[w]]
    BY <1>7 DEF MarkFinished, TypeOK, Working
  <2>2. \/ Write(claim[w], "pending_review", FALSE, "null")
        \/ Write(claim[w], "running", lockedBy[claim[w]], "fresh")
    BY <1>7 DEF MarkFinished, Release
  <2> QED BY <2>1, <2>2, <1>3
<1>8. ASSUME NEW w \in Workers, MarkFailed(w) \/ FinishExecution(w)
      PROVE  extracted'[r]
  <2>1. claim[w] \in Runs
    BY <1>8 DEF MarkFailed, FinishExecution, TypeOK, Working
  <2>2. \E to \in {"failed", "succeeded"} : Write(claim[w], to, FALSE, "null")
    BY <1>8 DEF MarkFailed, FinishExecution, Release
  <2> QED BY <2>1, <2>2, <1>3
<1>9. ASSUME NEW q \in Runs, Upload(q) PROVE extracted'[r]
  BY <1>3, <1>9 DEF Upload, Release
<1>10. ASSUME NEW c \in Clients, Answer(c) PROVE extracted'[r]
  <2>1. asked[c].run \in Runs /\ UNCHANGED extracted
    BY <1>10 DEF Answer, TypeOK
  <2>2. \E to \in {"running", "queued", "failed"} :
          /\ Write(asked[c].run, to, FALSE, "null")
          /\ to \in Ready => \/ asked[c].verb = "review"
                             \/ asked[c].verb = "retry" /\ asked[c].extracted
    BY <1>10 DEF Answer, Release
  <2> QED BY <2>1, <2>2, <1>3 DEF ValuesOnTheWay
<1> QED
  BY <1>1, <1>4, <1>5, <1>6, <1>7, <1>8, <1>9, <1>10
  DEF Next, Proceed, Boot, Tick, ListExtracting, ListRunningClaims, Walk, Crash,
      Unrecorded, Unreachable, Age, Abandon, Ask, rowVars, vars

LEMMA WorkerValues ==
  ASSUME TypeOK, ValuesOnTheWay, [Next]_vars, NEW w \in Workers,
         step'[w] \in {"starting", "walking"}
  PROVE  extracted'[claim'[w]]
<1> DEFINE Held == {"starting", "walking"}
<1>1. ASSUME step[w] \in Held, claim'[w] = claim[w] PROVE extracted'[claim'[w]]
  <2>1. claim[w] \in Runs /\ extracted[claim[w]]
    BY <1>1 DEF TypeOK, ValuesOnTheWay, Working
  <2> QED BY <1>1, <2>1, ValuesAreKept
<1>2. CASE step'[w] = step[w] /\ claim'[w] = claim[w]
  BY <1>1, <1>2
<1>3. ASSUME NEW v \in Workers, v # w, NEW s, step' = [step EXCEPT ![v] = s],
             NEW r, claim' = [claim EXCEPT ![v] = r]
      PROVE  extracted'[claim'[w]]
  <2>1. step'[w] = step[w] /\ claim'[w] = claim[w]
    BY <1>3 DEF TypeOK
  <2> QED BY <1>2, <2>1
<1>4. ASSUME NEW v \in Workers, v # w, NEW s, step' = [step EXCEPT ![v] = s],
             UNCHANGED claim
      PROVE  extracted'[claim'[w]]
  <2>1. step'[w] = step[w]
    BY <1>4 DEF TypeOK
  <2> QED BY <1>2, <1>4, <2>1
<1>5. ASSUME NEW v \in Workers, NEW s, s \notin Held, step' = [step EXCEPT ![v] = s],
             \/ UNCHANGED claim
             \/ \E r : claim' = [claim EXCEPT ![v] = r]
      PROVE  extracted'[claim'[w]]
  <2>1. CASE v = w
    BY <1>5, <2>1 DEF TypeOK
  <2> QED BY <1>3, <1>4, <1>5, <2>1
<1>6. ASSUME NEW v \in Workers,
             \/ Boot(v) \/ Tick(v) \/ ListExtracting(v) \/ Requeue(v)
             \/ ListRunningClaims(v) \/ FailAbandonedExecutions(v)
      PROVE  extracted'[claim'[w]]
  <2>1. PICK s \in Steps \ Held : step' = [step EXCEPT ![v] = s]
    BY <1>6 DEF Boot, Tick, ListExtracting, Requeue, ListRunningClaims,
       FailAbandonedExecutions, Goto, Steps
  <2>2. UNCHANGED claim
    BY <1>6 DEF Boot, Tick, ListExtracting, Requeue, ListRunningClaims,
       FailAbandonedExecutions
  <2> QED BY <1>5, <2>1, <2>2
<1>7. ASSUME NEW v \in Workers, NEW did, Leave(v, did) PROVE extracted'[claim'[w]]
  <2>1. \E s \in {"idle", "listing"} : step' = [step EXCEPT ![v] = s]
    BY <1>7 DEF Leave, Goto
  <2> QED BY <1>5, <1>7, <2>1 DEF Leave
<1>8. ASSUME NEW v \in Workers, HandOver(v) PROVE extracted'[claim'[w]]
  BY <1>5, <1>8 DEF HandOver, Goto
<1>9. ASSUME NEW v \in Workers, Resume(v) PROVE extracted'[claim'[w]]
  BY <1>7, <1>8, <1>9 DEF Resume
<1>10. ASSUME NEW v \in Workers, NEW r \in Runs, NEW to, NEW s, Take(v, r, to, s),
              s \in Held => status[r] = "running"
       PROVE  extracted'[claim'[w]]
  <2>1. CASE v = w
    <3>1. claim'[w] = r /\ step'[w] = s
      BY <1>10, <2>1 DEF Take, Goto, TypeOK
    <3>2. extracted[r]
      BY <1>10, <3>1 DEF ValuesOnTheWay
    <3> QED BY <3>1, <3>2, ValuesAreKept
  <2>2. CASE v # w
    BY <1>3, <1>10, <2>2 DEF Take, Goto
  <2> QED BY <2>1, <2>2
<1>11. ASSUME NEW v \in Workers, ClaimNext(v) PROVE extracted'[claim'[w]]
  <2>1. \/ Goto(v, "claimingRunnable") /\ UNCHANGED claim
        \/ \E r \in Runs : Take(v, r, "extracting", "extracting")
    BY <1>11 DEF ClaimNext, RunsOf
  <2> QED BY <2>1, <1>5, <1>10 DEF Goto
<1>12. ASSUME NEW v \in Workers, ClaimNextRunnable(v) PROVE extracted'[claim'[w]]
  <2>1. \/ Leave(v, worked[v])
        \/ \E r \in Runs : status[r] = "running" /\ Take(v, r, "running", "starting")
    BY <1>12 DEF ClaimNextRunnable, RunsOf
  <2> QED BY <2>1, <1>7, <1>10
<1>13. ASSUME NEW v \in Workers, MarkFinished(v) PROVE extracted'[claim'[w]]
  <2>1. \/ HandOver(v)
        \/ Goto(v, "starting") /\ UNCHANGED claim
    BY <1>13 DEF MarkFinished
  <2>2. CASE HandOver(v)
    BY <1>8, <2>2
  <2>3. CASE Goto(v, "starting") /\ UNCHANGED claim
    <3>1. CASE v = w
      BY <1>13, <2>3, <3>1 DEF MarkFinished, TypeOK, Working
    <3>2. CASE v # w
      BY <1>4, <2>3, <3>2 DEF Goto
    <3> QED BY <3>1, <3>2
  <2> QED BY <2>1, <2>2, <2>3
<1>14. ASSUME NEW v \in Workers, Walk(v) PROVE extracted'[claim'[w]]
  <2>1. step[v] = "starting" /\ Goto(v, "walking") /\ UNCHANGED claim
    BY <1>14 DEF Walk
  <2>2. CASE v = w
    BY <1>1, <2>1, <2>2
  <2>3. CASE v # w
    BY <1>4, <2>1, <2>3 DEF Goto
  <2> QED BY <2>2, <2>3
<1>15. ASSUME NEW v \in Workers, Crash(v) PROVE extracted'[claim'[w]]
  BY <1>5, <1>15 DEF Crash, Goto
<1> QED
  BY <1>2, <1>6, <1>7, <1>8, <1>9, <1>11, <1>12, <1>13, <1>14, <1>15
  DEF Next, Proceed, MarkFailed, FinishExecution, Unrecorded, Unreachable,
      Upload, Age, Answer, Abandon, Ask, workerVars, vars

LEMMA RequestValues ==
  ASSUME TypeOK, ValuesOnTheWay, [Next]_vars, NEW c \in Clients,
         \/ asked'[c].verb = "review"
         \/ asked'[c].verb = "retry" /\ asked'[c].extracted
  PROVE  extracted'[asked'[c].run]
<1>1. CASE asked'[c] = asked[c]
  <2>1. asked[c].run \in Runs /\ extracted[asked[c].run]
    BY <1>1 DEF TypeOK, ValuesOnTheWay
  <2> QED BY <1>1, <2>1, ValuesAreKept
<1>2. ASSUME NEW d \in Clients, asked' = [asked EXCEPT ![d] = Idle]
      PROVE  extracted'[asked'[c].run]
  <2>1. CASE c = d
    BY <1>2, <2>1 DEF TypeOK, Idle
  <2>2. CASE c # d
    BY <1>1, <1>2, <2>2 DEF TypeOK
  <2> QED BY <2>1, <2>2
<1>3. ASSUME NEW d \in Clients, NEW verb \in Verbs, NEW r \in Runs, Ask(d, verb, r)
      PROVE  extracted'[asked'[c].run]
  <2>1. CASE c = d
    <3>1. asked'[c] = [verb |-> verb, run |-> r, extracted |-> extracted[r]]
      BY <1>3, <2>1 DEF Ask, TypeOK
    <3>2. verb = "review" => status[r] = "pending_review"
      BY <1>3 DEF Ask, Allowed
    <3>3. extracted[r]
      BY <3>1, <3>2 DEF ValuesOnTheWay
    <3> QED BY <3>1, <3>3, ValuesAreKept
  <2>2. CASE c # d
    BY <1>1, <1>3, <2>2 DEF Ask, TypeOK
  <2> QED BY <2>1, <2>2
<1>4. CASE UNCHANGED asked
  BY <1>1, <1>4
<1> QED
  BY <1>2, <1>3, <1>4
  DEF Next, Proceed, Boot, Tick, ListExtracting, Requeue, ListRunningClaims,
      FailAbandonedExecutions, ClaimNext, MarkFinished, MarkFailed,
      ClaimNextRunnable, Walk, FinishExecution, Crash, Unrecorded, Unreachable,
      Mishap, Upload, Age, Answer, Abandon, vars

(* Whatever an old read, a zombie or a cancel does to its status, a run    *)
(* whose graph is walked has the values the graph works on.                *)
THEOREM ValuesInvariance == Spec => []ValuesBeforeWalk
<1>1. Init => ValuesOnTheWay
  BY DEF Init, Idle, ValuesOnTheWay
<1>2. TypeOK /\ ValuesOnTheWay /\ [Next]_vars => ValuesOnTheWay'
  <2> SUFFICES ASSUME TypeOK, ValuesOnTheWay, [Next]_vars PROVE ValuesOnTheWay'
    OBVIOUS
  <2>1. \A r \in Runs : status'[r] \in {"pending_review", "running"} => extracted'[r]
    BY RowValues
  <2>2. \A w \in Workers :
          step'[w] \in {"starting", "walking"} => extracted'[claim'[w]]
    BY WorkerValues
  <2>3. \A c \in Clients :
          \/ asked'[c].verb = "review"
          \/ asked'[c].verb = "retry" /\ asked'[c].extracted
          => extracted'[asked'[c].run]
    BY RequestValues
  <2> QED BY <2>1, <2>2, <2>3 DEF ValuesOnTheWay
<1>3. ValuesOnTheWay => ValuesBeforeWalk
  BY DEF ValuesOnTheWay, ValuesBeforeWalk
<1> QED BY <1>1, <1>2, <1>3, TypeInvariance, PTL DEF Spec
-----------------------------------------------------------------------------
(* One worker at a time. What the lock columns promise they keep when      *)
(* nothing but a crash or an unreachable database goes wrong, nobody       *)
(* cancels, no two requests act on the same run at once and no two sweeps  *)
(* are about the same row: a second one would release what a third process *)
(* claims between them.                                                    *)

Careful == Mishaps \subseteq {"crash", "unreachable"} /\ "cancel" \notin Verbs

OneAtATime ==
  /\ \A c, d \in Clients :
       c # d /\ asked[c].verb # "none" /\ asked[d].verb # "none" => asked[c].run # asked[d].run
  /\ \A v, w \in Workers : v # w => listed[v] \cap listed[w] = {}

(* A worker's claim is in the row, and the row is where the worker is.     *)
HoldsRow(w) ==
  step[w] \in Working =>
    /\ lockedBy[claim[w]] /\ lockedAt[claim[w]] = "fresh"
    /\ status[claim[w]] = IF step[w] = "extracting" THEN "extracting" ELSE "running"
    /\ step[w] # "walking" => ~spent[claim[w]]

(* What a sweep has listed stays abandoned until it is released.           *)
SweepHolds(w) ==
  \A r \in listed[w] :
    /\ ~WorkedOn(r) /\ lockedBy[r]
    /\ \/ step[w] = "requeueing" /\ status[r] = "extracting"
       \/ step[w] = "failing" /\ status[r] = "running"

(* What a request read is still so.                                        *)
AskHolds(c) ==
  \/ asked[c].verb = "none"
  \/ asked[c].verb = "review" /\ status[asked[c].run] = "pending_review"
  \/ asked[c].verb = "retry" /\ status[asked[c].run] = "failed"

(* A walked graph's run is claimed or over, and values of a run to review  *)
(* are waiting for it or reviewed.                                         *)
RowHolds(r) ==
  /\ spent[r] => status[r] \in {"succeeded", "failed"} \/ (status[r] = "running" /\ lockedBy[r])
  /\ r \in Reviewable /\ extracted[r] => reviewed[r] \/ status[r] = "pending_review"

ClaimInv ==
  /\ OneWorkerPerRun
  /\ \A w \in Workers : HoldsRow(w) /\ SweepHolds(w)
  /\ \A c \in Clients : AskHolds(c)
  /\ \A r \in Runs : RowHolds(r)

(* Who could have left a claim behind.                                     *)
Died == \E w \in Workers : step[w] = "dead"

AbandonInv ==
  /\ \A r \in Runs : lockedBy[r] /\ ~WorkedOn(r) => Died
  /\ \A w \in Workers : listed[w] # {} => Died

(* What a step may do to a row.                                            *)
HistoryStays(r) ==
  extracted'[r] = extracted[r] /\ reviewed'[r] = reviewed[r] /\ spent'[r] = spent[r]

Untouched(r) ==
  /\ HistoryStays(r) /\ status'[r] = status[r]
  /\ lockedBy'[r] = lockedBy[r] /\ lockedAt'[r] = lockedAt[r]

Aged(r) ==
  /\ HistoryStays(r) /\ status'[r] = status[r] /\ lockedBy'[r] = lockedBy[r] /\ ~WorkedOn(r)

Uploaded(r) ==
  HistoryStays(r) /\ status[r] = "absent" /\ status'[r] = "queued" /\ ~lockedBy'[r]

Taken(r) ==
  /\ HistoryStays(r) /\ lockedBy'[r]
  /\ \/ status[r] = "queued" /\ status'[r] = "extracting"
     \/ status[r] = "running" /\ ~lockedBy[r] /\ status'[r] = "running"
  /\ \E w \in Workers : step'[w] \in Working /\ claim'[w] = r

Swept(r, w) ==
  /\ r \in listed[w] /\ listed'[w] = {}
  /\ HistoryStays(r) /\ ~lockedBy'[r]
  /\ \/ status[r] = "extracting" /\ status'[r] = "queued"
     \/ status[r] = "running" /\ status'[r] = "failed"

Extracted(r, w) ==
  /\ step[w] = "extracting" /\ claim[w] = r /\ step'[w] # step[w]
  /\ spent'[r] = spent[r] /\ reviewed'[r] = reviewed[r]
  /\ lockedBy'[r] => lockedBy[r]
  /\ \/ r \in Reviewable /\ status'[r] = "pending_review"
     \/ r \notin Reviewable /\ status'[r] = "running"
     \/ status'[r] = "failed" /\ extracted'[r] = extracted[r]

Walked(r, w) ==
  /\ step[w] = "starting" /\ claim[w] = r /\ step'[w] = "walking"
  /\ status'[r] = status[r] /\ lockedBy'[r] = lockedBy[r]
  /\ extracted'[r] = extracted[r] /\ reviewed'[r] = reviewed[r]

Executed(r, w) ==
  /\ step[w] \in {"starting", "walking"} /\ claim[w] = r /\ step'[w] # step[w]
  /\ HistoryStays(r) /\ ~lockedBy'[r] /\ status'[r] \in {"succeeded", "failed"}

Answered(r, c) ==
  /\ asked[c].verb # "none" /\ asked[c].run = r /\ asked'[c] = Idle
  /\ extracted'[r] = extracted[r] /\ ~lockedBy'[r]
  /\ \/ asked[c].verb = "review" /\ reviewed'[r] /\ spent'[r] = spent[r]
        /\ status'[r] = "running"
     \/ asked[c].verb = "retry" /\ reviewed'[r] = reviewed[r] /\ ~spent'[r]
        /\ status'[r] \in {"running", "queued"}

RowStep(r) ==
  \/ Untouched(r) \/ Aged(r) \/ Uploaded(r) \/ Taken(r)
  \/ \E w \in Workers : Swept(r, w) \/ Extracted(r, w) \/ Walked(r, w) \/ Executed(r, w)
  \/ \E c \in Clients : Answered(r, c)

(* A visit that ends moves its worker out of Working.                      *)
LEMMA LeaveMoves ==
  ASSUME TypeOK, NEW w \in Workers, NEW did, Leave(w, did)
  PROVE  /\ step'[w] \in {"idle", "listing"} /\ listed'[w] = {}
         /\ \A v \in Workers : v # w => /\ step'[v] = step[v] /\ claim'[v] = claim[v]
                                        /\ listed'[v] = listed[v]
<1>1. \E s \in {"idle", "listing"} : step' = [step EXCEPT ![w] = s]
  BY DEF Leave, Goto
<1>2. listed' = [listed EXCEPT ![w] = {}] /\ claim' = [claim EXCEPT ![w] = None]
  BY DEF Leave
<1>. QED BY <1>1, <1>2 DEF TypeOK

LEMMA HandOverMoves ==
  ASSUME TypeOK, NEW w \in Workers, HandOver(w), UNCHANGED listed
  PROVE  /\ step'[w] = "claimingRunnable" /\ listed'[w] = listed[w]
         /\ \A v \in Workers : v # w => /\ step'[v] = step[v] /\ claim'[v] = claim[v]
                                        /\ listed'[v] = listed[v]
  BY DEF HandOver, Goto, TypeOK

LEMMA ResumeMoves ==
  ASSUME TypeOK, NEW w \in Workers, Resume(w)
  PROVE  /\ step'[w] \in {"idle", "listing", "claimingRunnable"}
         /\ listed'[w] \in {{}, listed[w]}
         /\ \A v \in Workers : v # w => /\ step'[v] = step[v] /\ claim'[v] = claim[v]
                                        /\ listed'[v] = listed[v]
<1>1. CASE inline[w]
  BY <1>1, HandOverMoves DEF Resume
<1>2. CASE ~inline[w]
  BY <1>2, LeaveMoves DEF Resume
<1>. QED BY <1>1, <1>2

(* Every step does one of these to a row.                                  *)
LEMMA RowSteps ==
  ASSUME TypeOK, Careful, [Next]_vars, NEW r \in Runs
  PROVE  RowStep(r)
<1>1. CASE UNCHANGED rowVars
  BY <1>1 DEF rowVars, RowStep, Untouched, HistoryStays
<1>2. ASSUME NEW q \in Runs, NEW to, NEW by, NEW at, Write(q, to, by, at)
      PROVE  /\ status'[q] = to /\ lockedBy'[q] = by
             /\ r # q => /\ status'[r] = status[r] /\ lockedBy'[r] = lockedBy[r]
                         /\ lockedAt'[r] = lockedAt[r]
  BY <1>2 DEF Write, TypeOK
<1>3. ASSUME UNCHANGED <<extracted, reviewed, spent>> PROVE HistoryStays(r)
  BY <1>3 DEF HistoryStays
<1>4. ASSUME NEW w \in Workers, Requeue(w) PROVE RowStep(r)
  <2>1. HistoryStays(r) /\ listed'[w] = {}
    BY <1>3, <1>4 DEF Requeue, TypeOK
  <2>2. CASE r \in listed[w] /\ status[r] = "extracting"
    BY <1>4, <2>1, <2>2 DEF Requeue, ReleaseAll, RowStep, Swept
  <2>3. CASE ~(r \in listed[w] /\ status[r] = "extracting")
    BY <1>4, <2>1, <2>3 DEF Requeue, ReleaseAll, RowStep, Untouched, TypeOK
  <2>. QED BY <2>2, <2>3
<1>5. ASSUME NEW w \in Workers, FailAbandonedExecutions(w) PROVE RowStep(r)
  <2>1. HistoryStays(r) /\ listed'[w] = {}
    BY <1>3, <1>5 DEF FailAbandonedExecutions, TypeOK
  <2>2. CASE r \in listed[w] /\ status[r] = "running"
    BY <1>5, <2>1, <2>2 DEF FailAbandonedExecutions, ReleaseAll, RowStep, Swept
  <2>3. CASE ~(r \in listed[w] /\ status[r] = "running")
    BY <1>5, <2>1, <2>3 DEF FailAbandonedExecutions, ReleaseAll, RowStep, Untouched, TypeOK
  <2>. QED BY <2>2, <2>3
<1>6. ASSUME NEW w \in Workers, NEW q \in Runs, NEW to, NEW s \in Working, Take(w, q, to, s),
             \/ status[q] = "queued" /\ to = "extracting"
             \/ status[q] = "running" /\ ~lockedBy[q] /\ to = "running",
             UNCHANGED <<extracted, reviewed, spent>>
      PROVE  RowStep(r)
  <2>1. step'[w] = s /\ claim'[w] = q /\ Write(q, to, TRUE, "fresh")
    BY <1>6 DEF Take, Goto, TypeOK
  <2>2. CASE r = q
    BY <1>2, <1>3, <1>6, <2>1, <2>2 DEF RowStep, Taken
  <2>3. CASE r # q
    BY <1>2, <1>3, <1>6, <2>1, <2>3 DEF RowStep, Untouched
  <2>. QED BY <2>2, <2>3
<1>7. ASSUME NEW w \in Workers, ClaimNext(w) PROVE RowStep(r)
  <2>1. \/ UNCHANGED rowVars
        \/ \E q \in Runs : status[q] = "queued" /\ Take(w, q, "extracting", "extracting")
    BY <1>7 DEF ClaimNext, RunsOf, rowVars
  <2>2. UNCHANGED <<extracted, reviewed, spent>> /\ "extracting" \in Working
    BY <1>7 DEF ClaimNext, Working
  <2>. QED BY <1>1, <1>6, <2>1, <2>2
<1>8. ASSUME NEW w \in Workers, ClaimNextRunnable(w) PROVE RowStep(r)
  <2>1. \/ UNCHANGED rowVars
        \/ \E q \in Runs : /\ status[q] = "running" /\ ~lockedBy[q]
                           /\ Take(w, q, "running", "starting")
    BY <1>8 DEF ClaimNextRunnable, RunsOf, rowVars
  <2>2. UNCHANGED <<extracted, reviewed, spent>> /\ "starting" \in Working
    BY <1>8 DEF ClaimNextRunnable, Working
  <2>. QED BY <1>1, <1>6, <2>1, <2>2
<1>9. ASSUME NEW w \in Workers, NEW q \in Runs, q = claim[w], step[w] = "extracting",
             MarkFinished(w) \/ MarkFailed(w)
      PROVE  RowStep(r)
  <2>1. step'[w] # step[w]
    BY <1>9 DEF MarkFinished, MarkFailed, HandOver, Goto, TypeOK
  <2>2. UNCHANGED <<reviewed, spent>> /\ extracted' \in [Runs -> BOOLEAN]
        /\ \A p \in Runs : p # q => extracted'[p] = extracted[p]
    BY <1>9 DEF MarkFinished, MarkFailed, TypeOK
  <2>3. \/ q \in Reviewable /\ Write(q, "pending_review", FALSE, "null")
        \/ q \notin Reviewable /\ Write(q, "running", lockedBy[q], "fresh")
        \/ Write(q, "failed", FALSE, "null") /\ UNCHANGED extracted
    BY <1>9 DEF MarkFinished, MarkFailed, Release
  <2>4. CASE r = q
    <3>1. /\ lockedBy'[r] => lockedBy[r]
          /\ \/ r \in Reviewable /\ status'[r] = "pending_review"
             \/ r \notin Reviewable /\ status'[r] = "running"
             \/ status'[r] = "failed" /\ extracted'[r] = extracted[r]
      BY <1>2, <2>3, <2>4
    <3>. QED BY <1>9, <2>1, <2>2, <2>4, <3>1 DEF RowStep, Extracted
  <2>5. CASE r # q
    <3>1. status'[r] = status[r] /\ lockedBy'[r] = lockedBy[r] /\ lockedAt'[r] = lockedAt[r]
      BY <1>2, <2>3, <2>5
    <3>. QED BY <2>2, <2>5, <3>1 DEF RowStep, Untouched, HistoryStays
  <2>. QED BY <2>4, <2>5
<1>10. ASSUME NEW w \in Workers, NEW q \in Runs, q = claim[w], Walk(w) PROVE RowStep(r)
  <2>1. step'[w] = "walking" /\ step[w] = "starting"
    BY <1>10 DEF Walk, Goto, TypeOK
  <2>2. CASE r = q
    BY <1>10, <2>1, <2>2 DEF Walk, RowStep, Walked
  <2>3. CASE r # q
    BY <1>10, <2>3 DEF Walk, RowStep, Untouched, HistoryStays, TypeOK
  <2>. QED BY <2>2, <2>3
<1>11. ASSUME NEW w \in Workers, NEW q \in Runs, q = claim[w], FinishExecution(w) PROVE RowStep(r)
  <2>1. PICK outcome \in {"succeeded", "failed"} : Write(q, outcome, FALSE, "null")
    BY <1>11 DEF FinishExecution, Release
  <2>2. HistoryStays(r) /\ step[w] \in {"starting", "walking"} /\ step'[w] # step[w]
    BY <1>3, <1>11, ResumeMoves DEF FinishExecution
  <2>3. CASE r = q
    BY <1>2, <1>11, <2>1, <2>2, <2>3 DEF RowStep, Executed
  <2>4. CASE r # q
    BY <1>2, <2>1, <2>2, <2>4 DEF RowStep, Untouched
  <2>. QED BY <2>3, <2>4
<1>12. ASSUME NEW w \in Workers, step[w] \in Working PROVE claim[w] \in Runs
  BY <1>12 DEF TypeOK
<1>13. ASSUME NEW q \in Runs, Upload(q) PROVE RowStep(r)
  <2>1. Write(q, "queued", FALSE, "null") /\ status[q] = "absent"
        /\ UNCHANGED <<extracted, reviewed, spent>>
    BY <1>13 DEF Upload, Release
  <2>2. CASE r = q
    BY <1>2, <1>3, <2>1, <2>2 DEF RowStep, Uploaded
  <2>3. CASE r # q
    BY <1>2, <1>3, <2>1, <2>3 DEF RowStep, Untouched
  <2>. QED BY <2>2, <2>3
<1>14. ASSUME NEW q \in Runs, Age(q) PROVE RowStep(r)
  <2>1. ~WorkedOn(q)
    BY <1>14 DEF Age, Careful
  <2>2. CASE r = q
    BY <1>14, <2>1, <2>2 DEF Age, RowStep, Aged, HistoryStays
  <2>3. CASE r # q
    BY <1>14, <2>3 DEF Age, RowStep, Untouched, HistoryStays, TypeOK
  <2>. QED BY <2>2, <2>3
<1>15. ASSUME NEW c \in Clients, Answer(c) PROVE RowStep(r)
  <2> DEFINE q == asked[c].run
  <2>1. asked[c].verb \in {"review", "retry"} /\ q \in Runs /\ asked'[c] = Idle
    BY <1>15 DEF Answer, TypeOK, Careful
  <2>2. UNCHANGED extracted
    BY <1>15 DEF Answer
  <2>3. \/ /\ asked[c].verb = "review" /\ Write(q, "running", FALSE, "null")
           /\ reviewed' = [reviewed EXCEPT ![q] = TRUE] /\ UNCHANGED spent
        \/ /\ asked[c].verb = "retry"
           /\ \E to \in {"running", "queued"} : Write(q, to, FALSE, "null")
           /\ spent' = [spent EXCEPT ![q] = FALSE] /\ UNCHANGED reviewed
    BY <1>15, <2>1 DEF Answer, Release
  <2> HIDE DEF q
  <2>4. CASE r = q
    <3>1. asked[c].run = r
      BY <2>4 DEF q
    <3>2. CASE /\ asked[c].verb = "review" /\ Write(q, "running", FALSE, "null")
               /\ reviewed' = [reviewed EXCEPT ![q] = TRUE] /\ UNCHANGED spent
      <4>1. status'[r] = "running" /\ ~lockedBy'[r] /\ reviewed'[r] /\ spent'[r] = spent[r]
        BY <1>2, <2>1, <2>4, <3>2 DEF TypeOK
      <4>. QED BY <2>1, <2>2, <3>1, <3>2, <4>1 DEF RowStep, Answered
    <3>3. CASE /\ asked[c].verb = "retry"
               /\ \E to \in {"running", "queued"} : Write(q, to, FALSE, "null")
               /\ spent' = [spent EXCEPT ![q] = FALSE] /\ UNCHANGED reviewed
      <4>1. /\ status'[r] \in {"running", "queued"} /\ ~lockedBy'[r]
            /\ reviewed'[r] = reviewed[r] /\ ~spent'[r]
        BY <1>2, <2>1, <2>4, <3>3 DEF TypeOK
      <4>. QED BY <2>1, <2>2, <3>1, <3>3, <4>1 DEF RowStep, Answered
    <3>. QED BY <2>3, <3>2, <3>3
  <2>5. CASE r # q
    <3>1. status'[r] = status[r] /\ lockedBy'[r] = lockedBy[r] /\ lockedAt'[r] = lockedAt[r]
      BY <1>2, <2>1, <2>3, <2>5
    <3>2. HistoryStays(r)
      BY <2>1, <2>2, <2>3, <2>5 DEF HistoryStays, TypeOK
    <3>. QED BY <3>1, <3>2 DEF RowStep, Untouched
  <2>. QED BY <2>4, <2>5
<1>16. ASSUME NEW w \in Workers,
              \/ Boot(w) \/ Tick(w) \/ ListExtracting(w) \/ ListRunningClaims(w)
              \/ Crash(w) \/ Unrecorded(w) \/ Unreachable(w)
       PROVE  UNCHANGED rowVars
  BY <1>16 DEF Boot, Tick, ListExtracting, ListRunningClaims, Crash, Unrecorded, Unreachable
<1>17. ASSUME NEW c \in Clients,
              Abandon(c) \/ \E verb \in Verbs, q \in Runs : Ask(c, verb, q)
       PROVE  UNCHANGED rowVars
  BY <1>17 DEF Abandon, Ask
<1>18. CASE UNCHANGED vars
  BY <1>1, <1>18 DEF vars
<1>19. ASSUME NEW w \in Workers, MarkFinished(w) \/ MarkFailed(w) \/ Walk(w) \/ FinishExecution(w)
       PROVE  RowStep(r)
  BY <1>9, <1>10, <1>11, <1>12, <1>19
  DEF MarkFinished, MarkFailed, Walk, FinishExecution, Working
<1>. QED
  BY <1>1, <1>4, <1>5, <1>7, <1>8, <1>13, <1>14, <1>15, <1>16, <1>17, <1>18, <1>19
  DEF Next, Proceed

(* What a step may do to a worker.                                         *)
Stays(w) == step'[w] = step[w] /\ claim'[w] = claim[w] /\ listed'[w] = listed[w]

Clears(w) ==
  \/ listed'[w] = {}
  \/ listed'[w] = listed[w] /\ step[w] \notin {"requeueing", "failing"}

Rests(w) ==
  /\ step'[w] \notin Working /\ Clears(w) /\ step[w] # "dead"
  /\ step[w] \in Working => step'[w] = "dead" \/ ~lockedBy'[claim[w]]

Lists(w) ==
  /\ UNCHANGED rowVars /\ step[w] \notin Working \cup {"dead"}
  /\ step'[w] \in {"requeueing", "failing"}
  /\ \A r \in listed'[w] :
       /\ lockedAt[r] # "fresh"
       /\ status[r] = IF step'[w] = "requeueing" THEN "extracting" ELSE "running"
       /\ step'[w] = "failing" => lockedBy[r]

Takes(w) ==
  /\ Clears(w) /\ step[w] \notin Working \cup {"dead"} /\ claim'[w] \in Runs
  /\ HistoryStays(claim'[w]) /\ lockedBy'[claim'[w]] /\ lockedAt'[claim'[w]] = "fresh"
  /\ \/ /\ step'[w] = "extracting"
        /\ status[claim'[w]] = "queued" /\ status'[claim'[w]] = "extracting"
     \/ /\ step'[w] = "starting" /\ ~lockedBy[claim'[w]]
        /\ status[claim'[w]] = "running" /\ status'[claim'[w]] = "running"

GoesOn(w) ==
  /\ Clears(w) /\ claim'[w] = claim[w] /\ claim[w] \in Runs
  /\ lockedBy'[claim[w]] = lockedBy[claim[w]]
  /\ \/ /\ step[w] = "extracting" /\ step'[w] = "starting"
        /\ spent'[claim[w]] = spent[claim[w]]
        /\ status'[claim[w]] = "running" /\ lockedAt'[claim[w]] = "fresh"
     \/ /\ step[w] = "starting" /\ step'[w] = "walking"
        /\ status'[claim[w]] = status[claim[w]] /\ lockedAt'[claim[w]] = lockedAt[claim[w]]

WorkerStep(w) == Stays(w) \/ Rests(w) \/ Lists(w) \/ Takes(w) \/ GoesOn(w)

(* Every step does one of these to a worker, and nothing to another.       *)
LEMMA WorkerSteps ==
  ASSUME TypeOK, Careful, [Next]_vars
  PROVE  /\ \A w \in Workers : WorkerStep(w)
         /\ \A v, w \in Workers : v # w => Stays(v) \/ Stays(w)
<1> DEFINE Goal == /\ \A w \in Workers : WorkerStep(w)
                   /\ \A v, w \in Workers : v # w => Stays(v) \/ Stays(w)
<1>1. CASE UNCHANGED workerVars
  BY <1>1 DEF workerVars, WorkerStep, Stays
<1>2. ASSUME NEW w \in Workers, WorkerStep(w),
             \A v \in Workers : v # w => /\ step'[v] = step[v] /\ claim'[v] = claim[v]
                                         /\ listed'[v] = listed[v]
      PROVE  Goal
  <2>1. \A v \in Workers : v # w => Stays(v)
    BY <1>2 DEF Stays
  <2>. QED BY <1>2, <2>1 DEF WorkerStep
<1>3. ASSUME NEW w \in Workers, NEW s, Goto(w, s)
      PROVE  step'[w] = s /\ \A v \in Workers : v # w => step'[v] = step[v]
  BY <1>3 DEF Goto, TypeOK
<1>4. ASSUME NEW q \in Runs, NEW to, NEW by, NEW at, Write(q, to, by, at)
      PROVE  status'[q] = to /\ lockedBy'[q] = by /\ lockedAt'[q] = at
  BY <1>4 DEF Write, TypeOK
<1>5. ASSUME NEW w \in Workers, Boot(w) \/ Tick(w) PROVE Goal
  <2>1. step[w] \in {"off", "idle"} /\ UNCHANGED <<claim, listed>>
        /\ \E s \in {"idle", "listing"} : Goto(w, s)
    BY <1>5 DEF Boot, Tick
  <2>2. Rests(w)
    BY <1>3, <2>1 DEF Rests, Clears, Working
  <2>. QED BY <1>2, <1>3, <2>1, <2>2 DEF WorkerStep
<1>6. ASSUME NEW w \in Workers, ListExtracting(w) \/ ListRunningClaims(w) PROVE Goal
  <2>1. /\ UNCHANGED rowVars /\ UNCHANGED claim /\ step[w] \in {"listing", "listingRunning"}
        /\ \A v \in Workers : v # w => listed'[v] = listed[v]
        /\ \E s \in Steps : Goto(w, s)
    BY <1>6 DEF ListExtracting, ListRunningClaims, TypeOK, Steps
  <2>2. \/ listed'[w] = {} /\ step'[w] \in {"listingRunning", "claiming"}
        \/ /\ step'[w] \in {"requeueing", "failing"}
           /\ \A r \in listed'[w] :
                /\ IsStaleLock(r)
                /\ status[r] = IF step'[w] = "requeueing" THEN "extracting" ELSE "running"
                /\ step'[w] = "failing" => lockedBy[r]
    <3>1. CASE ListExtracting(w)
      <4>1. listed'[w] = {r \in RunsOf(w) : status[r] = "extracting" /\ IsStaleLock(r)}
        BY <3>1 DEF ListExtracting, TypeOK
      <4>2. step'[w] = IF listed'[w] = {} THEN "listingRunning" ELSE "requeueing"
        BY <1>3, <3>1, <4>1 DEF ListExtracting
      <4>. QED BY <4>1, <4>2
    <3>2. CASE ListRunningClaims(w)
      <4>1. listed'[w] = {r \in RunsOf(w) : status[r] = "running" /\ lockedBy[r] /\ IsStaleLock(r)}
        BY <3>2 DEF ListRunningClaims, TypeOK
      <4>2. step'[w] = IF listed'[w] = {} THEN "claiming" ELSE "failing"
        BY <1>3, <3>2, <4>1 DEF ListRunningClaims
      <4>. QED BY <4>1, <4>2
    <3>. QED BY <1>6, <3>1, <3>2
  <2>3. Rests(w) \/ Lists(w)
    BY <2>1, <2>2 DEF Rests, Lists, Clears, Working, IsStaleLock
  <2>. QED BY <1>2, <1>3, <2>1, <2>3 DEF WorkerStep
<1>7. ASSUME NEW w \in Workers, Requeue(w) \/ FailAbandonedExecutions(w) PROVE Goal
  <2>1. /\ UNCHANGED claim /\ step[w] \in {"requeueing", "failing"}
        /\ listed' = [listed EXCEPT ![w] = {}]
        /\ \E s \in {"listingRunning", "claiming"} : Goto(w, s)
    BY <1>7 DEF Requeue, FailAbandonedExecutions
  <2>2. /\ listed'[w] = {} /\ \A v \in Workers : v # w => listed'[v] = listed[v]
    BY <2>1 DEF TypeOK
  <2>3. step'[w] \in {"listingRunning", "claiming"}
    BY <1>3, <2>1
  <2>4. Rests(w)
    <3>1. Clears(w)
      BY <2>2 DEF Clears
    <3>2. step[w] \notin Working /\ step'[w] \notin Working /\ step[w] # "dead"
      BY <2>1, <2>3 DEF Working
    <3>. QED BY <3>1, <3>2 DEF Rests
  <2>. QED BY <1>2, <1>3, <2>1, <2>2, <2>4 DEF WorkerStep
<1>8. ASSUME NEW w \in Workers, NEW did, step[w] \notin Working, step[w] # "dead", Leave(w, did)
      PROVE  Goal
  <2>1. Rests(w)
    <3>1. step'[w] \in {"idle", "listing"} /\ listed'[w] = {}
      BY <1>8, LeaveMoves
    <3>2. Clears(w) /\ step'[w] \notin Working
      BY <3>1 DEF Clears, Working
    <3>. QED BY <1>8, <3>2 DEF Rests
  <2>. QED BY <1>2, <1>8, <2>1, LeaveMoves DEF WorkerStep
<1>9. ASSUME NEW w \in Workers, NEW q \in Runs, NEW to, NEW s, Take(w, q, to, s),
             UNCHANGED <<extracted, reviewed, spent, listed>>,
             \/ /\ step[w] = "claiming" /\ status[q] = "queued"
                /\ to = "extracting" /\ s = "extracting"
             \/ /\ step[w] = "claimingRunnable" /\ status[q] = "running" /\ ~lockedBy[q]
                /\ to = "running" /\ s = "starting"
      PROVE  Goal
  <2>1. step'[w] = s /\ claim'[w] = q /\ Write(q, to, TRUE, "fresh")
        /\ \A v \in Workers : v # w => step'[v] = step[v] /\ claim'[v] = claim[v]
    BY <1>9 DEF Take, Goto, TypeOK
  <2>2. Takes(w)
    <3>1. Clears(w) /\ step[w] \notin Working \cup {"dead"}
      BY <1>9 DEF Clears, Working
    <3>2. HistoryStays(q)
      BY <1>9 DEF HistoryStays
    <3>3. status'[q] = to /\ lockedBy'[q] /\ lockedAt'[q] = "fresh"
      BY <2>1 DEF Write, TypeOK
    <3>4. \/ step'[w] = "extracting" /\ status[q] = "queued" /\ status'[q] = "extracting"
          \/ /\ step'[w] = "starting" /\ ~lockedBy[q]
             /\ status[q] = "running" /\ status'[q] = "running"
      BY <1>9, <2>1, <3>3
    <3>5. claim'[w] = q
      BY <2>1
    <3>. QED BY <3>1, <3>2, <3>3, <3>4, <3>5 DEF Takes, HistoryStays
  <2>. QED BY <1>2, <1>9, <2>1, <2>2 DEF WorkerStep
<1>10. ASSUME NEW w \in Workers, ClaimNext(w) PROVE Goal
  <2>1. \/ Goto(w, "claimingRunnable") /\ UNCHANGED claim
        \/ \E q \in Runs : status[q] = "queued" /\ Take(w, q, "extracting", "extracting")
    BY <1>10 DEF ClaimNext, RunsOf
  <2>2. UNCHANGED <<extracted, reviewed, spent, listed>> /\ step[w] = "claiming"
    BY <1>10 DEF ClaimNext
  <2>3. CASE Goto(w, "claimingRunnable") /\ UNCHANGED claim
    <3>1. Rests(w)
      BY <1>3, <2>2, <2>3 DEF Rests, Clears, Working
    <3>. QED BY <1>2, <1>3, <2>2, <2>3, <3>1 DEF WorkerStep
  <2>. QED BY <1>9, <2>1, <2>2, <2>3
<1>11. ASSUME NEW w \in Workers, ClaimNextRunnable(w) PROVE Goal
  <2>1. \/ Leave(w, worked[w])
        \/ \E q \in Runs : /\ status[q] = "running" /\ ~lockedBy[q]
                           /\ Take(w, q, "running", "starting") /\ UNCHANGED listed
    BY <1>11 DEF ClaimNextRunnable, RunsOf
  <2>2. UNCHANGED <<extracted, reviewed, spent>> /\ step[w] = "claimingRunnable"
    BY <1>11 DEF ClaimNextRunnable
  <2>. QED BY <1>8, <1>9, <2>1, <2>2 DEF Working
<1>12. ASSUME NEW w \in Workers, NEW q \in Runs, q = claim[w], step[w] = "extracting",
              MarkFinished(w) \/ MarkFailed(w)
       PROVE  Goal
  <2>1. UNCHANGED <<listed, spent>>
    BY <1>12 DEF MarkFinished, MarkFailed
  <2>2. \/ HandOver(w) /\ \E to : Write(q, to, FALSE, "null")
        \/ Goto(w, "starting") /\ UNCHANGED claim /\ Write(q, "running", lockedBy[q], "fresh")
    BY <1>12 DEF MarkFinished, MarkFailed, Release
  <2>3. CASE HandOver(w) /\ \E to : Write(q, to, FALSE, "null")
    <3>1. ~lockedBy'[q]
      BY <1>4, <2>3
    <3>2. Rests(w)
      BY <1>12, <2>1, <2>3, <3>1, HandOverMoves DEF Rests, Clears, Working
    <3>. QED BY <1>2, <2>1, <2>3, <3>2, HandOverMoves DEF WorkerStep
  <2>4. CASE Goto(w, "starting") /\ UNCHANGED claim /\ Write(q, "running", lockedBy[q], "fresh")
    <3>1. /\ status'[q] = "running" /\ lockedBy'[q] = lockedBy[q] /\ lockedAt'[q] = "fresh"
          /\ step'[w] = "starting" /\ claim'[w] = q
      BY <1>3, <1>4, <1>12, <2>4
    <3>2. GoesOn(w)
      BY <1>12, <2>1, <3>1 DEF GoesOn, Clears
    <3>. QED BY <1>2, <1>3, <2>1, <2>4, <3>2 DEF WorkerStep
  <2>. QED BY <2>2, <2>3, <2>4
<1>13. ASSUME NEW w \in Workers, NEW q \in Runs, q = claim[w], Walk(w) PROVE Goal
  <2>1. GoesOn(w)
    BY <1>3, <1>13 DEF Walk, GoesOn, Clears
  <2>. QED BY <1>2, <1>3, <1>13, <2>1 DEF Walk, WorkerStep
<1>14. ASSUME NEW w \in Workers, NEW q \in Runs, q = claim[w], FinishExecution(w) PROVE Goal
  <2>1. PICK outcome \in {"succeeded", "failed"} : Write(q, outcome, FALSE, "null")
    BY <1>14 DEF FinishExecution, Release
  <2>2. ~lockedBy'[q] /\ step[w] \in {"starting", "walking"}
    BY <1>4, <1>14, <2>1 DEF FinishExecution
  <2>3. Rests(w)
    BY <1>14, <2>2, ResumeMoves DEF FinishExecution, Rests, Clears, Working
  <2>. QED BY <1>2, <1>14, <2>3, ResumeMoves DEF FinishExecution, WorkerStep
<1>15. ASSUME NEW w \in Workers, MarkFinished(w) \/ MarkFailed(w) \/ Walk(w) \/ FinishExecution(w)
       PROVE  Goal
  <2>1. step[w] \in Working
    BY <1>15 DEF MarkFinished, MarkFailed, Walk, FinishExecution, Working
  <2>2. claim[w] \in Runs
    BY <2>1 DEF TypeOK
  <2>. QED BY <1>12, <1>13, <1>14, <1>15, <2>2 DEF MarkFinished, MarkFailed
<1>16. ASSUME NEW w \in Workers, Crash(w) PROVE Goal
  <2>1. /\ step' = [step EXCEPT ![w] = "dead"] /\ step[w] # "dead"
        /\ claim' = [claim EXCEPT ![w] = None] /\ listed' = [listed EXCEPT ![w] = {}]
    BY <1>16 DEF Crash, Goto
  <2>2. /\ step'[w] = "dead" /\ listed'[w] = {}
        /\ \A v \in Workers : v # w => /\ step'[v] = step[v] /\ claim'[v] = claim[v]
                                       /\ listed'[v] = listed[v]
    BY <2>1 DEF TypeOK
  <2>3. Rests(w)
    <3>1. Clears(w) /\ step'[w] \notin Working
      BY <2>2 DEF Clears, Working
    <3>. QED BY <2>1, <2>2, <3>1 DEF Rests
  <2>. QED BY <1>2, <2>2, <2>3 DEF WorkerStep
<1>17. ASSUME NEW w \in Workers, Unrecorded(w) PROVE Goal
  BY <1>17 DEF Unrecorded, Mishap, Careful
<1>18. ASSUME NEW w \in Workers, Unreachable(w) PROVE Goal
  BY <1>8, <1>18 DEF Unreachable, Working
<1>19. ASSUME NEW r \in Runs, Upload(r) \/ Age(r) PROVE Goal
  BY <1>1, <1>19 DEF Upload, Age
<1>20. ASSUME NEW c \in Clients,
              \/ Answer(c) \/ Abandon(c)
              \/ \E verb \in Verbs, r \in Runs : Ask(c, verb, r)
       PROVE  Goal
  BY <1>1, <1>20 DEF Answer, Abandon, Ask
<1>21. CASE UNCHANGED vars
  BY <1>1, <1>21 DEF vars
<1>. QED
  BY <1>5, <1>6, <1>7, <1>10, <1>11, <1>15, <1>16, <1>17, <1>18, <1>19, <1>20, <1>21
  DEF Next, Proceed

(* ... and to a request.                                                   *)
LEMMA ClientSteps ==
  ASSUME TypeOK, [Next]_vars, NEW c \in Clients
  PROVE  \/ asked'[c] = asked[c]
         \/ asked'[c].verb = "none"
         \/ /\ UNCHANGED rowVars
            /\ \/ asked'[c].verb = "cancel"
               \/ asked'[c].verb = "review" /\ status[asked'[c].run] = "pending_review"
               \/ asked'[c].verb = "retry" /\ status[asked'[c].run] = "failed"
<1>1. CASE UNCHANGED asked
  BY <1>1
<1>2. ASSUME NEW d \in Clients, asked' = [asked EXCEPT ![d] = Idle]
      PROVE  asked'[c] = asked[c] \/ asked'[c].verb = "none"
  BY <1>2 DEF TypeOK, Idle
<1>3. ASSUME NEW d \in Clients, NEW verb \in Verbs, NEW r \in Runs, Ask(d, verb, r)
      PROVE  \/ asked'[c] = asked[c]
             \/ /\ UNCHANGED rowVars
                /\ \/ asked'[c].verb = "cancel"
                   \/ asked'[c].verb = "review" /\ status[asked'[c].run] = "pending_review"
                   \/ asked'[c].verb = "retry" /\ status[asked'[c].run] = "failed"
  <2>1. verb \in {"review", "retry", "cancel"} /\ UNCHANGED rowVars
    BY <1>3, RunsAssumption DEF Ask
  <2>2. CASE c = d
    <3>1. asked'[c] = [verb |-> verb, run |-> r, extracted |-> extracted[r]]
      BY <1>3, <2>2 DEF Ask, TypeOK
    <3>2. /\ verb = "review" => status[r] = "pending_review"
          /\ verb = "retry" => status[r] = "failed"
      BY <1>3 DEF Ask, Allowed
    <3>. QED BY <2>1, <3>1, <3>2
  <2>3. CASE c # d
    BY <1>3, <2>3 DEF Ask, TypeOK
  <2>. QED BY <2>2, <2>3
<1>. QED
  BY <1>1, <1>2, <1>3
  DEF Next, Proceed, Boot, Tick, ListExtracting, Requeue, ListRunningClaims,
      FailAbandonedExecutions, ClaimNext, MarkFinished, MarkFailed,
      ClaimNextRunnable, Walk, FinishExecution, Crash, Unrecorded, Unreachable,
      Mishap, Upload, Age, Answer, Abandon, vars

(* A row whose worker goes on with it is left alone.                       *)
LEMMA HeldRowStays ==
  ASSUME TypeOK, Careful, ClaimInv, [Next]_vars,
         NEW w \in Workers, step[w] \in Working, Stays(w)
  PROVE  Untouched(claim[w])
<1> DEFINE r == claim[w]
<1>0. r \in Runs /\ WorkedOn(r)
  BY DEF TypeOK, WorkedOn
<1>1. lockedBy[r] /\ status[r] \in {"extracting", "running"}
  BY DEF ClaimInv, HoldsRow
<1> HIDE DEF r
<1>2. RowStep(r)
  BY <1>0, RowSteps
<1>3. ~Aged(r) /\ ~Uploaded(r) /\ ~Taken(r)
  BY <1>0, <1>1 DEF Aged, Uploaded, Taken
<1>4. ASSUME NEW v \in Workers
      PROVE  ~Swept(r, v) /\ ~Extracted(r, v) /\ ~Walked(r, v) /\ ~Executed(r, v)
  <2>1. ~Swept(r, v)
    BY <1>0 DEF Swept, ClaimInv, SweepHolds
  <2>2. step[v] \in Working /\ claim[v] = r => v = w
    BY DEF ClaimInv, OneWorkerPerRun, r
  <2>. QED BY <2>1, <2>2 DEF Extracted, Walked, Executed, Working, Stays
<1>5. ASSUME NEW c \in Clients PROVE ~Answered(r, c)
  BY <1>1 DEF Answered, ClaimInv, AskHolds
<1>. QED BY <1>2, <1>3, <1>4, <1>5 DEF RowStep, r

(* Nobody begins to work on a claimed row.                                 *)
LEMMA NobodyBegins ==
  ASSUME TypeOK, Careful, [Next]_vars, NEW r \in Runs, lockedBy[r], status[r] # "queued",
         ~WorkedOn(r)
  PROVE  ~WorkedOn(r)'
<1> SUFFICES ASSUME NEW w \in Workers, step'[w] \in Working, claim'[w] = r PROVE FALSE
  BY DEF WorkedOn
<1>1. WorkerStep(w)
  BY WorkerSteps
<1>2. CASE Stays(w)
  BY <1>2 DEF Stays, WorkedOn
<1>3. CASE Rests(w) \/ Lists(w)
  BY <1>3 DEF Rests, Lists, Working
<1>4. CASE Takes(w)
  BY <1>4 DEF Takes
<1>5. CASE GoesOn(w)
  BY <1>5 DEF GoesOn, WorkedOn, Working
<1>. QED BY <1>1, <1>2, <1>3, <1>4, <1>5 DEF WorkerStep

(* What a sweep has listed is left alone until it releases it.             *)
LEMMA ListedStays ==
  ASSUME TypeOK, Careful, OneAtATime, ClaimInv, [Next]_vars,
         NEW w \in Workers, Stays(w), NEW r \in listed[w]
  PROVE  ~WorkedOn(r)' /\ lockedBy'[r] = lockedBy[r] /\ status'[r] = status[r]
<1>0. r \in Runs
  BY DEF TypeOK
<1>1. ~WorkedOn(r) /\ lockedBy[r] /\ status[r] \in {"extracting", "running"}
  BY DEF ClaimInv, SweepHolds
<1>2. RowStep(r)
  BY <1>0, RowSteps
<1>3. ~Uploaded(r) /\ ~Taken(r)
  BY <1>1 DEF Uploaded, Taken
<1>4. ASSUME NEW v \in Workers
      PROVE  ~Swept(r, v) /\ ~Extracted(r, v) /\ ~Walked(r, v) /\ ~Executed(r, v)
  <2>1. ~Swept(r, v)
    <3>1. r \in listed[v] => v = w
      BY DEF OneAtATime
    <3>. QED BY <3>1 DEF Swept, Stays
  <2>2. ~(step[v] \in Working /\ claim[v] = r)
    BY <1>1 DEF WorkedOn
  <2>. QED BY <2>1, <2>2 DEF Extracted, Walked, Executed, Working
<1>5. ASSUME NEW c \in Clients PROVE ~Answered(r, c)
  BY <1>1 DEF Answered, ClaimInv, AskHolds
<1>6. lockedBy'[r] = lockedBy[r] /\ status'[r] = status[r]
  BY <1>2, <1>3, <1>4, <1>5 DEF RowStep, Untouched, Aged
<1>7. ~WorkedOn(r)'
  BY <1>0, <1>1, NobodyBegins
<1>. QED BY <1>6, <1>7

(* What a request read stays so until it answers.                          *)
LEMMA AskStays ==
  ASSUME TypeOK, Careful, OneAtATime, ClaimInv, [Next]_vars,
         NEW c \in Clients, asked[c].verb # "none", asked'[c] = asked[c]
  PROVE  status'[asked[c].run] = status[asked[c].run]
<1> DEFINE r == asked[c].run
<1>0. r \in Runs
  BY DEF TypeOK
<1>1. status[r] \in {"pending_review", "failed"}
  BY DEF ClaimInv, AskHolds
<1>2. \A d \in Clients : asked[d].verb # "none" /\ asked[d].run = r => d = c
  BY DEF OneAtATime
<1> HIDE DEF r
<1>3. RowStep(r)
  BY <1>0, RowSteps
<1>4. ~Uploaded(r) /\ ~Taken(r)
  BY <1>1 DEF Uploaded, Taken
<1>5. ASSUME NEW v \in Workers
      PROVE  ~Swept(r, v) /\ ~Extracted(r, v) /\ ~Walked(r, v) /\ ~Executed(r, v)
  <2>1. ~Swept(r, v)
    BY <1>1 DEF Swept
  <2>2. ~(step[v] \in Working /\ claim[v] = r)
    BY <1>1 DEF ClaimInv, HoldsRow
  <2>. QED BY <2>1, <2>2 DEF Extracted, Walked, Executed, Working
<1>6. ASSUME NEW d \in Clients PROVE ~Answered(r, d)
  BY <1>2 DEF Answered, Idle
<1>. QED BY <1>3, <1>4, <1>5, <1>6 DEF RowStep, Untouched, Aged, r

LEMMA RowHeld ==
  ASSUME TypeOK, Careful, ClaimInv, [Next]_vars, NEW r \in Runs
  PROVE  RowHolds(r)'
<1>0. RowHolds(r) /\ RowStep(r)
  BY RowSteps DEF ClaimInv
<1>1. CASE Untouched(r) \/ Aged(r)
  BY <1>0, <1>1 DEF Untouched, Aged, HistoryStays, RowHolds
<1>2. CASE Uploaded(r) \/ Taken(r)
  BY <1>0, <1>2 DEF Uploaded, Taken, HistoryStays, RowHolds
<1>3. ASSUME NEW w \in Workers, Swept(r, w) PROVE RowHolds(r)'
  BY <1>0, <1>3 DEF Swept, HistoryStays, RowHolds
<1>4. ASSUME NEW w \in Workers, Extracted(r, w) PROVE RowHolds(r)'
  <2>1. status[r] = "extracting" /\ ~spent[r]
    BY <1>4 DEF Extracted, ClaimInv, HoldsRow, Working
  <2>. QED BY <1>0, <1>4, <2>1 DEF Extracted, RowHolds
<1>5. ASSUME NEW w \in Workers, Walked(r, w) PROVE RowHolds(r)'
  <2>1. status[r] = "running" /\ lockedBy[r]
    BY <1>5 DEF Walked, ClaimInv, HoldsRow, Working
  <2>. QED BY <1>0, <1>5, <2>1 DEF Walked, RowHolds
<1>6. ASSUME NEW w \in Workers, Executed(r, w) PROVE RowHolds(r)'
  <2>1. status[r] = "running"
    BY <1>6 DEF Executed, ClaimInv, HoldsRow, Working
  <2>. QED BY <1>0, <1>6, <2>1 DEF Executed, HistoryStays, RowHolds
<1>7. ASSUME NEW c \in Clients, Answered(r, c) PROVE RowHolds(r)'
  <2>1. /\ asked[c].verb = "review" => status[r] = "pending_review"
        /\ asked[c].verb = "retry" => status[r] = "failed"
    BY <1>7 DEF Answered, ClaimInv, AskHolds
  <2>. QED BY <1>0, <1>7, <2>1 DEF Answered, RowHolds
<1>. QED BY <1>0, <1>1, <1>2, <1>3, <1>4, <1>5, <1>6, <1>7 DEF RowStep

LEMMA ClaimHeld ==
  ASSUME TypeOK, Careful, ClaimInv, [Next]_vars, NEW w \in Workers
  PROVE  HoldsRow(w)'
<1>0. WorkerStep(w) /\ HoldsRow(w)
  BY WorkerSteps DEF ClaimInv
<1>1. CASE Stays(w)
  <2>1. CASE step[w] \in Working
    BY <1>0, <1>1, <2>1, HeldRowStays DEF Stays, Untouched, HistoryStays, HoldsRow
  <2>2. CASE step[w] \notin Working
    BY <1>1, <2>2 DEF Stays, HoldsRow
  <2>. QED BY <2>1, <2>2
<1>2. CASE Rests(w) \/ Lists(w)
  BY <1>2 DEF Rests, Lists, HoldsRow, Working
<1>3. CASE Takes(w)
  <2>1. RowHolds(claim'[w])
    BY <1>3 DEF Takes, ClaimInv
  <2>2. ~spent[claim'[w]] /\ spent'[claim'[w]] = spent[claim'[w]]
    BY <1>3, <2>1 DEF Takes, RowHolds, HistoryStays
  <2>. QED BY <1>3, <2>2 DEF Takes, HoldsRow
<1>4. CASE GoesOn(w)
  BY <1>0, <1>4 DEF GoesOn, HoldsRow, Working
<1>. QED BY <1>0, <1>1, <1>2, <1>3, <1>4 DEF WorkerStep

LEMMA SweepHeld ==
  ASSUME TypeOK, Careful, OneAtATime, SweepsSeeEveryClaim, ClaimInv, [Next]_vars, TypeOK',
         NEW w \in Workers
  PROVE  SweepHolds(w)'
<1>0. WorkerStep(w) /\ SweepHolds(w)
  BY WorkerSteps DEF ClaimInv
<1> SUFFICES ASSUME NEW r \in listed'[w]
             PROVE  /\ ~WorkedOn(r)' /\ lockedBy'[r]
                    /\ \/ step'[w] = "requeueing" /\ status'[r] = "extracting"
                       \/ step'[w] = "failing" /\ status'[r] = "running"
  BY DEF SweepHolds
<1>1. CASE Stays(w)
  <2>1. r \in listed[w] /\ step'[w] = step[w]
    BY <1>1 DEF Stays
  <2>. QED BY <1>0, <1>1, <2>1, ListedStays DEF SweepHolds
<1>2. ~Clears(w)
  BY <1>0 DEF Clears, SweepHolds
<1>3. CASE Lists(w)
  <2>1. r \in Runs
    BY DEF TypeOK
  <2>2. /\ status' = status /\ lockedBy' = lockedBy /\ lockedAt[r] # "fresh"
        /\ lockedBy[r]
        /\ \/ step'[w] = "requeueing" /\ status[r] = "extracting"
           \/ step'[w] = "failing" /\ status[r] = "running"
    BY <1>3, <2>1 DEF Lists, rowVars, SweepsSeeEveryClaim
  <2>3. ~WorkedOn(r)
    BY <2>2 DEF WorkedOn, ClaimInv, HoldsRow
  <2>4. ~WorkedOn(r)'
    BY <2>1, <2>2, <2>3, NobodyBegins
  <2>. QED BY <2>2, <2>4
<1>. QED BY <1>0, <1>1, <1>2, <1>3 DEF WorkerStep, Rests, Takes, GoesOn

LEMMA AskHeld ==
  ASSUME TypeOK, Careful, OneAtATime, ClaimInv, [Next]_vars, TypeOK', NEW c \in Clients
  PROVE  AskHolds(c)'
<1>0. AskHolds(c)
  BY DEF ClaimInv
<1>1. asked'[c].verb # "cancel"
  BY DEF TypeOK, Careful
<1>2. CASE asked'[c] = asked[c]
  <2>1. CASE asked[c].verb = "none"
    BY <1>2, <2>1 DEF AskHolds
  <2>2. CASE asked[c].verb # "none"
    BY <1>0, <1>2, <2>2, AskStays DEF AskHolds
  <2>. QED BY <2>1, <2>2
<1>3. CASE asked'[c].verb = "none"
  BY <1>3 DEF AskHolds
<1>4. CASE /\ UNCHANGED rowVars
           /\ \/ asked'[c].verb = "review" /\ status[asked'[c].run] = "pending_review"
              \/ asked'[c].verb = "retry" /\ status[asked'[c].run] = "failed"
  BY <1>4 DEF AskHolds, rowVars
<1>. QED BY <1>1, <1>2, <1>3, <1>4, ClientSteps

LEMMA WorkersApart ==
  ASSUME TypeOK, Careful, ClaimInv, [Next]_vars
  PROVE  OneWorkerPerRun'
<1>1. ASSUME NEW v \in Workers, NEW w \in Workers, v # w, Stays(v),
             step'[v] \in Working, step'[w] \in Working
      PROVE  claim'[v] # claim'[w]
  <2>0. WorkerStep(w) /\ HoldsRow(v) /\ HoldsRow(w)
        /\ step[v] \in Working /\ claim'[v] = claim[v]
    BY <1>1, WorkerSteps DEF ClaimInv, Stays
  <2>1. CASE step[w] \in Working /\ claim'[w] = claim[w]
    BY <1>1, <2>0, <2>1 DEF ClaimInv, OneWorkerPerRun
  <2>2. CASE Takes(w)
    BY <2>0, <2>2 DEF Takes, HoldsRow, Working
  <2>3. CASE Rests(w) \/ Lists(w)
    BY <1>1, <2>3 DEF Rests, Lists, Working
  <2>. QED BY <1>1, <2>0, <2>1, <2>2, <2>3 DEF WorkerStep, Stays, GoesOn, Working
<1>2. \A v, w \in Workers : v # w => Stays(v) \/ Stays(w)
  BY WorkerSteps
<1>. QED BY <1>1, <1>2 DEF OneWorkerPerRun

(* What every step does to the claims, as long as nobody meets.            *)
LEMMA ClaimKeeps ==
  ASSUME TypeOK, TypeOK', Careful, OneAtATime, SweepsSeeEveryClaim, ClaimInv, [Next]_vars
  PROVE  ClaimInv'
BY WorkersApart, ClaimHeld, SweepHeld, AskHeld, RowHeld DEF ClaimInv

(* While requests and sweeps come one at a time, the lock columns tell the *)
(* truth: a worker's run is locked and where the worker is, what a sweep   *)
(* has listed nobody works on, and what a request read is still so.        *)
THEOREM ClaimInvariance == Careful => (Spec /\ []OneAtATime => []ClaimInv)
<1> SUFFICES ASSUME Careful PROVE Spec /\ []OneAtATime => []ClaimInv
  OBVIOUS
<1>1. Init => ClaimInv
  BY DEF Init, Idle, ClaimInv, OneWorkerPerRun, HoldsRow, SweepHolds, AskHolds, RowHolds, Working
<1>2. TypeOK /\ TypeOK' /\ OneAtATime /\ SweepsSeeEveryClaim /\ ClaimInv /\ [Next]_vars => ClaimInv'
  BY ClaimKeeps
<1>. QED BY <1>1, <1>2, TypeInvariance, ClaimsAreSwept, PTL DEF Spec

(* No two processes extract or execute the same run, over the hand-offs of *)
(* the claim from extraction to execution and to a later worker.           *)
THEOREM OneWorkerAtATime == Careful => (Spec /\ []OneAtATime => []OneWorkerPerRun)
<1>1. ClaimInv => OneWorkerPerRun
  BY DEF ClaimInv
<1>. QED BY <1>1, ClaimInvariance, PTL

(* Between two retries the graph of a run is walked at most once, however  *)
(* often its worker dies.                                                  *)
THEOREM WalksOnce == Careful => (Spec /\ []OneAtATime => WalkedOncePerAttempt)
<1>1. ClaimInv => [\A w \in Workers : Walk(w) => ~spent[claim[w]]]_vars
  BY DEF ClaimInv, HoldsRow, Walk, Working
<1>. QED BY <1>1, ClaimInvariance, PTL DEF WalkedOncePerAttempt

(* A run of a workflow with requireReview reaches the executor only after  *)
(* its review.                                                             *)
THEOREM ReviewComesFirst == Careful => (Spec /\ []OneAtATime => []ReviewedBeforeWalk)
<1>1. TypeOK /\ ClaimInv /\ ValuesBeforeWalk => ReviewedBeforeWalk
  <2> SUFFICES ASSUME TypeOK, ClaimInv, ValuesBeforeWalk, NEW w \in Workers,
                      step[w] = "walking", claim[w] \in Reviewable
               PROVE  reviewed[claim[w]]
    BY DEF ReviewedBeforeWalk
  <2>1. extracted[claim[w]] /\ status[claim[w]] = "running" /\ claim[w] \in Runs
    BY DEF ValuesBeforeWalk, ClaimInv, HoldsRow, Working, TypeOK
  <2>. QED BY <2>1 DEF ClaimInv, RowHolds
<1>. QED BY <1>1, ClaimInvariance, ValuesInvariance, TypeInvariance, PTL

-----------------------------------------------------------------------------
(* Two processes and one request at a time never meet: a claim is left     *)
(* behind only by a process that died, and the other one is alone.         *)
TwoProcesses ==
  /\ \A u, v, w \in Workers : u = v \/ u = w \/ v = w
  /\ \A c, d \in Clients : c = d

LEMMA TwoApart ==
  ASSUME TypeOK, TwoProcesses, ClaimInv, AbandonInv
  PROVE  OneAtATime
<1>1. \A c, d \in Clients :
        c # d /\ asked[c].verb # "none" /\ asked[d].verb # "none" => asked[c].run # asked[d].run
  BY DEF TwoProcesses
<1>2. ASSUME NEW v \in Workers, NEW w \in Workers, v # w, NEW r \in listed[v], r \in listed[w]
      PROVE  FALSE
  <2>1. PICK u \in Workers : step[u] = "dead"
    BY <1>2 DEF AbandonInv, Died
  <2>2. step[v] # "dead" /\ step[w] # "dead"
    BY <1>2 DEF ClaimInv, SweepHolds
  <2>. QED BY <1>2, <2>1, <2>2 DEF TwoProcesses
<1>. QED BY <1>1, <1>2 DEF OneAtATime

LEMMA AbandonKeeps ==
  ASSUME TypeOK, Careful, SweepsSeeEveryClaim, ClaimInv, AbandonInv, [Next]_vars, TypeOK'
  PROVE  AbandonInv'
<1>0. \A w \in Workers : WorkerStep(w) /\ HoldsRow(w) /\ SweepHolds(w)
  BY WorkerSteps DEF ClaimInv
<1>1. Died => Died'
  BY <1>0 DEF Died, WorkerStep, Stays, Rests, Lists, Takes, GoesOn
<1>2. ASSUME NEW r \in Runs, lockedBy'[r], ~WorkedOn(r)' PROVE Died'
  <2>1. CASE lockedBy[r] /\ ~WorkedOn(r)
    BY <1>1, <2>1 DEF AbandonInv
  <2>2. CASE WorkedOn(r)
    <3>1. PICK w \in Workers : step[w] \in Working /\ claim[w] = r
      BY <2>2 DEF WorkedOn
    <3>2. ~(step'[w] \in Working /\ claim'[w] = r)
      BY <1>2 DEF WorkedOn
    <3>3. Rests(w)
      BY <1>0, <3>1, <3>2 DEF WorkerStep, Stays, Lists, Takes, GoesOn, Working
    <3>. QED BY <1>2, <3>1, <3>3 DEF Rests, Died
  <2>3. CASE ~lockedBy[r] /\ ~WorkedOn(r)
    <3>1. RowStep(r)
      BY RowSteps
    <3>2. ~Taken(r)
      BY <1>2 DEF Taken, WorkedOn
    <3>3. \A w \in Workers : ~Swept(r, w) /\ ~Extracted(r, w) /\ ~Walked(r, w) /\ ~Executed(r, w)
      BY <1>2, <2>3 DEF Swept, Extracted, Walked, Executed
    <3>4. ~Untouched(r) /\ ~Aged(r) /\ ~Uploaded(r) /\ \A c \in Clients : ~Answered(r, c)
      BY <1>2, <2>3 DEF Untouched, Aged, Uploaded, Answered
    <3>. QED BY <3>1, <3>2, <3>3, <3>4 DEF RowStep
  <2>. QED BY <2>1, <2>2, <2>3
<1>3. ASSUME NEW w \in Workers, NEW r \in listed'[w] PROVE Died'
  <2>0. r \in Runs
    BY DEF TypeOK
  <2>1. CASE Stays(w)
    BY <1>1, <2>1 DEF Stays, AbandonInv
  <2>2. ~Clears(w)
    BY <1>0 DEF Clears, SweepHolds
  <2>3. CASE Lists(w)
    <3>1. lockedAt[r] # "fresh" /\ lockedBy[r]
      BY <2>0, <2>3 DEF Lists, SweepsSeeEveryClaim
    <3>2. ~WorkedOn(r)
      BY <1>0, <3>1 DEF WorkedOn, HoldsRow
    <3>. QED BY <1>1, <2>0, <3>1, <3>2 DEF AbandonInv
  <2>. QED BY <1>0, <2>1, <2>2, <2>3 DEF WorkerStep, Rests, Takes, GoesOn
<1>. QED BY <1>2, <1>3 DEF AbandonInv

(* ... so the three theorems above hold of every such deployment.          *)
THEOREM TwoNeverMeet == Careful /\ TwoProcesses => (Spec => []OneAtATime)
<1> SUFFICES ASSUME Careful, TwoProcesses PROVE Spec => []OneAtATime
  OBVIOUS
<1> DEFINE Inv == ClaimInv /\ AbandonInv
<1>1. Init => Inv
  BY DEF Init, Idle, ClaimInv, AbandonInv, OneWorkerPerRun, HoldsRow, SweepHolds, AskHolds,
         RowHolds, Working
<1>2. TypeOK /\ TypeOK' /\ SweepsSeeEveryClaim /\ Inv /\ [Next]_vars => Inv'
  BY ClaimKeeps, AbandonKeeps, TwoApart
<1>3. TypeOK /\ Inv => OneAtATime
  BY TwoApart
<1>. QED BY <1>1, <1>2, <1>3, TypeInvariance, ClaimsAreSwept, PTL DEF Spec

(* So a process that dies and the one that takes over from it share no     *)
(* run, walk no graph twice and skip no review.                            *)
THEOREM TwoAreSafe ==
  Careful /\ TwoProcesses => (Spec => []OneWorkerPerRun /\ WalkedOncePerAttempt /\ []ReviewedBeforeWalk)
<1> SUFFICES ASSUME Careful, TwoProcesses
             PROVE  Spec => []OneWorkerPerRun /\ WalkedOncePerAttempt /\ []ReviewedBeforeWalk
  OBVIOUS
<1>1. Spec => []OneAtATime
  BY TwoNeverMeet
<1>2. Spec /\ []OneAtATime => []OneWorkerPerRun /\ WalkedOncePerAttempt /\ []ReviewedBeforeWalk
  BY OneWorkerAtATime, WalksOnce, ReviewComesFirst
<1>. QED BY <1>1, <1>2, PTL

-----------------------------------------------------------------------------
(* The claims are a queue. Each step of a worker is one of its steps on    *)
(* the run it holds, or no step at all.                                    *)
phases == [r \in Runs |-> phaseOf(r)]
jobs == [w \in Workers |-> jobOf(w)]

LEMMA RunIsSome == \A r \in Runs : r # None
  BY RunsAssumption

(* A statement that writes one row moves one run.                          *)
LEMMA RowMoves ==
  ASSUME TypeOK, NEW r \in Runs, NEW to, NEW by, NEW at, Write(r, to, by, at),
         \A q \in Runs : q # r => spent'[q] = spent[q]
  PROVE  phases' = [phases EXCEPT ![r] = phaseOf(r)'] /\ status'[r] = to /\ lockedBy'[r] = by
<1>1. status'[r] = to /\ lockedBy'[r] = by
  BY DEF Write, TypeOK
<1>2. \A q \in Runs : q # r => status'[q] = status[q] /\ lockedBy'[q] = lockedBy[q]
  BY DEF Write, TypeOK
<1>3. \A q \in Runs : q # r => phaseOf(q)' = phaseOf(q)
  BY <1>2 DEF phaseOf
<1>. QED BY <1>1, <1>3 DEF phases

LEMMA RowsStay ==
  ASSUME UNCHANGED <<status, lockedBy, spent>>
  PROVE  phases' = phases
BY DEF phases, phaseOf

(* One worker's step moves one worker.                                     *)
LEMMA JobMoves ==
  ASSUME TypeOK, NEW w \in Workers,
         \A v \in Workers : v # w => step'[v] = step[v] /\ claim'[v] = claim[v]
  PROVE  jobs' = [jobs EXCEPT ![w] = jobOf(w)']
<1>1. \A v \in Workers : v # w => jobOf(v)' = jobOf(v)
  BY DEF jobOf
<1>. QED BY <1>1 DEF jobs

LEMMA JobsStay ==
  ASSUME TypeOK, NEW w \in Workers, NEW s \in Steps, Goto(w, s), UNCHANGED claim,
         step[w] \in Working <=> s \in Working
  PROVE  jobs' = jobs
<1>1. \A v \in Workers : jobOf(v)' = jobOf(v)
  BY DEF Goto, jobOf, TypeOK
<1>. QED BY <1>1 DEF jobs

(* Nobody holds a run whose row does not say so.                           *)
LEMMA RunIsFree ==
  ASSUME TypeOK, ClaimInv, NEW r \in Runs,
         status[r] \notin {"extracting", "running"} \/ ~lockedBy[r]
  PROVE  Queue!Free(r)
<1>1. \A w \in Workers : step[w] \in Working => claim[w] # r
  BY DEF ClaimInv, HoldsRow
<1>2. \A w \in Workers : jobOf(w) # r
  BY <1>1, RunIsSome DEF jobOf
<1>. QED BY <1>2 DEF Queue!Free

LEMMA InitIsEmpty == Init => Queue!Init
<1> SUFFICES ASSUME Init PROVE Queue!Init
  OBVIOUS
<1>1. \A r \in Runs : phaseOf(r) = "absent"
  BY DEF Init, phaseOf
<1>2. \A w \in Workers : jobOf(w) = None
  BY DEF Init, jobOf, Working
<1>. QED BY <1>1, <1>2 DEF Queue!Init

(* A claim takes up a run that is waiting.                                 *)
LEMMA ClaimTakes ==
  ASSUME TypeOK, ClaimInv, NEW w \in Workers, NEW r \in Runs, NEW to, NEW s \in Working,
         step[w] \notin Working, Take(w, r, to, s), UNCHANGED spent,
         \/ status[r] = "queued" /\ to = "extracting"
         \/ status[r] = "running" /\ ~lockedBy[r] /\ to = "running"
  PROVE  Queue!Take(w, r)
<1>1. Write(r, to, TRUE, "fresh") /\ Goto(w, s) /\ claim' = [claim EXCEPT ![w] = r]
  BY DEF Take
<1>2. /\ phases' = [phases EXCEPT ![r] = phaseOf(r)']
      /\ status'[r] = to /\ lockedBy'[r]
  BY <1>1, RowMoves
<1>3. \/ phaseOf(r) = "queued" /\ phaseOf(r)' = "extracting"
      \/ phaseOf(r) = "ready" /\ phaseOf(r)' = "starting"
  <2>1. status[r] = "running" => ~spent[r]
    BY DEF ClaimInv, RowHolds
  <2>. QED BY <1>2, <2>1 DEF phaseOf
<1>4. jobs' = [jobs EXCEPT ![w] = jobOf(w)']
  BY <1>1, JobMoves DEF Goto, TypeOK
<1>5. jobOf(w) = None /\ jobOf(w)' = r
  BY <1>1 DEF jobOf, Goto, TypeOK
<1>6. Queue!Free(r)
  BY RunIsFree
<1>. QED BY <1>2, <1>3, <1>4, <1>5, <1>6 DEF Queue!Take, Queue!Move, phases, jobs

(* A worker that leaves its run, or has none, holds none afterwards.       *)
LEMMA LaysDown ==
  ASSUME TypeOK, NEW w \in Workers, step'[w] \notin Working,
         \A v \in Workers : v # w => step'[v] = step[v] /\ claim'[v] = claim[v]
  PROVE  Queue!LayDown(w)
<1>1. jobOf(w)' = None
  BY DEF jobOf
<1>. QED BY <1>1, JobMoves DEF Queue!LayDown, jobs

(* What a worker writes of the run it holds.                               *)
LEMMA HeldPhase ==
  ASSUME TypeOK, ClaimInv, NEW w \in Workers, step[w] \in Working
  PROVE  /\ claim[w] \in Runs /\ jobOf(w) = claim[w] /\ lockedBy[claim[w]]
         /\ step[w] # "walking" => ~spent[claim[w]] /\ phaseOf(claim[w]) = step[w]
         /\ step[w] = "walking" => phaseOf(claim[w]) \in {"starting", "walking"}
<1>1. /\ claim[w] \in Runs /\ lockedBy[claim[w]]
      /\ status[claim[w]] = IF step[w] = "extracting" THEN "extracting" ELSE "running"
      /\ step[w] # "walking" => ~spent[claim[w]]
  BY DEF TypeOK, ClaimInv, HoldsRow
<1>. QED BY <1>1 DEF phaseOf, jobOf, Working, TypeOK

LEMMA FinishStores ==
  ASSUME TypeOK, ClaimInv, NEW w \in Workers, MarkFinished(w)
  PROVE  Queue!Store(w, claim[w])
<1> PICK r : r = claim[w]
  OBVIOUS
<1>0. step[w] = "extracting" /\ step[w] \in Working /\ UNCHANGED spent
  BY DEF MarkFinished, Working
<1>1. r \in Runs /\ jobOf(w) = r /\ lockedBy[r] /\ ~spent[r] /\ phaseOf(r) = "extracting"
  BY <1>0, HeldPhase
<1>2. CASE r \in Reviewable
  <2>1. Write(r, "pending_review", FALSE, "null") /\ HandOver(w) /\ UNCHANGED listed
    BY <1>2 DEF MarkFinished, Release
  <2>2. phases' = [phases EXCEPT ![r] = phaseOf(r)'] /\ status'[r] = "pending_review"
    BY <1>0, <1>1, <2>1, RowMoves
  <2>3. phaseOf(r)' = "pending_review"
    BY <2>2 DEF phaseOf
  <2>4. Queue!LayDown(w)
    BY <2>1, HandOverMoves, LaysDown DEF Working
  <2>. QED BY <1>1, <1>2, <2>2, <2>3, <2>4 DEF Queue!Store, Queue!Move, phases, jobs
<1>3. CASE r \notin Reviewable
  <2>1. Write(r, "running", lockedBy[r], "fresh") /\ Goto(w, "starting") /\ UNCHANGED claim
    BY <1>3 DEF MarkFinished
  <2>2. /\ phases' = [phases EXCEPT ![r] = phaseOf(r)']
        /\ status'[r] = "running" /\ lockedBy'[r] = lockedBy[r]
    BY <1>0, <1>1, <2>1, RowMoves
  <2>3. phaseOf(r)' = "starting"
    BY <1>0, <1>1, <2>2 DEF phaseOf
  <2>4. jobs' = jobs
    BY <1>0, <2>1, JobsStay DEF Working, Steps
  <2>. QED BY <1>1, <1>3, <2>2, <2>3, <2>4 DEF Queue!Store, Queue!Move, phases, jobs
<1>. QED BY <1>2, <1>3

LEMMA OutcomeEnds ==
  ASSUME TypeOK, ClaimInv, NEW w \in Workers, MarkFailed(w) \/ FinishExecution(w)
  PROVE  Queue!End(w, claim[w])
<1> PICK r : r = claim[w]
  OBVIOUS
<1>0. step[w] \in Working /\ UNCHANGED spent
  BY DEF MarkFailed, FinishExecution, Working
<1>1. r \in Runs /\ jobOf(w) = r
  BY <1>0, HeldPhase
<1>2. PICK to \in {"succeeded", "failed"} :
        /\ Write(r, to, FALSE, "null")
        /\ \/ phaseOf(r) = "extracting" /\ to = "failed"
           \/ phaseOf(r) \in {"starting", "walking"}
  BY <1>0, HeldPhase DEF MarkFailed, FinishExecution, Release
<1>3. phases' = [phases EXCEPT ![r] = phaseOf(r)'] /\ status'[r] = to
  BY <1>0, <1>1, <1>2, RowMoves
<1>4. phaseOf(r)' = to
  BY <1>3 DEF phaseOf
<1>5. Queue!LayDown(w)
  <2>1. CASE MarkFailed(w)
    BY <2>1, HandOverMoves, LaysDown DEF MarkFailed, Working
  <2>2. CASE FinishExecution(w)
    BY <2>2, ResumeMoves, LaysDown DEF FinishExecution, Working
  <2>. QED BY <2>1, <2>2
<1>. QED BY <1>1, <1>2, <1>3, <1>4, <1>5
         DEF Queue!End, Queue!Move, Queue!Ended, phases, jobs

LEMMA WalkWalks ==
  ASSUME TypeOK, ClaimInv, NEW w \in Workers, Walk(w)
  PROVE  Queue!Walk(w, claim[w])
<1> PICK r : r = claim[w]
  OBVIOUS
<1>0. step[w] = "starting" /\ step[w] \in Working
  BY DEF Walk, Working
<1>1. r \in Runs /\ jobOf(w) = r /\ lockedBy[r] /\ phaseOf(r) = "starting"
  BY <1>0, HeldPhase
<1>2. status[r] = "running"
  BY <1>0 DEF ClaimInv, HoldsRow
<1>3. \A q \in Runs : q # r => phaseOf(q)' = phaseOf(q)
  BY DEF Walk, phaseOf, TypeOK
<1>4. phaseOf(r)' = "walking"
  BY <1>1, <1>2 DEF Walk, phaseOf, TypeOK
<1>5. jobs' = jobs
  BY <1>0, JobsStay DEF Walk, Working, Steps
<1>6. phases' = [phases EXCEPT ![r] = "walking"]
  BY <1>1, <1>3, <1>4 DEF phases
<1>. QED BY <1>1, <1>5, <1>6 DEF Queue!Walk, Queue!Move, phases, jobs

(* A sweep gives back or gives up what nobody is on.                       *)
LEMMA SweepRecovers ==
  ASSUME TypeOK, ClaimInv, NEW w \in Workers, Requeue(w) \/ FailAbandonedExecutions(w)
  PROVE  Queue!Recover(listed[w])
<1> PICK moved : moved = listed[w]
  OBVIOUS
<1>0. moved \subseteq Runs /\ UNCHANGED spent
  BY DEF Requeue, FailAbandonedExecutions, TypeOK
<1>1. ASSUME NEW r \in moved PROVE Queue!Free(r) /\ phaseOf(r) \in Queue!Held
  <2>1. ~WorkedOn(r) /\ lockedBy[r] /\ status[r] \in {"extracting", "running"}
    BY DEF ClaimInv, SweepHolds
  <2>2. \A v \in Workers : jobOf(v) # r
    BY <1>0, <2>1, RunIsSome DEF WorkedOn, jobOf
  <2>3. phaseOf(r) \in {"extracting", "starting", "walking"}
    BY <1>0, <2>1 DEF phaseOf, TypeOK
  <2>. QED BY <2>2, <2>3 DEF Queue!Free, Queue!Held
<1>2. ASSUME NEW r \in Runs
      PROVE  phaseOf(r)' = IF r \notin moved THEN phaseOf(r)
                           ELSE IF phaseOf(r) = "extracting" THEN "queued" ELSE "failed"
  <2>1. CASE r \notin moved
    <3>1. status'[r] = status[r] /\ lockedBy'[r] = lockedBy[r] /\ spent'[r] = spent[r]
      <4>1. CASE Requeue(w)
        BY <1>0, <2>1, <4>1 DEF Requeue, ReleaseAll, TypeOK
      <4>2. CASE FailAbandonedExecutions(w)
        BY <1>0, <2>1, <4>2 DEF FailAbandonedExecutions, ReleaseAll, TypeOK
      <4>. QED BY <4>1, <4>2
    <3>2. phaseOf(r)' = phaseOf(r)
      BY <3>1 DEF phaseOf
    <3>. QED BY <2>1, <3>2
  <2>2. CASE r \in moved
    <3>1. /\ step[w] = "requeueing" => status[r] = "extracting"
          /\ step[w] = "failing" => status[r] = "running"
          /\ lockedBy[r]
      BY <2>2 DEF ClaimInv, SweepHolds
    <3>2. \/ status[r] = "extracting" /\ status'[r] = "queued"
          \/ status[r] = "running" /\ status'[r] = "failed"
      BY <2>2, <3>1 DEF Requeue, FailAbandonedExecutions, ReleaseAll
    <3>. QED BY <2>2, <3>1, <3>2 DEF phaseOf, TypeOK
  <2>. QED BY <2>1, <2>2
<1>3. jobs' = jobs
  BY JobsStay DEF Requeue, FailAbandonedExecutions, Working, Steps
<1>4. phases' = [r \in Runs |-> IF r \notin moved THEN phases[r]
                                ELSE IF phases[r] = "extracting" THEN "queued" ELSE "failed"]
  BY <1>2 DEF phases
<1>. QED BY <1>0, <1>1, <1>3, <1>4 DEF Queue!Recover, phases, jobs

(* The requests of people.                                                 *)
LEMMA RequestServes ==
  ASSUME TypeOK, Careful, ClaimInv, NEW c \in Clients, Answer(c)
  PROVE  Queue!Review(asked[c].run) \/ Queue!Retry(asked[c].run)
<1> PICK r : r = asked[c].run
  OBVIOUS
<1>0. asked[c].verb \in {"review", "retry"} /\ r \in Runs /\ UNCHANGED <<step, claim>>
  BY DEF Answer, TypeOK, Careful, workerVars
<1>1. \/ asked[c].verb = "review" /\ status[r] = "pending_review"
      \/ asked[c].verb = "retry" /\ status[r] = "failed"
  BY <1>0 DEF ClaimInv, AskHolds
<1>2. jobs' = jobs
  BY <1>0 DEF jobs, jobOf
<1>3. PICK to \in {"running", "queued"} :
        /\ Write(r, to, FALSE, "null")
        /\ to = "queued" => asked[c].verb = "retry"
        /\ \A q \in Runs : q # r => spent'[q] = spent[q]
  BY <1>0 DEF Answer, Release, TypeOK
<1>4. phases' = [phases EXCEPT ![r] = phaseOf(r)'] /\ status'[r] = to /\ ~lockedBy'[r]
  BY <1>0, <1>3, RowMoves
<1>5. /\ phaseOf(r) = status[r]
      /\ phaseOf(r)' = IF to = "running" THEN "ready" ELSE "queued"
  BY <1>1, <1>4 DEF phaseOf
<1>. QED BY <1>0, <1>1, <1>2, <1>3, <1>4, <1>5
         DEF Queue!Review, Queue!Retry, Queue!Move, phases, jobs

LEMMA UploadSubmits ==
  ASSUME TypeOK, NEW r \in Runs, Upload(r)
  PROVE  Queue!Submit(r)
<1>1. Write(r, "queued", FALSE, "null") /\ UNCHANGED <<spent, step, claim>> /\ status[r] = "absent"
  BY DEF Upload, Release, workerVars
<1>2. phases' = [phases EXCEPT ![r] = phaseOf(r)'] /\ status'[r] = "queued"
  BY <1>1, RowMoves
<1>3. phaseOf(r) = "absent" /\ phaseOf(r)' = "queued"
  BY <1>1, <1>2 DEF phaseOf
<1>4. jobs' = jobs
  BY <1>1 DEF jobs, jobOf
<1>. QED BY <1>2, <1>3, <1>4 DEF Queue!Submit, Queue!Move, phases, jobs

(* A worker's other steps are none of the queue's, or the loss of a run.   *)
LEMMA RestStutters ==
  ASSUME TypeOK, NEW w \in Workers, step[w] \notin Working, step'[w] \notin Working,
         UNCHANGED <<status, lockedBy, spent>>,
         \A v \in Workers : v # w => step'[v] = step[v] /\ claim'[v] = claim[v]
  PROVE  UNCHANGED Queue!vars
<1>1. \A v \in Workers : jobOf(v)' = jobOf(v)
  BY DEF jobOf
<1>. QED BY <1>1, RowsStay DEF Queue!vars, phases, jobs

LEMMA WorkerRefines ==
  ASSUME TypeOK, ClaimInv, NEW w \in Workers,
         Boot(w) \/ Proceed(w) \/ Crash(w) \/ Unreachable(w)
  PROVE  [Queue!Next]_(Queue!vars)
<1>1. CASE Boot(w) \/ Tick(w) \/ ListExtracting(w) \/ ListRunningClaims(w)
  <2>1. /\ step[w] \notin Working /\ UNCHANGED claim /\ UNCHANGED <<status, lockedBy, spent>>
        /\ \E s \in Steps \ Working : Goto(w, s)
    BY <1>1 DEF Boot, Tick, ListExtracting, ListRunningClaims, Working, Steps, rowVars
  <2>. QED BY <2>1, RestStutters DEF Goto, TypeOK
<1>2. CASE Requeue(w) \/ FailAbandonedExecutions(w)
  <2>1. listed[w] \in SUBSET Runs
    BY DEF TypeOK
  <2>. QED BY <1>2, <2>1, SweepRecovers DEF Queue!Next
<1>3. CASE ClaimNext(w)
  <2>1. step[w] = "claiming" /\ UNCHANGED spent
    BY <1>3 DEF ClaimNext
  <2>2. CASE Goto(w, "claimingRunnable") /\ UNCHANGED <<status, lockedBy, claim>>
    BY <2>1, <2>2, RestStutters DEF Goto, TypeOK, Working
  <2>3. ASSUME NEW r \in Runs, status[r] = "queued", Take(w, r, "extracting", "extracting")
        PROVE  Queue!Take(w, r)
    BY <2>1, <2>3, ClaimTakes DEF Working
  <2>. QED BY <1>3, <2>2, <2>3 DEF ClaimNext, RunsOf, Queue!Next
<1>4. CASE ClaimNextRunnable(w)
  <2>1. step[w] = "claimingRunnable" /\ UNCHANGED spent
    BY <1>4 DEF ClaimNextRunnable
  <2>2. CASE Leave(w, worked[w]) /\ UNCHANGED <<status, lockedBy>>
    BY <2>1, <2>2, LeaveMoves, RestStutters DEF Working
  <2>3. ASSUME NEW r \in Runs, status[r] = "running", ~lockedBy[r],
               Take(w, r, "running", "starting")
        PROVE  Queue!Take(w, r)
    BY <2>1, <2>3, ClaimTakes DEF Working
  <2>. QED BY <1>4, <2>2, <2>3 DEF ClaimNextRunnable, RunsOf, Queue!Next
<1>5. CASE MarkFinished(w) \/ MarkFailed(w) \/ Walk(w) \/ FinishExecution(w)
  <2>1. claim[w] \in Runs
    BY <1>5, HeldPhase DEF MarkFinished, MarkFailed, Walk, FinishExecution, Working
  <2>. QED BY <1>5, <2>1, FinishStores, OutcomeEnds, WalkWalks DEF Queue!Next
<1>6. CASE Crash(w)
  <2>1. /\ step'[w] = "dead" /\ UNCHANGED <<status, lockedBy, spent>>
        /\ \A v \in Workers : v # w => step'[v] = step[v] /\ claim'[v] = claim[v]
    BY <1>6 DEF Crash, Goto, TypeOK, rowVars
  <2>2. Queue!LayDown(w)
    BY <2>1, LaysDown DEF Working
  <2>. QED BY <2>1, <2>2, RowsStay DEF Queue!Next, Queue!Lose, phases
<1>7. CASE Unreachable(w)
  <2>1. step[w] \notin Working /\ Leave(w, FALSE) /\ UNCHANGED <<status, lockedBy, spent>>
    BY <1>7 DEF Unreachable, Working, rowVars
  <2>. QED BY <2>1, LeaveMoves, RestStutters DEF Working
<1>. QED BY <1>1, <1>2, <1>3, <1>4, <1>5, <1>6, <1>7 DEF Proceed

LEMMA StepRefines ==
  ASSUME TypeOK, Careful, ClaimInv, [Next]_vars
  PROVE  [Queue!Next]_(Queue!vars)
<1>1. ASSUME UNCHANGED <<status, lockedBy, spent, step, claim>> PROVE UNCHANGED Queue!vars
  BY <1>1 DEF Queue!vars, phaseOf, jobOf
<1>2. CASE UNCHANGED vars
  BY <1>1, <1>2 DEF vars, rowVars, workerVars
<1>3. ASSUME NEW w \in Workers, Unrecorded(w) PROVE FALSE
  BY <1>3 DEF Unrecorded, Mishap, Careful
<1>4. ASSUME NEW r \in Runs, Upload(r) PROVE Queue!Next
  BY <1>4, UploadSubmits DEF Queue!Next
<1>5. ASSUME NEW r \in Runs, Age(r) PROVE UNCHANGED Queue!vars
  BY <1>1, <1>5 DEF Age, workerVars
<1>6. ASSUME NEW c \in Clients, Answer(c) PROVE Queue!Next
  <2>1. asked[c].run \in Runs
    BY <1>6 DEF Answer, TypeOK
  <2>. QED BY <1>6, <2>1, RequestServes DEF Queue!Next
<1>7. ASSUME NEW c \in Clients, Abandon(c) PROVE UNCHANGED Queue!vars
  BY <1>1, <1>7 DEF Abandon, rowVars, workerVars
<1>8. ASSUME NEW c \in Clients, NEW verb \in Verbs, NEW r \in Runs, Ask(c, verb, r)
      PROVE  UNCHANGED Queue!vars
  BY <1>1, <1>8 DEF Ask, rowVars, workerVars
<1>. QED BY <1>2, <1>3, <1>4, <1>5, <1>6, <1>7, <1>8, WorkerRefines DEF Next

(* While nothing but crashes and unreachable databases goes wrong, and     *)
(* requests and sweeps about a run come one at a time, the workers, their  *)
(* sweeps and the requests implement RunQueue.                             *)
THEOREM ClaimsAreAQueue == Careful => (Spec /\ []OneAtATime => ImplementsRunQueue)
<1> SUFFICES ASSUME Careful PROVE Spec /\ []OneAtATime => Queue!Spec
  BY DEF ImplementsRunQueue
<1>1. TypeOK /\ ClaimInv /\ [Next]_vars => [Queue!Next]_(Queue!vars)
  BY StepRefines
<1>. QED BY <1>1, InitIsEmpty, ClaimInvariance, TypeInvariance, PTL DEF Spec, Queue!Spec

(* Two processes and one request at a time are such a system.              *)
THEOREM TwoAreAQueue == Careful /\ TwoProcesses => (Spec => ImplementsRunQueue)
<1> SUFFICES ASSUME Careful, TwoProcesses PROVE Spec => ImplementsRunQueue
  OBVIOUS
<1>1. Spec /\ []OneAtATime => ImplementsRunQueue
  BY ClaimsAreAQueue
<1>. QED BY <1>1, TwoNeverMeet, PTL
=============================================================================
