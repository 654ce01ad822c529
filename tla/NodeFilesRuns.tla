---------------------------- MODULE NodeFilesRuns ----------------------------
(***************************************************************************)
(* src/services/node-files: the runs of the document-extraction module,    *)
(* the workers that claim, extract and execute them, and the requests that *)
(* upload, review, retry and cancel them.                                  *)
(*                                                                         *)
(* A worker is one process (a WORKER_ID): it starts, serves ticks one at a *)
(* time and may die, and the next process is another worker. It claims a   *)
(* run by writing its row's lockedBy and lockedAt in a statement of its    *)
(* own, works with no connection held, and writes the outcome by id. The   *)
(* reads and writes of a request, and of a sweep, are one transaction each *)
(* (READ COMMITTED): a write is shown where it commits, and SKIP LOCKED    *)
(* never meets a lock in between.                                          *)
(***************************************************************************)
EXTENDS Naturals, FiniteSets, Sequences, SequencesExt

CONSTANTS
  Runs,         \* nf_runs ids, in the order they are claimed
  Companies,    \* the companies with the module enabled, in id order
  CompanyOf,    \* the company whose database holds a run
  Reviewable,   \* the runs of workflows with requireReview
  Workers,      \* processes: the bound on restarts
  Clients,      \* concurrent requests
  Verbs,        \* what a request may ask for
  Mishaps,      \* what may go wrong in a worker
  MaxMishaps,   \* bound on how often it does
  None

Statuses == {"absent", "queued", "extracting", "pending_review", "running",
             "succeeded", "failed"}
Ages == {"null", "fresh", "old"}
Steps == {"off", "idle", "listing", "requeueing", "listingRunning", "failing",
          "claiming", "extracting", "starting", "walking",
          "claimingRunnable", "dead"}
Working == {"extracting", "starting", "walking"}

ASSUME RunsAssumption ==
  /\ Runs \subseteq Nat /\ IsFiniteSet(Runs)
  /\ Companies \in Seq(Nat) /\ Companies # <<>> /\ IsInjective(Companies)
  /\ CompanyOf \in [Runs -> Nat] /\ None \notin Nat
  /\ Reviewable \subseteq Runs
  /\ Verbs \subseteq {"review", "retry", "cancel"}
  /\ Mishaps \subseteq {"crash", "unrecorded", "unreachable", "slow"}
  /\ MaxMishaps \in Nat

VARIABLES
  status, lockedBy, lockedAt,  \* the columns; lockedBy is only tested for null
  extracted, reviewed,         \* whether the columns hold values
  spent,                       \* history: walked since the last retry
  step, claim,                 \* where a worker is, and the run it claimed
  listed,                      \* the stale ids its sweep read
  visits,                      \* the companies left in its round
  last,                        \* lastYieldedCompanyId
  worked, inline,              \* processNextRun did something; executing after it
  asked,                       \* what a request read, before it writes
  mishaps

rowVars == <<status, lockedBy, lockedAt, extracted, reviewed, spent>>
workerVars == <<step, claim, listed, visits, last, worked, inline>>
vars == <<rowVars, workerVars, asked, mishaps>>

Idle == [verb |-> "none", run |-> None, extracted |-> FALSE]

TypeOK ==
  /\ status \in [Runs -> Statuses]
  /\ lockedBy \in [Runs -> BOOLEAN]
  /\ lockedAt \in [Runs -> Ages]
  /\ extracted \in [Runs -> BOOLEAN]
  /\ reviewed \in [Runs -> BOOLEAN]
  /\ spent \in [Runs -> BOOLEAN]
  /\ step \in [Workers -> Steps]
  /\ claim \in [Workers -> Runs \cup {None}]
  /\ listed \in [Workers -> SUBSET Runs]
  /\ visits \in [Workers -> Seq(Nat)]
  /\ last \in [Workers -> Nat \cup {None}]
  /\ worked \in [Workers -> BOOLEAN]
  /\ inline \in [Workers -> BOOLEAN]
  /\ asked \in [Clients -> [verb : Verbs \cup {"none"}, run : Runs \cup {None},
                            extracted : BOOLEAN]]
  /\ mishaps \in 0 .. MaxMishaps
  /\ \A w \in Workers : step[w] \in Working => claim[w] \in Runs
  /\ \A w \in Workers :
       step[w] \notin {"off", "idle", "dead"} => visits[w] # <<>>
  /\ \A c \in Clients : asked[c].verb # "none" => asked[c].run \in Runs

Init ==
  /\ status = [r \in Runs |-> "absent"]
  /\ lockedBy = [r \in Runs |-> FALSE]
  /\ lockedAt = [r \in Runs |-> "null"]
  /\ extracted = [r \in Runs |-> FALSE]
  /\ reviewed = [r \in Runs |-> FALSE]
  /\ spent = [r \in Runs |-> FALSE]
  /\ step = [w \in Workers |-> "off"]
  /\ claim = [w \in Workers |-> None]
  /\ listed = [w \in Workers |-> {}]
  /\ visits = [w \in Workers |-> <<>>]
  /\ last = [w \in Workers |-> None]
  /\ worked = [w \in Workers |-> FALSE]
  /\ inline = [w \in Workers |-> FALSE]
  /\ asked = [c \in Clients |-> Idle]
  /\ mishaps = 0

-----------------------------------------------------------------------------
(* The rows. Every write of a row sets its status, its lock and the age of *)
(* the lock; none of them looks at who holds it.                           *)

Write(r, to, by, at) ==
  /\ status' = [status EXCEPT ![r] = to]
  /\ lockedBy' = [lockedBy EXCEPT ![r] = by]
  /\ lockedAt' = [lockedAt EXCEPT ![r] = at]

Release(r, to) == Write(r, to, FALSE, "null")

(* Mutant of ReleaseAll: only the status is rewritten.                     *)
ReleaseAllStatusOnly(rs, from, to) ==
  /\ status' = [r \in Runs |-> IF r \in rs /\ status[r] = from THEN to
                                                            ELSE status[r]]
  /\ UNCHANGED <<lockedBy, lockedAt>>

(* The same UPDATE over the ids a sweep listed, where the status is still `from`. *)
ReleaseAll(rs, from, to) ==
  LET moved == {r \in rs : status[r] = from} IN
    /\ status' = [r \in Runs |-> IF r \in moved THEN to ELSE status[r]]
    /\ lockedBy' = [r \in Runs |-> r \notin moved /\ lockedBy[r]]
    /\ lockedAt' = [r \in Runs |-> IF r \in moved THEN "null" ELSE lockedAt[r]]

Goto(w, s) == step' = [step EXCEPT ![w] = s]

RunsOf(w) == {r \in Runs : CompanyOf[r] = Head(visits[w])}

(* ORDER BY id ... LIMIT 1.                                                *)
IsFirst(r, S) == \A q \in S : r <= q

IsStaleLock(r) == lockedAt[r] \in {"null", "old"}

(* A process is between the claim of r and the outcome it will write.      *)
WorkedOn(r) == \E w \in Workers : step[w] \in Working /\ claim[w] = r

(* Time passes: the claim is older than the cap. A worker that is still on *)
(* it is that slow only if "slow" may happen.                              *)
Age(r) ==
  /\ lockedAt[r] = "fresh"
  /\ WorkedOn(r) => "slow" \in Mishaps
  /\ lockedAt' = [lockedAt EXCEPT ![r] = "old"]
  /\ UNCHANGED <<status, lockedBy, extracted, reviewed, spent,
                 workerVars, asked, mishaps>>
-----------------------------------------------------------------------------
(* A worker's round: the companies from the one after the last that yielded *)
(* work; for each, two sweeps, then a run to extract, then one to execute.  *)

(* Mutant of RotateTenants: every round starts from the top.               *)
RotateNever(lastYielded) == Companies

(* rotateTenants.                                                          *)
RotateTenants(lastYielded) ==
  IF lastYielded \in Range(Companies)
    THEN LET i == CHOOSE i \in DOMAIN Companies : Companies[i] = lastYielded
         IN SubSeq(Companies, i + 1, Len(Companies)) \o SubSeq(Companies, 1, i)
    ELSE Companies

Boot(w) ==
  /\ step[w] = "off"
  /\ Goto(w, "idle")
  /\ UNCHANGED <<rowVars, claim, listed, visits, last, worked, inline, asked,
                 mishaps>>

Tick(w) ==
  /\ step[w] = "idle"
  /\ visits' = [visits EXCEPT ![w] = RotateTenants(last[w])]
  /\ Goto(w, "listing")
  /\ UNCHANGED <<rowVars, claim, listed, last, worked, inline, asked, mishaps>>

(* Mutant of Leave: the end of the round is not noticed.                   *)
LeaveToNext(w, did) ==
  /\ visits' = [visits EXCEPT ![w] = IF did THEN <<>> ELSE Tail(@)]
  /\ last' = [last EXCEPT ![w] = IF did THEN Head(visits[w]) ELSE @]
  /\ Goto(w, "listing")
  /\ claim' = [claim EXCEPT ![w] = None]
  /\ listed' = [listed EXCEPT ![w] = {}]
  /\ worked' = [worked EXCEPT ![w] = FALSE]
  /\ inline' = [inline EXCEPT ![w] = FALSE]

(* The visit is over. If it did work the round is too, and the next one    *)
(* starts after this company.                                              *)
Leave(w, did) ==
  LET rest == IF did THEN <<>> ELSE Tail(visits[w]) IN
    /\ visits' = [visits EXCEPT ![w] = rest]
    /\ last' = [last EXCEPT ![w] = IF did THEN Head(visits[w]) ELSE @]
    /\ Goto(w, IF rest = <<>> THEN "idle" ELSE "listing")
    /\ claim' = [claim EXCEPT ![w] = None]
    /\ listed' = [listed EXCEPT ![w] = {}]
    /\ worked' = [worked EXCEPT ![w] = FALSE]
    /\ inline' = [inline EXCEPT ![w] = FALSE]

(* sweepStaleLocks: read the abandoned extractions, then requeue them.     *)
ListExtracting(w) ==
  /\ step[w] = "listing"
  /\ LET stale == {r \in RunsOf(w) : status[r] = "extracting" /\ IsStaleLock(r)}
     IN /\ listed' = [listed EXCEPT ![w] = stale]
        /\ Goto(w, IF stale = {} THEN "listingRunning" ELSE "requeueing")
  /\ UNCHANGED <<rowVars, claim, visits, last, worked, inline, asked, mishaps>>

Requeue(w) ==
  /\ step[w] = "requeueing"
  /\ ReleaseAll(listed[w], "extracting", "queued")
  /\ listed' = [listed EXCEPT ![w] = {}]
  /\ Goto(w, "listingRunning")
  /\ UNCHANGED <<extracted, reviewed, spent, claim, visits, last,
                 worked, inline, asked, mishaps>>

(* Mutant of FailAbandonedExecutions: put back for another worker, as the   *)
(* sweep of extractions does.                                              *)
RequeueAbandonedExecutions(w) ==
  /\ step[w] = "failing"
  /\ ReleaseAll(listed[w], "running", "running")
  /\ listed' = [listed EXCEPT ![w] = {}]
  /\ Goto(w, "claiming")
  /\ UNCHANGED <<extracted, reviewed, spent, claim, visits, last,
                 worked, inline, asked, mishaps>>

(* sweepAbandonedExecutions: the same read, and those are failed: what the *)
(* dead worker already sent must not be sent again.                        *)
ListRunningClaims(w) ==
  /\ step[w] = "listingRunning"
  /\ LET stale == {r \in RunsOf(w) :
                     status[r] = "running" /\ lockedBy[r] /\ IsStaleLock(r)}
     IN /\ listed' = [listed EXCEPT ![w] = stale]
        /\ Goto(w, IF stale = {} THEN "claiming" ELSE "failing")
  /\ UNCHANGED <<rowVars, claim, visits, last, worked, inline, asked, mishaps>>

FailAbandonedExecutions(w) ==
  /\ step[w] = "failing"
  /\ ReleaseAll(listed[w], "running", "failed")
  /\ listed' = [listed EXCEPT ![w] = {}]
  /\ Goto(w, "claiming")
  /\ UNCHANGED <<extracted, reviewed, spent, claim, visits, last,
                 worked, inline, asked, mishaps>>

-----------------------------------------------------------------------------
(* processNextRun: claim a queued run, extract it with no connection held, *)
(* record what came of it and, if nobody has to review it, execute it.     *)

Take(w, r, to, s) ==
  /\ Write(r, to, TRUE, "fresh")
  /\ claim' = [claim EXCEPT ![w] = r]
  /\ Goto(w, s)

ClaimNext(w) ==
  /\ step[w] = "claiming"
  /\ LET queued == {r \in RunsOf(w) : status[r] = "queued"} IN
       /\ worked' = [worked EXCEPT ![w] = queued # {}]
       /\ IF queued # {}
            THEN \E r \in queued :
                   IsFirst(r, queued) /\ Take(w, r, "extracting", "extracting")
            ELSE /\ Goto(w, "claimingRunnable")
                 /\ UNCHANGED <<status, lockedBy, lockedAt, claim>>
  /\ UNCHANGED <<extracted, reviewed, spent, listed, visits, last,
                 inline, asked, mishaps>>

(* Done with the run, the visit goes on to processNextExecution.           *)
HandOver(w) ==
  /\ Goto(w, "claimingRunnable")
  /\ claim' = [claim EXCEPT ![w] = None]

(* Mutants of MarkFinished: the lock is released over the hand-off to the  *)
(* execution; requireReview is not asked.                                  *)
MarkFinishedUnlocking(w) ==
  /\ step[w] = "extracting"
  /\ LET r == claim[w] IN
       /\ extracted' = [extracted EXCEPT ![r] = TRUE]
       /\ IF r \in Reviewable
            THEN /\ Release(r, "pending_review")
                 /\ HandOver(w)
                 /\ UNCHANGED inline
            ELSE /\ Release(r, "running")
                 /\ Goto(w, "starting")
                 /\ inline' = [inline EXCEPT ![w] = TRUE]
                 /\ UNCHANGED claim
  /\ UNCHANGED <<reviewed, spent, listed, visits, last, worked,
                 asked, mishaps>>

MarkFinishedUnreviewed(w) ==
  /\ step[w] = "extracting"
  /\ extracted' = [extracted EXCEPT ![claim[w]] = TRUE]
  /\ Write(claim[w], "running", lockedBy[claim[w]], "fresh")
  /\ Goto(w, "starting")
  /\ inline' = [inline EXCEPT ![w] = TRUE]
  /\ UNCHANGED <<reviewed, spent, claim, listed, visits, last,
                 worked, asked, mishaps>>

(* The values are stored. A run to review is released; any other keeps     *)
(* whatever lockedBy its row has and is executed by this worker now.       *)
MarkFinished(w) ==
  /\ step[w] = "extracting"
  /\ LET r == claim[w] IN
       /\ extracted' = [extracted EXCEPT ![r] = TRUE]
       /\ IF r \in Reviewable
            THEN /\ Release(r, "pending_review")
                 /\ HandOver(w)
                 /\ UNCHANGED inline
            ELSE /\ Write(r, "running", lockedBy[r], "fresh")
                 /\ Goto(w, "starting")
                 /\ inline' = [inline EXCEPT ![w] = TRUE]
                 /\ UNCHANGED claim
  /\ UNCHANGED <<reviewed, spent, listed, visits, last,
                 worked, asked, mishaps>>

(* The provider failed, a required field is missing, the workflow is gone. *)
MarkFailed(w) ==
  /\ step[w] = "extracting"
  /\ Release(claim[w], "failed")
  /\ HandOver(w)
  /\ UNCHANGED <<extracted, reviewed, spent, listed, visits, last,
                 worked, inline, asked, mishaps>>

-----------------------------------------------------------------------------
(* processNextExecution and executeRun.                                    *)

ClaimNextRunnable(w) ==
  /\ step[w] = "claimingRunnable"
  /\ LET runnable == {r \in RunsOf(w) : status[r] = "running" /\ ~lockedBy[r]} IN
       IF runnable # {}
         THEN /\ \E r \in runnable :
                   IsFirst(r, runnable) /\ Take(w, r, "running", "starting")
              /\ inline' = [inline EXCEPT ![w] = FALSE]
              /\ UNCHANGED <<listed, visits, last, worked>>
         ELSE /\ Leave(w, worked[w])
              /\ UNCHANGED <<status, lockedBy, lockedAt>>
  /\ UNCHANGED <<extracted, reviewed, spent, asked, mishaps>>

(* The definition is valid and has nodes: the first one runs.              *)
Walk(w) ==
  /\ step[w] = "starting"
  /\ spent' = [spent EXCEPT ![claim[w]] = TRUE]
  /\ Goto(w, "walking")
  /\ UNCHANGED <<status, lockedBy, lockedAt, extracted, reviewed,
                 claim, listed, visits, last, worked, inline, asked, mishaps>>

(* What follows an execution: after an extraction the visit goes on with   *)
(* processNextExecution, otherwise it is over.                             *)
Resume(w) ==
  IF inline[w]
    THEN /\ HandOver(w)
         /\ inline' = [inline EXCEPT ![w] = FALSE]
         /\ UNCHANGED <<listed, visits, last, worked>>
    ELSE Leave(w, TRUE)

(* The last node is over, a node failed, there was nothing to walk, or the *)
(* executor itself threw: the row says so, whatever it said before.        *)
FinishExecution(w) ==
  /\ step[w] \in {"starting", "walking"}
  /\ \E outcome \in {"succeeded", "failed"} : Release(claim[w], outcome)
  /\ Resume(w)
  /\ UNCHANGED <<extracted, reviewed, spent, asked, mishaps>>

-----------------------------------------------------------------------------
(* What goes wrong in a worker.                                            *)

Mishap(kind) ==
  /\ kind \in Mishaps /\ mishaps < MaxMishaps
  /\ mishaps' = mishaps + 1
  /\ UNCHANGED asked

(* The process dies, or is stopped, wherever it is.                        *)
Crash(w) ==
  /\ Mishap("crash")
  /\ step[w] \notin {"off", "dead"}
  /\ Goto(w, "dead")
  /\ claim' = [claim EXCEPT ![w] = None]
  /\ listed' = [listed EXCEPT ![w] = {}]
  /\ visits' = [visits EXCEPT ![w] = <<>>]
  /\ last' = [last EXCEPT ![w] = None]
  /\ worked' = [worked EXCEPT ![w] = FALSE]
  /\ inline' = [inline EXCEPT ![w] = FALSE]
  /\ UNCHANGED rowVars

(* Neither the outcome nor its failure could be recorded: the row stays    *)
(* claimed and the worker goes on.                                         *)
Unrecorded(w) ==
  /\ Mishap("unrecorded")
  /\ \/ /\ step[w] = "extracting"
        /\ HandOver(w)
        /\ UNCHANGED <<listed, visits, last, worked, inline>>
     \/ step[w] \in {"starting", "walking"} /\ Resume(w)
  /\ UNCHANGED rowVars

(* The company's database cannot be reached, or it is suspended: the round *)
(* goes on with the next one, even if something was done here.             *)
Unreachable(w) ==
  /\ Mishap("unreachable")
  /\ step[w] \in {"listing", "requeueing", "listingRunning", "failing",
                  "claiming", "claimingRunnable"}
  /\ Leave(w, FALSE)
  /\ UNCHANGED rowVars

-----------------------------------------------------------------------------
(* The requests. Each reads the row, refuses unless its status allows what *)
(* is asked, and later writes by id.                                       *)

(* createWithQueuedRun.                                                    *)
Upload(r) ==
  /\ status[r] = "absent"
  /\ Release(r, "queued")
  /\ UNCHANGED <<extracted, reviewed, spent, workerVars, asked,
                 mishaps>>

Allowed(verb) ==
  CASE verb = "review" -> {"pending_review"}
    [] verb = "retry"  -> {"failed"}
    [] verb = "cancel" -> {"queued", "pending_review"}

Ask(c, verb, r) ==
  /\ asked[c] = Idle
  /\ status[r] \in Allowed(verb)
  /\ asked' = [asked EXCEPT ![c] = [verb |-> verb, run |-> r,
                                    extracted |-> extracted[r]]]
  /\ UNCHANGED <<rowVars, workerVars, mishaps>>

(* Mutant of Answer: a retry always restarts from the graph.               *)
AnswerFromGraph(c) ==
  /\ LET r == asked[c].run IN
       \/ /\ asked[c].verb \in {"review", "retry"}
          /\ Release(r, "running")
          /\ reviewed' = [reviewed EXCEPT ![r] = @ \/ asked[c].verb = "review"]
          /\ UNCHANGED spent
       \/ /\ asked[c].verb = "cancel"
          /\ Release(r, "failed")
          /\ UNCHANGED <<reviewed, spent>>
  /\ asked' = [asked EXCEPT ![c] = Idle]
  /\ UNCHANGED <<extracted, workerVars, mishaps>>

(* The response, which commits. A retry restarts from the extraction only  *)
(* if it read no values.                                                   *)
Answer(c) ==
  /\ LET r == asked[c].run IN
       \/ /\ asked[c].verb = "review"
          /\ Release(r, "running")
          /\ reviewed' = [reviewed EXCEPT ![r] = TRUE]
          /\ UNCHANGED spent
       \/ /\ asked[c].verb = "retry"
          /\ Release(r, IF asked[c].extracted THEN "running" ELSE "queued")
          /\ spent' = [spent EXCEPT ![r] = FALSE]
          /\ UNCHANGED reviewed
       \/ /\ asked[c].verb = "cancel"
          /\ Release(r, "failed")
          /\ UNCHANGED <<reviewed, spent>>
  /\ asked' = [asked EXCEPT ![c] = Idle]
  /\ UNCHANGED <<extracted, workerVars, mishaps>>

(* Invalid values, an error or a client that went away: rolled back.       *)
Abandon(c) ==
  /\ asked[c] # Idle
  /\ asked' = [asked EXCEPT ![c] = Idle]
  /\ UNCHANGED <<rowVars, workerVars, mishaps>>

-----------------------------------------------------------------------------
(* One worker's next step, nothing going wrong.                            *)
Proceed(w) ==
  \/ Tick(w) \/ ListExtracting(w) \/ Requeue(w) \/ ListRunningClaims(w)
  \/ FailAbandonedExecutions(w) \/ ClaimNext(w) \/ MarkFinished(w)
  \/ MarkFailed(w) \/ ClaimNextRunnable(w) \/ Walk(w) \/ FinishExecution(w)

Next ==
  \/ \E w \in Workers :
       Boot(w) \/ Proceed(w) \/ Crash(w) \/ Unrecorded(w) \/ Unreachable(w)
  \/ \E r \in Runs : Upload(r) \/ Age(r)
  \/ \E c \in Clients : Answer(c) \/ Abandon(c)
  \/ \E c \in Clients, verb \in Verbs, r \in Runs : Ask(c, verb, r)

Spec == Init /\ [][Next]_vars

(* A deployment starts its process and a process goes on to its next tick; *)
(* providers and nodes time out; an abandoned claim grows old. Nobody has  *)
(* to upload, review or retry anything.                                    *)
FairSpec ==
  /\ Spec
  /\ \A w \in Workers : WF_vars(Boot(w)) /\ WF_vars(Proceed(w))
  /\ \A r \in Runs : WF_vars(~WorkedOn(r) /\ Age(r))

-----------------------------------------------------------------------------
(* Properties.                                                             *)

(* A row is held only while it is extracting or running, an extracting row *)
(* is always held and a held row is always dated: so whatever a dead       *)
(* worker leaves behind is found by exactly one of the two sweeps          *)
(* (nf-run.dao.ts:259-283).                                                *)
SweepsSeeEveryClaim ==
  \A r \in Runs : /\ lockedBy[r] => status[r] \in {"extracting", "running"}
                  /\ lockedBy[r] => lockedAt[r] # "null"
                  /\ status[r] = "extracting" => lockedBy[r]

(* No graph is walked without the values it works on, though a retry       *)
(* decides from an old read whether there are any and a cancelled or stolen *)
(* run may be anywhere by then (node-files.service.ts:518-523).            *)
ValuesBeforeWalk ==
  \A w \in Workers : step[w] = "walking" => extracted[claim[w]]

(* Why: whatever leads a run to the executor - its row, the worker that    *)
(* holds it, a request under way - has seen its values, and no write ever  *)
(* takes them away.                                                        *)
ValuesOnTheWay ==
  /\ \A r \in Runs : status[r] \in {"pending_review", "running"} => extracted[r]
  /\ \A w \in Workers : step[w] \in {"starting", "walking"} => extracted[claim[w]]
  /\ \A c \in Clients :
       asked[c].verb = "review" \/ (asked[c].verb = "retry" /\ asked[c].extracted)
         => extracted[asked[c].run]

(* "One worker at a time per run" (node-files-worker.ts:32-34): no two     *)
(* processes extract or execute the same run, over the hand-offs of the    *)
(* claim from extraction to execution and to a later worker.               *)
OneWorkerPerRun ==
  \A v, w \in Workers :
    /\ v # w /\ step[v] \in Working /\ step[w] \in Working
    => claim[v] # claim[w]

(* "Re-running the graph would re-send every email and repeat every HTTP   *)
(* call" (nf-run.dao.ts:287-289): between two retries a person asked for   *)
(* the graph of a run is walked at most once, however often its worker     *)
(* dies.                                                                   *)
WalkedOncePerAttempt ==
  [][\A w \in Workers : Walk(w) => ~spent[claim[w]]]_vars

(* A run of a workflow with requireReview reaches the executor only after  *)
(* POST /review (node-files-worker.ts:36-44).                              *)
ReviewedBeforeWalk ==
  \A w \in Workers :
    step[w] = "walking" /\ claim[w] \in Reviewable => reviewed[claim[w]]

(* Every run the workers owe an answer gets one, whichever process dies    *)
(* and however much work another company keeps producing                   *)
(* (node-files-worker.ts:60-63, 402-426).                                  *)
Owed == {"queued", "extracting", "running"}
EveryRunIsAnswered == \A r \in Runs : status[r] \in Owed ~> status[r] \notin Owed
-----------------------------------------------------------------------------
(* The queue that the columns and the steps of the workers stand for.      *)

phaseOf(r) ==
  CASE status[r] # "running"                         -> status[r]
    [] status[r] = "running" /\ ~lockedBy[r]            -> "ready"
    [] status[r] = "running" /\ lockedBy[r] /\ ~spent[r] -> "starting"
    [] status[r] = "running" /\ lockedBy[r] /\ spent[r]  -> "walking"

jobOf(w) == IF step[w] \in Working THEN claim[w] ELSE None

Queue == INSTANCE RunQueue WITH
           phase <- [r \in Runs |-> phaseOf(r)],
           job <- [w \in Workers |-> jobOf(w)]

(* The claims are a queue: only its worker moves a claimed run, a lost one *)
(* comes back by a sweep alone and while nobody is on it, an abandoned     *)
(* extraction is repeated and an abandoned execution never                 *)
(* (node-files-worker.ts:32-50, nf-run.dao.ts:284-289).                    *)
ImplementsRunQueue == Queue!Spec
=============================================================================
