------------------------------ MODULE RunQueue ------------------------------
(***************************************************************************)
(* What the claims of nf_runs promise a run                                *)
(* (src/services/node-files/node-files-worker.ts, header): a queue whose   *)
(* runs are each in the hands of one worker at most, which alone moves     *)
(* them on; a run nobody holds is moved by a person, or by the recovery    *)
(* from a worker that was lost. There are no locks, dates, sweeps, rounds  *)
(* or stale reads here: NodeFilesRuns has them, and implements this.       *)
(***************************************************************************)
CONSTANTS
  Runs,
  Reviewable,  \* the runs a person reviews between extraction and execution
  Workers,
  None

VARIABLES
  phase,  \* how far each run is
  job     \* the run in each worker's hands

vars == <<phase, job>>

Held == {"extracting", "starting", "walking"}
Ended == {"succeeded", "failed"}

TypeOK ==
  /\ phase \in [Runs -> {"absent", "queued", "pending_review", "ready"} \cup Held \cup Ended]
  /\ job \in [Workers -> Runs \cup {None}]

Init ==
  /\ phase = [r \in Runs |-> "absent"]
  /\ job = [w \in Workers |-> None]

Move(r, from, to) ==
  /\ phase[r] = from
  /\ phase' = [phase EXCEPT ![r] = to]

Free(r) == \A w \in Workers : job[w] # r

LayDown(w) == job' = [job EXCEPT ![w] = None]

(* What people do. *)
Submit(r) == Move(r, "absent", "queued") /\ UNCHANGED job
Review(r) == Move(r, "pending_review", "ready") /\ UNCHANGED job
Retry(r) == (\E to \in {"queued", "ready"} : Move(r, "failed", to)) /\ UNCHANGED job

(* A worker takes up a run to extract, or one to execute. *)
Take(w, r) ==
  /\ job[w] = None /\ Free(r)
  /\ Move(r, "queued", "extracting") \/ Move(r, "ready", "starting")
  /\ job' = [job EXCEPT ![w] = r]

(* It has extracted the run, and hands it over for review or goes on. *)
Store(w, r) ==
  /\ job[w] = r
  /\ \/ r \in Reviewable /\ Move(r, "extracting", "pending_review") /\ LayDown(w)
     \/ r \notin Reviewable /\ Move(r, "extracting", "starting") /\ UNCHANGED job

Walk(w, r) == job[w] = r /\ Move(r, "starting", "walking") /\ UNCHANGED job

End(w, r) ==
  /\ job[w] = r
  /\ \/ Move(r, "extracting", "failed")
     \/ \E from \in {"starting", "walking"}, to \in Ended : Move(r, from, to)
  /\ LayDown(w)

(* A worker is lost, and what it held stays as it was; *)
Lose(w) == LayDown(w) /\ UNCHANGED phase

(* until it is given back to the queue, or given up if it may have begun to *)
(* act on the world.                                                        *)
Recover(lost) ==
  /\ \A r \in lost : Free(r) /\ phase[r] \in Held
  /\ phase' = [r \in Runs |-> IF r \notin lost THEN phase[r]
                              ELSE IF phase[r] = "extracting" THEN "queued" ELSE "failed"]
  /\ UNCHANGED job

Next ==
  \/ \E r \in Runs : Submit(r) \/ Review(r) \/ Retry(r)
  \/ \E w \in Workers, r \in Runs : Take(w, r) \/ Store(w, r) \/ Walk(w, r) \/ End(w, r)
  \/ \E w \in Workers : Lose(w)
  \/ \E lost \in SUBSET Runs : Recover(lost)

Spec == Init /\ [][Next]_vars
=============================================================================
