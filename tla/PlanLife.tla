------------------------------ MODULE PlanLife ------------------------------
(***************************************************************************)
(* What src/services/corrugator/plan.service.ts promises of one corrugator *)
(* plan: its committed rows change as if every request, every report of a  *)
(* solve and every sweep happened at one instant, and by these steps only. *)
(* There are no transactions, locks, stale reads or lost clients here:     *)
(* CorrugatorPlan has them, and implements this.                           *)
(***************************************************************************)
CONSTANTS
  Orders,
  Runs,
  Hand,
  None

VARIABLES
  status, token, solveStatus,  \* corrugator_plans
  lines,      \* corrugator_plan_orders
  combos,     \* corrugator_plan_combinations
  allocated,  \* the lines that hold an allocation
  engine      \* the worker of each run

rows == <<status, token, solveStatus, lines, combos, allocated>>
vars == <<rows, engine>>

Init ==
  /\ status = "draft" /\ token = None /\ solveStatus = None
  /\ lines \in (SUBSET Orders) \ {{}}
  /\ combos = {} /\ allocated = {}
  /\ engine = [r \in Runs |-> "unused"]

ByHand(U) == {[by |-> Hand, uses |-> U]}

(* What is left of combinations when only the orders of L are lines.       *)
Cut(K, L) == {[by |-> k.by, uses |-> k.uses \cap L] : k \in K}

-----------------------------------------------------------------------------
(* The requests.                                                           *)

(* A line comes, goes or changes, or the plan's configuration does. The    *)
(* edit may leave the plan a draft, with what it had found of combinations *)
(* gone: that is decided from a status which is not the present one always.*)
Edit ==
  /\ status # "deleted"
  /\ lines' = lines \/ \E o \in Orders : lines' \in {lines \cup {o}, lines \ {o}}
  /\ allocated' = allocated \cap lines'
  /\ \/ status' = status /\ combos' = Cut(combos, lines')
     \/ status' = "draft" /\ combos' \subseteq Cut(combos, lines')
  /\ UNCHANGED <<token, solveStatus, engine>>

(* One combination goes, one made by hand comes, or one replaces another.  *)
Adjust ==
  /\ status # "deleted"
  /\ \E out \in {{}} \cup {{k} : k \in combos}, in \in {{}} \cup {ByHand(U) : U \in SUBSET lines} :
       combos' = (combos \ out) \cup in
  /\ UNCHANGED <<status, token, solveStatus, lines, allocated, engine>>

(* The plan waits for a run that was started for it alone, and no earlier  *)
(* run's combination is left.                                              *)
Solve(r) ==
  /\ status \in {"draft", "solved", "failed"}
  /\ engine[r] # "unused" /\ token # r
  /\ status' = "solving" /\ token' = r /\ solveStatus' = None
  /\ combos' \subseteq {k \in combos : k.by = Hand}
  /\ UNCHANGED <<lines, allocated, engine>>

Cancel ==
  /\ status = "solving"
  /\ status' = "draft" /\ solveStatus' = "cancelled"
  /\ UNCHANGED <<token, lines, combos, allocated, engine>>

Register ==
  /\ status = "solved" /\ status' = "registered"
  /\ allocated' = lines
  /\ UNCHANGED <<token, solveStatus, lines, combos, engine>>

Unregister ==
  /\ status = "registered" /\ status' = "solved"
  /\ allocated' = {}
  /\ UNCHANGED <<token, solveStatus, lines, combos, engine>>

(* It was not registered when that was looked at; it may be by now.        *)
Delete ==
  /\ status # "deleted" /\ status' = "deleted"
  /\ lines' = {} /\ combos' = {} /\ allocated' = {}
  /\ UNCHANGED <<token, solveStatus, engine>>

-----------------------------------------------------------------------------
(* The runs and the sweep.                                                 *)

Turn(r, from, to) == engine[r] = from /\ engine' = [engine EXCEPT ![r] = to]

Start(r) == Turn(r, "unused", "working") /\ UNCHANGED rows

(* A run reports once, and the plan hears it only while it waits for it.   *)
Report(r) ==
  /\ Turn(r, "working", "over")
  /\ \/ UNCHANGED rows
     \/ /\ status = "solving" /\ token = r
        /\ \/ /\ status' = "failed" /\ solveStatus' \in {"error", "cancelled"}
              /\ UNCHANGED combos
           \/ /\ status' = "solved" /\ solveStatus' = "ok"
              /\ \E in \in {{}} \cup {{[by |-> r, uses |-> U]} : U \in SUBSET lines} :
                   combos' = combos \cup in
        /\ UNCHANGED <<token, lines, allocated>>

(* A restart takes the workers with it. *)
Restart ==
  /\ engine' = [r \in Runs |-> IF engine[r] = "unused" THEN "unused" ELSE "over"]
  /\ UNCHANGED rows

(* The sweep gives a plan up by its id alone. *)
GiveUp ==
  /\ status # "deleted"
  /\ status' = "failed" /\ solveStatus' = "error"
  /\ UNCHANGED <<token, lines, combos, allocated, engine>>

Next ==
  \/ Edit \/ Adjust \/ Cancel \/ Register \/ Unregister \/ Delete
  \/ \E r \in Runs : Solve(r) \/ Start(r) \/ Report(r)
  \/ Restart \/ GiveUp

Spec == Init /\ [][Next]_vars
=============================================================================
