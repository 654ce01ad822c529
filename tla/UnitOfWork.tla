----------------------------- MODULE UnitOfWork -----------------------------
(***************************************************************************)
(* What the ambient transaction promises the handlers and the client of a  *)
(* mutating request (src/middlewares/audit-context.middleware.ts, header): *)
(* what it does on each database is kept or dropped as a whole, all of it  *)
(* is settled before the client is answered, a success is never told of    *)
(* dropped work and a refusal never of kept work.                          *)
(***************************************************************************)
CONSTANTS
  Databases,
  None

VARIABLES
  work,      \* of each database: what became of the request's work there
  answer     \* what the client was told

vars == <<work, answer>>

Fates == {"durable", "discarded"}
Answers == {"ok", "error", "unknown"}

TypeOK ==
  /\ work \in [Databases -> {"untouched", "pending"} \cup Fates]
  /\ answer \in Answers \cup {None, "gone"}

Init ==
  /\ work = [d \in Databases |-> "untouched"]
  /\ answer = None

(* The request does its first work on a database. *)
Begin(d) ==
  /\ answer = None /\ work[d] = "untouched"
  /\ work' = [work EXCEPT ![d] = "pending"]
  /\ UNCHANGED answer

(* What it did there is kept, or dropped. *)
Settle(d) ==
  /\ work[d] = "pending"
  /\ \E f \in Fates : work' = [work EXCEPT ![d] = f]
  /\ UNCHANGED answer

(* The client is answered: `unknown` is a 500 that says nothing of what was *)
(* kept.                                                                    *)
Reply(a) ==
  /\ answer = None
  /\ \A d \in Databases : work[d] # "pending"
  /\ a = "ok" => \A d \in Databases : work[d] # "discarded"
  /\ a = "error" => \A d \in Databases : work[d] # "durable"
  /\ answer' = a
  /\ UNCHANGED work

(* The client goes away unanswered. *)
Abandon ==
  /\ answer = None
  /\ answer' = "gone"
  /\ UNCHANGED work

Next ==
  \/ \E d \in Databases : Begin(d) \/ Settle(d)
  \/ \E a \in Answers : Reply(a)
  \/ Abandon

Spec == Init /\ [][Next]_vars
=============================================================================
