------------------------------ MODULE Reminders ------------------------------
(***************************************************************************)
(* src/services/countdown/countdown-reminders.service.ts with              *)
(* dao/countdown/countdown-reminder.dao.ts: the daily batch of e-mails.    *)
(*                                                                         *)
(* Two containers overlap during a deploy, each with its hourly tick, and  *)
(* a superAdmin may start the batch by hand. Each visits the companies one  *)
(* by one: it claims the company's day, reads who is to be written to,     *)
(* mails them, and stamps the run. Which documents are due, and to whom,   *)
(* is the choice of a set of recipients when the batch is read; those who   *)
(* failed and those who were skipped are counted together.                 *)
(*                                                                         *)
(* A company's day is claimed in its database, which is its own or, after    *)
(* registerShared (tenant-provisioning.service.ts), everybody's.            *)
(*                                                                         *)
(* The claim and the stamp have transactions of their own. What lies       *)
(* between runs outside any, but for a batch started by hand: its request  *)
(* is armed (AmbientTransaction), so the digests it records are committed  *)
(* by its response.                                                        *)
(***************************************************************************)
EXTENDS Integers, FiniteSets

CONSTANTS
  Companies, Users,
  Home,         \* the company of a user
  Database,     \* the database of a company
  Schedulers,   \* hourly ticks, one of each container
  Requests,     \* batches started by hand (POST /reminders/run)
  Days,         \* calendar days of Buenos Aires: 1 .. n
  SendDays,     \* those from Monday to Friday
  MaxCrashes,   \* bound on crashes
  Fragile,      \* the companies that may be out of reach for a while
  None

Workers == Schedulers \cup Requests

ASSUME RemindersAssumption ==
  /\ Home \in [Users -> Companies] /\ IsFiniteSet(Users)
  /\ Database = [c \in Companies |-> Database[c]]
  /\ Schedulers \cap Requests = {} /\ None \notin Users \cup Companies \cup Workers
  /\ 1 \in Days /\ Days \subseteq Nat /\ SendDays \subseteq Days
  /\ MaxCrashes \in Nat /\ Fragile \subseteq Companies

VARIABLES
  run,          \* countdown_reminder_runs of each database, one row a day;
                \* `of`, whose batch it is, is not in the row
  digests,      \* countdown_reminder_digests: <<user, day>>, as committed
  job,          \* what each worker is doing
  written,      \* the digests that a worker's request has not committed
  posts,        \* history: the messages that the provider accepted
  reachable,    \* the companies that can be acquired
  day, crashes

vars == <<run, digests, job, written, posts, reachable, day, crashes>>

Letters == Users \X Days
Of(c) == {u \in Users : Home[u] = c}
Rows == {Database[c] : c \in Companies} \X Days
Row(c, d) == <<Database[c], d>>

NoRun == [state |-> "none", of |-> None, by |-> None, sent |-> 0]
Idle == [step |-> "idle", day |-> 1, todo |-> {}, company |-> None, left |-> {},
         asked |-> 0, to |-> None, sent |-> 0, missed |-> 0, client |-> "waits"]

Runs == [state : {"none", "claimed", "stamped"}, of : Companies \cup {None},
         by : Workers \cup {None}, sent : Nat]
Jobs == [step : {"idle", "visiting", "reading", "sending", "recording", "answered"},
         day : Days, todo : SUBSET Companies, company : Companies \cup {None},
         left : SUBSET Users, asked : Nat, to : Users \cup {None},
         sent : Nat, missed : Nat, client : {"waits", "gone"}]

TypeOK ==
  /\ run \in [Rows -> Runs]
  /\ digests \subseteq Letters
  /\ job \in [Workers -> Jobs]
  /\ written \in [Workers -> SUBSET Letters]
  /\ posts \in [Letters -> Nat]
  /\ reachable \subseteq Companies /\ day \in Days /\ crashes \in 0..MaxCrashes
  /\ \A w \in Workers :
       /\ job[w].step \in {"reading", "sending", "recording"}
            => job[w].company \in Companies
       /\ job[w].step = "recording" => job[w].to \in Users
       /\ written[w] # {} => w \in Requests /\ job[w].client = "waits"

Init ==
  /\ run = [x \in Rows |-> NoRun]
  /\ digests = {}
  /\ job = [w \in Workers |-> Idle]
  /\ written = [w \in Workers |-> {}]
  /\ posts = [x \in Letters |-> 0]
  /\ reachable = Companies /\ day = 1 /\ crashes = 0

-----------------------------------------------------------------------------
Busy(w) == job[w].step \notin {"idle", "answered"}

(* A tick comes again, a request does not. *)
Over(w) == IF w \in Requests THEN [Idle EXCEPT !.step = "answered"] ELSE Idle

(* The tick, which a run under way and a weekend leave alone; by hand there *)
(* is no such condition.                                                   *)
Start(w) ==
  /\ job[w].step = "idle"
  /\ w \in Schedulers => day \in SendDays
  /\ job' = [job EXCEPT ![w] = [Idle EXCEPT !.step = "visiting", !.day = day,
                                            !.todo = Companies]]
  /\ UNCHANGED <<run, digests, written, posts, reachable, day, crashes>>

Claimed(w, c) == run[Row(c, job[w].day)].state # "none"

(* Mutant of Skip: a company that cannot be acquired ends the batch. *)
SkipAll(w, c) == [job EXCEPT ![w].todo = {}]

Skip(w, c) == [job EXCEPT ![w].todo = @ \ {c}]

(* runDailyOnce: one company after the other, each in a scope of its own;  *)
(* claimToday commits before anything is read.                             *)
Visit(w, c) ==
  /\ job[w].step = "visiting" /\ c \in job[w].todo
  /\ \/ /\ c \notin reachable \/ Claimed(w, c)
        /\ job' = Skip(w, c)
        /\ UNCHANGED run
     \/ /\ c \in reachable /\ ~Claimed(w, c)
        /\ run' = [run EXCEPT ![Row(c, job[w].day)] =
                     [state |-> "claimed", of |-> c, by |-> w, sent |-> 0]]
        /\ job' = [job EXCEPT ![w].step = "reading", ![w].company = c,
                              ![w].todo = @ \ {c}]
  /\ UNCHANGED <<digests, written, posts, reachable, day, crashes>>

(* The next company: the counters are those of a company's batch. *)
Leave(w) ==
  job' = [job EXCEPT ![w] = [Idle EXCEPT !.step = "visiting", !.day = job[w].day,
                                         !.todo = job[w].todo, !.client = job[w].client]]

(* Who is to be written to, less those who were today. A query that fails  *)
(* here leaves the day claimed.                                            *)
Read(w) ==
  LET done == {u \in Users : <<u, job[w].day>> \in digests \cup written[w]} IN
  /\ job[w].step = "reading"
  /\ \/ \E to \in SUBSET Of(job[w].company) :
          job' = [job EXCEPT ![w].step = "sending", ![w].left = to \ done,
                             ![w].asked = Cardinality(to),
                             ![w].missed = Cardinality(to \cap done)]
     \/ job[w].company \notin reachable /\ Leave(w)
  /\ UNCHANGED <<run, digests, written, posts, reachable, day, crashes>>

(* One recipient: not active (any more), refused by the provider, accepted *)
(* with an answer that came late or never, or accepted.                    *)
Post(w, u) ==
  /\ job[w].step = "sending" /\ u \in job[w].left
  /\ \/ /\ job' = [job EXCEPT ![w].left = @ \ {u}, ![w].missed = @ + 1]
        /\ posts' = posts \/ posts' = [posts EXCEPT ![<<u, job[w].day>>] = @ + 1]
     \/ /\ job' = [job EXCEPT ![w].left = @ \ {u}, ![w].step = "recording", ![w].to = u]
        /\ posts' = [posts EXCEPT ![<<u, job[w].day>>] = @ + 1]
  /\ UNCHANGED <<run, digests, written, reachable, day, crashes>>

(* An insert on its own commits; in an armed request it waits for the answer. *)
Recorded(w, letter) ==
  IF w \in Schedulers \/ job[w].client = "gone"
  THEN digests' = digests \cup {letter} /\ UNCHANGED written
  ELSE /\ written' = [written EXCEPT ![w] = @ \cup {letter}]
       /\ UNCHANGED digests

(* Mutant of Record: the error of one recipient ends the company's batch. *)
RecordEscapes(w) ==
  /\ job[w].step = "recording"
  /\ \/ /\ job' = [job EXCEPT ![w].step = "sending", ![w].to = None, ![w].sent = @ + 1]
        /\ Recorded(w, <<job[w].to, job[w].day>>)
     \/ /\ job[w].company \notin reachable /\ Leave(w)
        /\ UNCHANGED <<digests, written>>
  /\ UNCHANGED <<run, posts, reachable, day, crashes>>

(* Mutant of Record: what could not be recorded counts as sent. *)
RecordCountsAll(w) ==
  /\ job[w].step = "recording"
  /\ job' = [job EXCEPT ![w].step = "sending", ![w].to = None, ![w].sent = @ + 1]
  /\ \/ Recorded(w, <<job[w].to, job[w].day>>)
     \/ job[w].company \notin reachable /\ UNCHANGED <<digests, written>>
  /\ UNCHANGED <<run, posts, reachable, day, crashes>>

(* recordDigest; its error is this recipient's only. *)
Record(w) ==
  /\ job[w].step = "recording"
  /\ \/ /\ job' = [job EXCEPT ![w].step = "sending", ![w].to = None, ![w].sent = @ + 1]
        /\ Recorded(w, <<job[w].to, job[w].day>>)
     \/ /\ job[w].company \notin reachable
        /\ job' = [job EXCEPT ![w].step = "sending", ![w].to = None, ![w].missed = @ + 1]
        /\ UNCHANGED <<digests, written>>
  /\ UNCHANGED <<run, posts, reachable, day, crashes>>

(* recordOutcome, a transaction of its own, which may fail. *)
Stamp(w) ==
  /\ job[w].step = "sending" /\ job[w].left = {}
  /\ Leave(w)
  /\ \/ run' = [run EXCEPT ![Row(job[w].company, job[w].day)].state = "stamped",
                           ![Row(job[w].company, job[w].day)].sent = job[w].sent]
     \/ job[w].company \notin reachable /\ UNCHANGED run
  /\ UNCHANGED <<digests, written, posts, reachable, day, crashes>>

(* The batch ends; a request answers 200 and its transaction commits. *)
Finish(w) ==
  /\ job[w].step = "visiting" /\ job[w].todo = {}
  /\ job' = [job EXCEPT ![w] = Over(w)]
  /\ digests' = digests \cup written[w]
  /\ written' = [written EXCEPT ![w] = {}]
  /\ UNCHANGED <<run, posts, reachable, day, crashes>>

(* Mutant of Disconnect: what the request wrote is left behind. *)
DisconnectKeeps(w) ==
  /\ w \in Requests /\ Busy(w) /\ job[w].client = "waits"
  /\ job' = [job EXCEPT ![w].client = "gone"]
  /\ UNCHANGED <<run, digests, written, posts, reachable, day, crashes>>

(* The client goes away: what is written is rolled back, and the handler    *)
(* goes on without a transaction.                                          *)
Disconnect(w) ==
  /\ w \in Requests /\ Busy(w) /\ job[w].client = "waits"
  /\ job' = [job EXCEPT ![w].client = "gone"]
  /\ written' = [written EXCEPT ![w] = {}]
  /\ UNCHANGED <<run, digests, posts, reachable, day, crashes>>

(* Mutant of Crash: the claim was part of the batch's transaction. *)
CrashUnclaims(w) ==
  /\ Busy(w) /\ crashes < MaxCrashes
  /\ job' = [job EXCEPT ![w] = Over(w)]
  /\ written' = [written EXCEPT ![w] = {}]
  /\ run' = [x \in Rows |->
               IF run[x].by = w /\ run[x].state = "claimed" THEN NoRun ELSE run[x]]
  /\ crashes' = crashes + 1
  /\ UNCHANGED <<digests, posts, reachable, day>>

(* A restart in the middle of a batch. *)
Crash(w) ==
  /\ Busy(w) /\ crashes < MaxCrashes
  /\ job' = [job EXCEPT ![w] = Over(w)]
  /\ written' = [written EXCEPT ![w] = {}]
  /\ crashes' = crashes + 1
  /\ UNCHANGED <<run, digests, posts, reachable, day>>

(* The environment: midnight; a company is suspended, or its server down. *)
Midnight ==
  /\ day + 1 \in Days
  /\ day' = day + 1
  /\ UNCHANGED <<run, digests, job, written, posts, reachable, crashes>>

Reach(c) ==
  /\ c \in Fragile
  /\ reachable' = IF c \in reachable THEN reachable \ {c} ELSE reachable \cup {c}
  /\ UNCHANGED <<run, digests, job, written, posts, day, crashes>>

Step(w) ==
  \/ \E c \in Companies : Visit(w, c)
  \/ \E u \in Users : Post(w, u)
  \/ Start(w) \/ Read(w) \/ Record(w) \/ Stamp(w) \/ Finish(w)

Next ==
  \/ \E w \in Workers : Step(w) \/ Disconnect(w) \/ Crash(w)
  \/ Midnight
  \/ \E c \in Companies : Reach(c)

(* The ticks go on, and every call of a batch returns: a query fails, and   *)
(* the provider is given ten seconds (module-email.service.ts:28).         *)
Spec ==
  /\ Init /\ [][Next]_vars
  /\ \A w \in Schedulers : WF_vars(Step(w))

-----------------------------------------------------------------------------
(* countdown-reminders.service.ts:221: "a container restart in the middle  *)
(* of a run cannot mail anybody twice", nor can a second container or a     *)
(* batch by hand. Not even to be deduplicated by the provider.              *)
MailedOnce == \A x \in Letters : posts[x] <= 1

(* countdown-reminder.dao.ts:157: a digest is recorded only after the       *)
(* provider accepted it.                                                   *)
RecordedWereMailed == \A x \in digests : posts[x] > 0

(* countdown-reminders.service.ts:232-238: `sent` are the digests that were *)
(* recorded. So it is for a tick's batch; one by hand stamps its run before *)
(* its digests are committed, and they may be rolled back.                 *)
SentAreRecorded ==
  \A b \in DOMAIN run :
    run[b].state = "stamped" /\ run[b].by \in Schedulers
      => run[b].sent = Cardinality({u \in Of(run[b].of) : <<u, b[2]>> \in digests})

(* countdown-reminders.service.ts:326: "one recipient's problem is that      *)
(* recipient's problem": a worker that lives leaves a batch it has read     *)
(* only when everybody was tried and counted once.                         *)
EveryoneTried ==
  [][\A w \in Workers :
       job[w].step \in {"sending", "recording"} /\ job'[w].step = "visiting"
         => /\ job[w].left = {}
            /\ job[w].sent + job[w].missed = job[w].asked]_vars

(* countdown-reminders.service.ts:393: "run each company's batch unless that *)
(* company's day has already gone out": a company that can be reached has  *)
(* its own batch begun while the day lasts, whatever the others' databases *)
(* and the containers do (:401, "the rest still get their claim attempt").  *)
ServedWhileTheDayLasts ==
  \A c \in Companies, d \in SendDays :
    <>[](day = d /\ c \in reachable) => <>(run[Row(c, d)].of = c)
=============================================================================
