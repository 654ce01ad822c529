--------------------------- MODULE RemindersProofs ---------------------------
(***************************************************************************)
(* Theorems about Reminders, for any companies, users, containers, requests*)
(* and crashes. A batch is known by the company and day it claimed: the    *)
(* row names its worker, and every letter of that company and day is that  *)
(* worker's.                                                               *)
(***************************************************************************)
EXTENDS Reminders, FiniteSetTheorems, TLAPS

USE RemindersAssumption

InBatch(w) == job[w].step \in {"reading", "sending", "recording"}
Held(w) == Row(job[w].company, job[w].day)

LEMMA UsersFinite ==
  ASSUME NEW S \in SUBSET Users
  PROVE  IsFiniteSet(S) /\ Cardinality(S) \in Nat
  BY FS_Subset, FS_CardinalityType

LEMMA IdleType == Idle \in Jobs /\ \A w \in Workers : Over(w) \in Jobs
<1>1. Idle \in Jobs
  BY DEF Idle, Jobs
<1>2. [Idle EXCEPT !.step = "answered"] \in Jobs
  BY DEF Idle, Jobs
<1> QED BY <1>1, <1>2 DEF Over

(* Where a worker goes when it leaves a company. *)
Left(w) == [Idle EXCEPT !.step = "visiting", !.day = job[w].day,
                        !.todo = job[w].todo, !.client = job[w].client]

LEMMA LeftType ==
  ASSUME TypeOK, NEW w \in Workers
  PROVE  Left(w) \in Jobs
  BY DEF TypeOK, Jobs, Left, Idle

-----------------------------------------------------------------------------
(* Each action moves the job of one worker.                                *)

(* A record of a job in which some fields are replaced is one. *)
LEMMA JobUpdates ==
  ASSUME NEW j \in Jobs
  PROVE  /\ \A t \in SUBSET Companies : [j EXCEPT !.todo = t] \in Jobs
         /\ \A t \in SUBSET Companies, c \in Companies :
              [j EXCEPT !.step = "reading", !.company = c, !.todo = t] \in Jobs
         /\ \A l \in SUBSET Users, a, m \in Nat :
              [j EXCEPT !.step = "sending", !.left = l, !.asked = a, !.missed = m] \in Jobs
         /\ \A l \in SUBSET Users, m \in Nat :
              [j EXCEPT !.left = l, !.missed = m] \in Jobs
         /\ \A l \in SUBSET Users, u \in Users :
              [j EXCEPT !.left = l, !.step = "recording", !.to = u] \in Jobs
         /\ \A n \in Nat :
              /\ [j EXCEPT !.step = "sending", !.to = None, !.sent = n] \in Jobs
              /\ [j EXCEPT !.step = "sending", !.to = None, !.missed = n] \in Jobs
  BY DEF Jobs

LEMMA GoneType ==
  ASSUME NEW j \in Jobs
  PROVE  [j EXCEPT !.client = "gone"] \in Jobs
  BY DEF Jobs

LEMMA BeganType ==
  ASSUME NEW d \in Days
  PROVE  [Idle EXCEPT !.step = "visiting", !.day = d, !.todo = Companies] \in Jobs
  BY DEF Idle, Jobs

-----------------------------------------------------------------------------
(* Types.                                                                  *)

(* What the type says of one worker's job beyond its fields. *)
Sound(j) ==
  /\ j.step \in {"reading", "sending", "recording"} => j.company \in Companies
  /\ j.step = "recording" => j.to \in Users

LEMMA JobMoves ==
  ASSUME TypeOK, NEW w \in Workers, NEW j \in Jobs, Sound(j),
         j.client = job[w].client \/ written[w] = {},
         job' = [job EXCEPT ![w] = j], UNCHANGED written,
         run' \in [Rows -> Runs], digests' \subseteq Letters,
         posts' \in [Letters -> Nat], UNCHANGED <<reachable, day, crashes>>
  PROVE  TypeOK'
  BY DEF TypeOK, Sound

LEMMA PostType ==
  ASSUME TypeOK, NEW w \in Workers, NEW u \in Users, Post(w, u)
  PROVE  TypeOK'
<1>1. job[w] \in Jobs /\ <<u, job[w].day>> \in Letters
  BY DEF TypeOK, Jobs, Letters
<1>2. posts' \in [Letters -> Nat]
  BY <1>1 DEF Post, TypeOK
<1>3. CASE job' = [job EXCEPT ![w].left = @ \ {u}, ![w].missed = @ + 1]
  <2> DEFINE j == [job[w] EXCEPT !.left = @ \ {u}, !.missed = @ + 1]
  <2>1. j \in Jobs /\ Sound(j) /\ j.client = job[w].client
    BY <1>1, Post(w, u) DEF Jobs, Sound, Post, TypeOK
  <2>2. job' = [job EXCEPT ![w] = j]
    BY <1>3, <1>1 DEF TypeOK
  <2> QED BY <2>1, <2>2, <1>2, JobMoves DEF Post, TypeOK
<1>4. CASE job' = [job EXCEPT ![w].left = @ \ {u}, ![w].step = "recording", ![w].to = u]
  <2> DEFINE j == [job[w] EXCEPT !.left = @ \ {u}, !.step = "recording", !.to = u]
  <2>1. j \in Jobs /\ Sound(j) /\ j.client = job[w].client
    BY <1>1, Post(w, u) DEF Jobs, Sound, Post, TypeOK
  <2>2. job' = [job EXCEPT ![w] = j]
    BY <1>4, <1>1 DEF TypeOK
  <2> QED BY <2>1, <2>2, <1>2, JobMoves DEF Post, TypeOK
<1> QED BY <1>3, <1>4 DEF Post

LEMMA RecordedType ==
  ASSUME TypeOK, NEW w \in Workers, NEW x \in Letters, Recorded(w, x)
  PROVE  /\ digests' \subseteq Letters
         /\ written' \in [Workers -> SUBSET Letters]
         /\ \A v \in Workers : written'[v] # {} =>
              v \in Requests /\ job[v].client = "waits"
<1>1. CASE w \in Schedulers \/ job[w].client = "gone"
  BY <1>1 DEF Recorded, TypeOK
<1>2. CASE w \in Requests /\ job[w].client = "waits"
  BY <1>2 DEF Recorded, TypeOK
<1> QED BY <1>1, <1>2 DEF Workers, TypeOK, Jobs

LEMMA RecordType ==
  ASSUME TypeOK, NEW w \in Workers, Record(w)
  PROVE  TypeOK'
<1>1. job[w] \in Jobs /\ <<job[w].to, job[w].day>> \in Letters
  BY DEF TypeOK, Jobs, Letters, Record
<1>2. /\ digests' \subseteq Letters
      /\ written' \in [Workers -> SUBSET Letters]
      /\ \A v \in Workers : written'[v] # {} =>
           v \in Requests /\ job[v].client = "waits"
  BY <1>1, RecordedType DEF Record, TypeOK
<1>3. job[w].sent + 1 \in Nat /\ job[w].missed + 1 \in Nat
  BY <1>1 DEF Jobs
<1>4. CASE job' = [job EXCEPT ![w].step = "sending", ![w].to = None, ![w].sent = @ + 1]
  <2> DEFINE j == [job[w] EXCEPT !.step = "sending", !.to = None,
                                 !.sent = job[w].sent + 1]
  <2>0. job[w].company \in Companies
    BY DEF Record, TypeOK
  <2>a. j \in Jobs
    BY <1>1, <1>3, JobUpdates
  <2>b. j.step = "sending" /\ j.company = job[w].company /\ j.client = job[w].client
    BY <1>1 DEF Jobs
  <2>1. j \in Jobs /\ Sound(j) /\ j.client = job[w].client
    BY <2>0, <2>a, <2>b DEF Sound
  <2>2. job' = [job EXCEPT ![w] = j]
    BY <1>4, <1>1 DEF TypeOK
  <2> QED BY <2>1, <2>2, <1>2 DEF Record, TypeOK, Sound
<1>5. CASE job' = [job EXCEPT ![w].step = "sending", ![w].to = None, ![w].missed = @ + 1]
  <2> DEFINE j == [job[w] EXCEPT !.step = "sending", !.to = None,
                                 !.missed = job[w].missed + 1]
  <2>0. job[w].company \in Companies
    BY DEF Record, TypeOK
  <2>a. j \in Jobs
    BY <1>1, <1>3, JobUpdates
  <2>b. j.step = "sending" /\ j.company = job[w].company /\ j.client = job[w].client
    BY <1>1 DEF Jobs
  <2>1. j \in Jobs /\ Sound(j) /\ j.client = job[w].client
    BY <2>0, <2>a, <2>b DEF Sound
  <2>2. job' = [job EXCEPT ![w] = j]
    BY <1>5, <1>1 DEF TypeOK
  <2> QED BY <2>1, <2>2, <1>2 DEF Record, TypeOK, Sound
<1> QED BY <1>4, <1>5 DEF Record

LEMMA ReadType ==
  ASSUME TypeOK, NEW w \in Workers, Read(w)
  PROVE  TypeOK'
<1>1. job[w] \in Jobs /\ job[w].company \in Companies
  BY DEF TypeOK, Read
<1>2. CASE Leave(w)
  <2>1. Left(w) \in Jobs /\ Sound(Left(w)) /\ Left(w).client = job[w].client
    BY LeftType, <1>1 DEF Left, Idle, Sound
  <2>2. job' = [job EXCEPT ![w] = Left(w)]
    BY <1>2 DEF Leave, Left
  <2> QED BY <2>1, <2>2, JobMoves DEF Read, TypeOK
<1>3. CASE ~Leave(w)
  <2> DEFINE done == {u \in Users : <<u, job[w].day>> \in digests \cup written[w]}
  <2>1. PICK to \in SUBSET Of(job[w].company) :
          job' = [job EXCEPT ![w].step = "sending", ![w].left = to \ done,
                             ![w].asked = Cardinality(to),
                             ![w].missed = Cardinality(to \cap done)]
    BY <1>3 DEF Read
  <2>2. Cardinality(to) \in Nat /\ Cardinality(to \cap done) \in Nat
    BY UsersFinite DEF Of
  <2> DEFINE j == [job[w] EXCEPT !.step = "sending", !.left = to \ done,
                                 !.asked = Cardinality(to),
                                 !.missed = Cardinality(to \cap done)]
  <2>3. to \ done \in SUBSET Users
    BY DEF Of
  <2>4. j \in Jobs /\ Sound(j) /\ j.client = job[w].client
    <3> HIDE DEF done
    <3> QED BY <1>1, <2>2, <2>3 DEF Jobs, Sound
  <2>5. job' = [job EXCEPT ![w] = j]
    BY <2>1, <1>1 DEF TypeOK
  <2> QED BY <2>4, <2>5, JobMoves DEF Read, TypeOK
<1> QED BY <1>2, <1>3

LEMMA VisitType ==
  ASSUME TypeOK, NEW w \in Workers, NEW c \in Companies, Visit(w, c)
  PROVE  TypeOK'
<1>1. job[w] \in Jobs /\ job[w].day \in Days /\ job[w].step = "visiting"
  BY DEF TypeOK, Jobs, Visit
<1>2. CASE job' = Skip(w, c)
  <2> DEFINE j == [job[w] EXCEPT !.todo = @ \ {c}]
  <2>1. j \in Jobs /\ Sound(j) /\ j.client = job[w].client
    BY <1>1 DEF Jobs, Sound
  <2>2. job' = [job EXCEPT ![w] = j]
    BY <1>2, <1>1 DEF TypeOK, Skip
  <2>3. run' \in [Rows -> Runs]
    BY <1>1 DEF Visit, TypeOK, Runs
  <2> QED BY <2>1, <2>2, <2>3, JobMoves DEF Visit, TypeOK
<1>3. CASE job' = [job EXCEPT ![w].step = "reading", ![w].company = c, ![w].todo = @ \ {c}]
  <2> DEFINE j == [job[w] EXCEPT !.step = "reading", !.company = c, !.todo = @ \ {c}]
  <2>1. j \in Jobs /\ Sound(j) /\ j.client = job[w].client
    BY <1>1 DEF Jobs, Sound
  <2>2. job' = [job EXCEPT ![w] = j]
    BY <1>3, <1>1 DEF TypeOK
  <2>3. run' \in [Rows -> Runs]
    BY <1>1 DEF Visit, TypeOK, Runs
  <2> QED BY <2>1, <2>2, <2>3, JobMoves DEF Visit, TypeOK
<1> QED BY <1>2, <1>3 DEF Visit

LEMMA StampType ==
  ASSUME TypeOK, NEW w \in Workers, Stamp(w)
  PROVE  TypeOK'
<1>1. job[w] \in Jobs /\ Held(w) \in Rows /\ job[w].sent \in Nat
  BY DEF TypeOK, Jobs, Stamp, Held, Row, Rows
<1>2. Left(w) \in Jobs /\ Sound(Left(w)) /\ Left(w).client = job[w].client
  BY LeftType, <1>1 DEF Left, Idle, Sound
<1>3. job' = [job EXCEPT ![w] = Left(w)]
  BY DEF Stamp, Leave, Left
<1>4. run' \in [Rows -> Runs]
  <2>1. run[Held(w)] \in Runs
    BY <1>1 DEF TypeOK
  <2>2. [run[Held(w)] EXCEPT !.state = "stamped", !.sent = job[w].sent] \in Runs
    BY <1>1, <2>1 DEF Runs
  <2>3. CASE UNCHANGED run
    BY <2>3 DEF TypeOK
  <2>4. CASE run' = [run EXCEPT ![Held(w)].state = "stamped",
                                ![Held(w)].sent = job[w].sent]
    <3>1. run' = [run EXCEPT ![Held(w)] = [run[Held(w)] EXCEPT !.state = "stamped",
                                                           !.sent = job[w].sent]]
      BY <2>4, <1>1 DEF TypeOK
    <3> QED BY <3>1, <2>2, <1>1 DEF TypeOK
  <2> QED BY <2>3, <2>4 DEF Stamp, Held, Row
<1> QED BY <1>2, <1>3, <1>4, JobMoves DEF Stamp, TypeOK

(* Every variable stays within its type, a batch has a company, and only a *)
(* request whose client waits has digests to commit.                       *)
LEMMA TypeStep ==
  ASSUME TypeOK, [Next]_vars
  PROVE  TypeOK'
<1>1. ASSUME NEW w \in Workers, Start(w) PROVE TypeOK'
  <2> DEFINE j == [Idle EXCEPT !.step = "visiting", !.day = day, !.todo = Companies]
  <2>1. j \in Jobs /\ Sound(j) /\ j.client = "waits"
    BY BeganType DEF TypeOK, Sound, Idle
  <2>2. job' = [job EXCEPT ![w] = j]
    BY <1>1 DEF Start
  <2>3. job[w] \in Jobs
    BY DEF TypeOK
  <2> QED BY <2>1, <2>2, <2>3, <1>1, JobMoves DEF Start, TypeOK
<1>2. ASSUME NEW w \in Workers, Finish(w) \/ Crash(w) PROVE TypeOK'
  <2>1. Over(w) \in Jobs /\ Sound(Over(w))
    BY IdleType DEF Over, Idle, Sound
  <2> QED BY <2>1, <1>2 DEF Finish, Crash, TypeOK, Sound
<1>3. ASSUME NEW w \in Workers, Disconnect(w) PROVE TypeOK'
  <2>1. job[w] \in Jobs
    BY DEF TypeOK
  <2> DEFINE j == [job[w] EXCEPT !.client = "gone"]
  <2>2. j \in Jobs /\ Sound(j)
    BY <2>1, GoneType DEF TypeOK, Sound, Jobs
  <2>3. job' = [job EXCEPT ![w] = j]
    BY <1>3, <2>1 DEF Disconnect, TypeOK
  <2> QED BY <2>2, <2>3, <1>3 DEF Disconnect, TypeOK, Sound
<1>4. CASE Midnight \/ \E c \in Companies : Reach(c)
  BY <1>4 DEF Midnight, Reach, TypeOK
<1>5. CASE UNCHANGED vars
  BY <1>5 DEF vars, TypeOK
<1> QED
  BY <1>1, <1>2, <1>3, <1>4, <1>5, PostType, RecordType, ReadType, VisitType, StampType
  DEF Next, Step

(* Every variable keeps its type, whatever crashes, closes and comes back.   *)
THEOREM TypeInvariance == Spec => []TypeOK
<1>1. Init => TypeOK
  <2>1. NoRun \in Runs
    BY DEF NoRun, Runs
  <2>2. Idle.step = "idle"
    BY DEF Idle
  <2> QED BY IdleType, <2>1, <2>2 DEF Init, TypeOK
<1>2. TypeOK /\ [Next]_vars => TypeOK'
  BY TypeStep
<1> QED BY <1>1, <1>2, PTL DEF Spec

-----------------------------------------------------------------------------
(* The invariant. Whoever is in a batch holds the claim of its row; those   *)
(* whom it has still to write to got nothing that day; what it keeps for   *)
(* its response was accepted by the provider, and is of rows it claimed.   *)

RowOf(x) == Row(Home[x[1]], x[2])

Good(w) ==
  /\ InBatch(w) => run[Held(w)].state = "claimed" /\ run[Held(w)].by = w
  /\ job[w].step = "reading" =>
       \A u \in Of(job[w].company) : posts[<<u, job[w].day>>] = 0
  /\ job[w].step \in {"sending", "recording"} =>
       /\ job[w].left \subseteq Of(job[w].company)
       /\ \A u \in job[w].left : posts[<<u, job[w].day>>] = 0
  /\ job[w].step = "recording" =>
       job[w].to \in Of(job[w].company) /\ posts[<<job[w].to, job[w].day>>] > 0
  /\ \A x \in written[w] : run[RowOf(x)].by = w /\ posts[x] > 0

Ledger ==
  /\ \A x \in Rows : run[x].state = "none" <=> run[x].by = None
  /\ \A x \in Letters : posts[x] > 0 => run[RowOf(x)].state # "none"
  /\ \A x \in digests : posts[x] > 0

Inv == TypeOK /\ Ledger /\ MailedOnce /\ \A w \in Workers : Good(w)

LEMMA RowTypes ==
  ASSUME TypeOK
  PROVE  /\ \A w \in Workers : job[w] \in Jobs /\ job[w].day \in Days
         /\ \A w \in Workers : InBatch(w) => Held(w) \in Rows
         /\ \A x \in Letters : RowOf(x) \in Rows /\ posts[x] \in Nat
         /\ \A x \in Rows : run[x] \in Runs
         /\ \A w \in Workers : written[w] \subseteq Letters /\ job[w].left \subseteq Users
         /\ \A w \in Workers : InBatch(w) => \A u \in Of(job[w].company) :
              <<u, job[w].day>> \in Letters /\ RowOf(<<u, job[w].day>>) = Held(w)
  BY DEF TypeOK, Jobs, InBatch, Held, Row, Rows, RowOf, Letters, Of

(* A step of w leaves what the others hold alone. *)
LEMMA OthersKeep ==
  ASSUME Inv, NEW w \in Workers,
         \A v \in Workers \ {w} : job'[v] = job[v] /\ written'[v] = written[v],
         \A x \in Rows :
           run'[x] = run[x] \/ run[x].by \in {None, w},
         \A x \in Letters : posts'[x] = posts[x] \/ run[RowOf(x)].by = w
  PROVE  \A v \in Workers \ {w} : Good(v)'
<1> SUFFICES ASSUME NEW v \in Workers \ {w}
             PROVE  Good(v)'
  OBVIOUS
<1>1. Good(v) /\ v # None
  BY DEF Inv
<1>2. InBatch(v) => run'[Held(v)] = run[Held(v)]
  BY <1>1, RowTypes DEF Good, Inv
<1>3. InBatch(v) => \A u \in Of(job[v].company) :
        posts'[<<u, job[v].day>>] = posts[<<u, job[v].day>>]
  BY <1>1, RowTypes DEF Good, Inv
<1>4. \A x \in written[v] : run'[RowOf(x)] = run[RowOf(x)] /\ posts'[x] = posts[x]
  BY <1>1, RowTypes DEF Good, Inv
<1>5. /\ job'[v] = job[v] /\ written'[v] = written[v]
      /\ InBatch(v)' <=> InBatch(v)
      /\ Held(v)' = Held(v)
  BY DEF InBatch, Held, Row
<1>6. job[v].step \in {"reading", "sending", "recording"} <=> InBatch(v)
  BY DEF InBatch
<1> QED BY <1>1, <1>2, <1>3, <1>4, <1>5, <1>6 DEF Good, Of, RowOf

-----------------------------------------------------------------------------
(* Each action preserves it.                                               *)

LEMMA VisitKeeps ==
  ASSUME Inv, TypeOK', NEW w \in Workers, NEW c \in Companies, Visit(w, c)
  PROVE  Inv'
<1> DEFINE x == Row(c, job[w].day)
<1>1. job[w] \in Jobs /\ x \in Rows /\ job[w].step = "visiting"
  BY RowTypes DEF Inv, Visit, Row, Rows
<1>2. CASE job' = Skip(w, c) /\ UNCHANGED run
  <2>1. job' = [job EXCEPT ![w] = [job[w] EXCEPT !.todo = @ \ {c}]]
    BY <1>2 DEF Inv, TypeOK, Skip
  <2>2. job'[w].step = "visiting" /\ \A v \in Workers \ {w} : job'[v] = job[v]
    BY <2>1, <1>1 DEF Inv, TypeOK, Jobs
  <2>3. Good(w)'
    BY <2>2, <1>2, <1>1 DEF Visit, Inv, Good, InBatch, RowOf
  <2>4. \A v \in Workers \ {w} : Good(v)'
    BY <2>2, <1>2, OthersKeep DEF Visit
  <2> QED BY <2>3, <2>4, <1>2 DEF Visit, Inv, Ledger, MailedOnce, RowOf
<1>3. CASE /\ ~Claimed(w, c)
           /\ run' = [run EXCEPT ![x] = [state |-> "claimed", of |-> c, by |-> w, sent |-> 0]]
           /\ job' = [job EXCEPT ![w].step = "reading", ![w].company = c,
                                 ![w].todo = @ \ {c}]
  <2>1. run[x].state = "none" /\ run[x].by = None
    BY <1>3, <1>1 DEF Claimed, Inv, Ledger
  <2>2. /\ run'[x].state = "claimed" /\ run'[x].by = w
        /\ \A y \in Rows : y # x => run'[y] = run[y]
    BY <1>3, <1>1 DEF Inv, TypeOK
  <2>3. job' = [job EXCEPT ![w] = [job[w] EXCEPT !.step = "reading", !.company = c,
                                                 !.todo = @ \ {c}]]
    BY <1>3 DEF Inv, TypeOK
  <2>4. /\ job'[w].step = "reading" /\ job'[w].company = c
        /\ job'[w].day = job[w].day
        /\ \A v \in Workers \ {w} : job'[v] = job[v]
    BY <2>3, <1>1 DEF Inv, TypeOK, Jobs
  <2>5. UNCHANGED <<digests, written, posts>> /\ w # None
    BY DEF Visit
  <2>6. \A v \in Workers \ {w} : Good(v)'
    BY <2>1, <2>2, <2>4, <2>5, OthersKeep
  <2>7. \A u \in Of(c) : posts[<<u, job[w].day>>] = 0
    <3> SUFFICES ASSUME NEW u \in Of(c) PROVE posts[<<u, job[w].day>>] = 0
      OBVIOUS
    <3>1. <<u, job[w].day>> \in Letters /\ RowOf(<<u, job[w].day>>) = x
      BY <1>1 DEF Jobs, Of, Letters, RowOf, Row
    <3> QED BY <3>1, <2>1, RowTypes DEF Inv, Ledger
  <2>8. \A y \in written[w] : y \in Letters /\ run[RowOf(y)].by = w /\ posts[y] > 0
    BY RowTypes DEF Inv, Good
  <2>9. \A y \in written[w] : run'[RowOf(y)].by = w
    BY <2>8, <2>1, <2>2, <2>5, RowTypes DEF Inv
  <2>10. Good(w)'
    BY <2>2, <2>4, <2>5, <2>7, <2>8, <2>9 DEF Good, InBatch, Held, Row, Of, RowOf
  <2>11. Ledger'
    <3>1. \A y \in Rows : run'[y].state = "none" <=> run'[y].by = None
      BY <2>2, <2>5 DEF Inv, Ledger
    <3>2. \A y \in Letters : posts[y] > 0 => run'[RowOf(y)].state # "none"
      BY <2>1, <2>2, RowTypes DEF Inv, Ledger
    <3> QED BY <3>1, <3>2, <2>5 DEF Inv, Ledger, RowOf
  <2> QED BY <2>5, <2>6, <2>10, <2>11 DEF Inv, MailedOnce
<1> QED BY <1>2, <1>3 DEF Visit

LEMMA ReadKeeps ==
  ASSUME Inv, TypeOK', NEW w \in Workers, Read(w)
  PROVE  Inv'
<1>1. job[w] \in Jobs /\ job[w].step = "reading" /\ Good(w)
  BY RowTypes DEF Inv, Read
<1>2. UNCHANGED <<run, digests, written, posts>>
  BY DEF Read
<1>3. /\ \A v \in Workers \ {w} : job'[v] = job[v]
      /\ Good(w)'
  <2>1. CASE Leave(w)
    <3>1. job' = [job EXCEPT ![w] = Left(w)] /\ Left(w).step = "visiting"
      BY <2>1 DEF Leave, Left, Idle
    <3>2. job'[w].step = "visiting" /\ \A v \in Workers \ {w} : job'[v] = job[v]
      BY <3>1 DEF Inv, TypeOK
    <3> QED BY <3>2, <1>1, <1>2 DEF Good, InBatch, RowOf
  <2>2. CASE ~Leave(w)
    <3> DEFINE done == {u \in Users : <<u, job[w].day>> \in digests \cup written[w]}
    <3>1. PICK to \in SUBSET Of(job[w].company) :
            job' = [job EXCEPT ![w].step = "sending", ![w].left = to \ done,
                               ![w].asked = Cardinality(to),
                               ![w].missed = Cardinality(to \cap done)]
      BY <2>2 DEF Read
    <3>2. /\ job'[w].step = "sending" /\ job'[w].left = to \ done
          /\ job'[w].company = job[w].company /\ job'[w].day = job[w].day
          /\ \A v \in Workers \ {w} : job'[v] = job[v]
      <4> HIDE DEF done
      <4> QED BY <3>1, <1>1 DEF Inv, TypeOK, Jobs
    <3> QED BY <3>2, <1>1, <1>2 DEF Good, InBatch, Held, Row, Of, RowOf
  <2> QED BY <2>1, <2>2
<1>4. \A v \in Workers \ {w} : Good(v)'
  BY <1>2, <1>3, OthersKeep
<1> QED BY <1>2, <1>3, <1>4 DEF Inv, Ledger, MailedOnce, RowOf

LEMMA PostKeeps ==
  ASSUME Inv, TypeOK', NEW w \in Workers, NEW u \in Users, Post(w, u)
  PROVE  Inv'
<1> DEFINE x == <<u, job[w].day>>
<1>1. job[w] \in Jobs /\ job[w].step = "sending" /\ u \in job[w].left /\ Good(w)
  BY RowTypes DEF Inv, Post
<1>2. UNCHANGED <<run, digests, written>>
  BY DEF Post
<1>3. /\ InBatch(w) /\ u \in Of(job[w].company) /\ x \in Letters /\ posts[x] = 0
      /\ RowOf(x) = Held(w)
  BY <1>1, RowTypes DEF Good, InBatch, Inv
<1>4. /\ posts'[x] \in {0, 1}
      /\ \A y \in Letters \ {x} : posts'[y] = posts[y]
      /\ \A y \in Letters : posts'[y] >= posts[y]
  <2>1. posts' = posts \/ posts' = [posts EXCEPT ![x] = @ + 1]
    BY DEF Post
  <2>2. posts \in [Letters -> Nat]
    BY DEF Inv, TypeOK
  <2> HIDE DEF x
  <2> QED BY <1>3, <2>1, <2>2
<1>5. /\ job'[w].company = job[w].company /\ job'[w].day = job[w].day
      /\ job'[w].left = job[w].left \ {u}
      /\ \A v \in Workers \ {w} : job'[v] = job[v]
      /\ \/ job'[w].step = "sending"
         \/ job'[w].step = "recording" /\ job'[w].to = u /\ posts'[x] = 1
  <2>1. CASE job' = [job EXCEPT ![w].left = @ \ {u}, ![w].missed = @ + 1]
    <3>1. job' = [job EXCEPT ![w] = [job[w] EXCEPT !.left = @ \ {u}, !.missed = @ + 1]]
      BY <2>1 DEF Inv, TypeOK
    <3> QED BY <3>1, <1>1 DEF Inv, TypeOK, Jobs
  <2>2. CASE /\ job' = [job EXCEPT ![w].left = @ \ {u}, ![w].step = "recording",
                                   ![w].to = u]
             /\ posts' = [posts EXCEPT ![x] = @ + 1]
    <3>1. job' = [job EXCEPT ![w] = [job[w] EXCEPT !.left = @ \ {u},
                                                  !.step = "recording", !.to = u]]
      BY <2>2 DEF Inv, TypeOK
    <3>2. posts'[x] = 1
      BY <2>2, <1>3 DEF Inv, TypeOK
    <3> QED BY <3>1, <3>2, <1>1 DEF Inv, TypeOK, Jobs
  <2> QED BY <2>1, <2>2 DEF Post
<1>6. run[Held(w)].state = "claimed" /\ run[Held(w)].by = w
  BY <1>1, <1>3 DEF Good
<1>7. \A v \in Workers \ {w} : Good(v)'
  <2>1. \A y \in Letters : posts'[y] = posts[y] \/ run[RowOf(y)].by = w
    BY <1>3, <1>4, <1>6
  <2> QED BY <2>1, <1>2, <1>5, OthersKeep
<1>8. Good(w)'
  <2>1. \A v \in job[w].left \ {u} : posts'[<<v, job[w].day>>] = 0
    <3> SUFFICES ASSUME NEW v \in job[w].left \ {u}
                 PROVE  posts'[<<v, job[w].day>>] = 0
      OBVIOUS
    <3>1. <<v, job[w].day>> \in Letters \ {x} /\ posts[<<v, job[w].day>>] = 0
      BY <1>1, <1>3, RowTypes DEF Good, Inv
    <3> QED BY <3>1, <1>4
  <2>2. \A y \in written[w] : run[RowOf(y)].by = w /\ posts'[y] > 0
    BY <1>1, <1>4, RowTypes DEF Good, Inv, TypeOK
  <2>3. job'[w].left \subseteq Of(job[w].company)
    BY <1>1, <1>5 DEF Good
  <2>4. Held(w)' = Held(w)
    BY <1>5 DEF Held, Row
  <2> QED
    BY <1>1, <1>2, <1>3, <1>5, <1>6, <2>1, <2>2, <2>3, <2>4 DEF Good, InBatch, Of, RowOf
<1>9. Ledger'
  <2>1. \A y \in Letters : posts'[y] > 0 => run[RowOf(y)].state # "none"
    BY <1>3, <1>4, <1>6 DEF Inv, Ledger
  <2>2. \A y \in digests : posts'[y] > 0
    BY <1>4, RowTypes DEF Inv, Ledger, TypeOK
  <2> QED BY <2>1, <2>2, <1>2 DEF Inv, Ledger, RowOf
<1>10. MailedOnce'
  BY <1>3, <1>4 DEF Inv, MailedOnce
<1> QED BY <1>7, <1>8, <1>9, <1>10 DEF Inv

LEMMA RecordKeeps ==
  ASSUME Inv, TypeOK', NEW w \in Workers, Record(w)
  PROVE  Inv'
<1> DEFINE x == <<job[w].to, job[w].day>>
<1>1. job[w] \in Jobs /\ job[w].step = "recording" /\ Good(w)
  BY RowTypes DEF Inv, Record
<1>2. UNCHANGED <<run, posts>>
  BY DEF Record
<1>3. /\ InBatch(w) /\ x \in Letters /\ posts[x] > 0 /\ RowOf(x) = Held(w)
      /\ run[Held(w)].state = "claimed" /\ run[Held(w)].by = w
  BY <1>1, RowTypes DEF Good, InBatch, Inv
<1>4. /\ job'[w].company = job[w].company /\ job'[w].day = job[w].day
      /\ job'[w].left = job[w].left /\ job'[w].step = "sending"
      /\ \A v \in Workers \ {w} : job'[v] = job[v]
  <2>1. CASE job' = [job EXCEPT ![w].step = "sending", ![w].to = None, ![w].sent = @ + 1]
    BY <2>1, <1>1 DEF Inv, TypeOK, Jobs
  <2>2. CASE job' = [job EXCEPT ![w].step = "sending", ![w].to = None, ![w].missed = @ + 1]
    BY <2>2, <1>1 DEF Inv, TypeOK, Jobs
  <2> QED BY <2>1, <2>2 DEF Record
<1>5. /\ digests' \subseteq digests \cup {x}
      /\ written'[w] \subseteq written[w] \cup {x}
      /\ \A v \in Workers \ {w} : written'[v] = written[v]
  <2>1. CASE UNCHANGED <<digests, written>>
    BY <2>1
  <2>2. CASE Recorded(w, x)
    BY <2>2 DEF Recorded, Inv, TypeOK
  <2> QED BY <2>1, <2>2 DEF Record
<1>6. Good(w)'
  <2>1. \A y \in written'[w] : run[RowOf(y)].by = w /\ posts[y] > 0
    BY <1>1, <1>3, <1>5 DEF Good
  <2> QED BY <1>1, <1>2, <1>3, <1>4, <2>1 DEF Good, InBatch, Held, Row, Of, RowOf
<1>7. \A v \in Workers \ {w} : Good(v)'
  BY <1>2, <1>4, <1>5, OthersKeep
<1>8. Ledger'
  BY <1>2, <1>3, <1>5 DEF Inv, Ledger, RowOf
<1> QED BY <1>2, <1>6, <1>7, <1>8 DEF Inv, MailedOnce

LEMMA StampKeeps ==
  ASSUME Inv, TypeOK', NEW w \in Workers, Stamp(w)
  PROVE  Inv'
<1>1. /\ job[w] \in Jobs /\ Good(w) /\ InBatch(w) /\ Held(w) \in Rows
  BY RowTypes DEF Inv, Stamp, InBatch
<1>2. run[Held(w)].state = "claimed" /\ run[Held(w)].by = w /\ run[Held(w)] \in Runs
  BY <1>1, RowTypes DEF Good, Inv
<1>3. UNCHANGED <<digests, written, posts>> /\ w # None
  BY DEF Stamp
<1>4. job'[w].step = "visiting" /\ \A v \in Workers \ {w} : job'[v] = job[v]
  <2>1. job' = [job EXCEPT ![w] = Left(w)] /\ Left(w).step = "visiting"
    BY DEF Stamp, Leave, Left, Idle
  <2> QED BY <2>1 DEF Inv, TypeOK
<1>5. /\ \A y \in Rows : y # Held(w) => run'[y] = run[y]
      /\ run'[Held(w)].by = w /\ run'[Held(w)].state \in {"claimed", "stamped"}
  <2>1. CASE UNCHANGED run
    BY <2>1, <1>2
  <2>2. CASE run' = [run EXCEPT ![Held(w)].state = "stamped", ![Held(w)].sent = job[w].sent]
    <3>1. run' = [run EXCEPT ![Held(w)] = [run[Held(w)] EXCEPT !.state = "stamped",
                                                           !.sent = job[w].sent]]
      BY <2>2, <1>1 DEF Inv, TypeOK
    <3> QED BY <3>1, <1>1, <1>2 DEF Inv, TypeOK, Runs
  <2> QED BY <2>1, <2>2 DEF Stamp, Held, Row
<1>6. \A v \in Workers \ {w} : Good(v)'
  <2>1. \A y \in Rows : run'[y] = run[y] \/ run[y].by \in {None, w}
    BY <1>2, <1>5
  <2> QED BY <2>1, <1>3, <1>4, OthersKeep
<1>7. Good(w)'
  <2>1. \A y \in written[w] : RowOf(y) \in Rows /\ run[RowOf(y)].by = w
    BY <1>1, RowTypes DEF Good, Inv
  <2>2. \A y \in written[w] : run'[RowOf(y)].by = w
    BY <2>1, <1>5
  <2> QED BY <2>2, <1>1, <1>3, <1>4 DEF Good, InBatch, RowOf
<1>8. Ledger'
  <2>1. \A y \in Rows : run'[y].state = "none" <=> run'[y].by = None
    BY <1>2, <1>3, <1>5 DEF Inv, Ledger
  <2>2. \A y \in Letters : posts[y] > 0 => run'[RowOf(y)].state # "none"
    BY <1>2, <1>5, RowTypes DEF Inv, Ledger
  <2> QED BY <2>1, <2>2, <1>3 DEF Inv, Ledger, RowOf
<1> QED BY <1>3, <1>6, <1>7, <1>8 DEF Inv, MailedOnce

(* A worker that begins, ends, dies or loses its client is in no batch, or *)
(* goes on with the one it is in.                                          *)
LEMMA EndsKeep ==
  ASSUME Inv, TypeOK', NEW w \in Workers,
         Start(w) \/ Finish(w) \/ Crash(w) \/ Disconnect(w)
  PROVE  Inv'
<1>1. job[w] \in Jobs /\ Good(w)
  BY RowTypes DEF Inv
<1>2. UNCHANGED <<run, posts>>
  BY DEF Start, Finish, Crash, Disconnect
<1>3. /\ \A v \in Workers \ {w} : job'[v] = job[v] /\ written'[v] = written[v]
      /\ written'[w] \subseteq written[w]
      /\ digests' \subseteq digests \cup written[w]
  BY DEF Start, Finish, Crash, Disconnect, Inv, TypeOK
<1>4. \/ job'[w].step \in {"idle", "answered", "visiting"}
      \/ /\ job'[w].step = job[w].step /\ job'[w].company = job[w].company
         /\ job'[w].day = job[w].day /\ job'[w].left = job[w].left
         /\ job'[w].to = job[w].to
  <2>1. CASE Start(w)
    BY <2>1 DEF Start, Idle, Inv, TypeOK
  <2>2. CASE Finish(w) \/ Crash(w)
    <3>1. Over(w).step \in {"idle", "answered"}
      BY DEF Over, Idle
    <3> QED BY <2>2, <3>1 DEF Finish, Crash, Inv, TypeOK
  <2>3. CASE Disconnect(w)
    <3>1. job' = [job EXCEPT ![w] = [job[w] EXCEPT !.client = "gone"]]
      BY <2>3 DEF Disconnect, Inv, TypeOK
    <3> QED BY <3>1, <1>1 DEF Inv, TypeOK, Jobs
  <2> QED BY <2>1, <2>2, <2>3
<1>5. Good(w)'
  <2>1. \A y \in written'[w] : run[RowOf(y)].by = w /\ posts[y] > 0
    BY <1>1, <1>3 DEF Good
  <2>2. CASE job'[w].step \in {"idle", "answered", "visiting"}
    BY <2>1, <2>2, <1>2 DEF Good, InBatch, RowOf
  <2>3. CASE /\ job'[w].step = job[w].step /\ job'[w].company = job[w].company
             /\ job'[w].day = job[w].day /\ job'[w].left = job[w].left
             /\ job'[w].to = job[w].to
    BY <2>1, <2>3, <1>1, <1>2 DEF Good, InBatch, Held, Row, Of, RowOf
  <2> QED BY <1>4, <2>2, <2>3
<1>6. \A v \in Workers \ {w} : Good(v)'
  BY <1>2, <1>3, OthersKeep
<1>7. Ledger'
  <2>1. \A y \in written[w] : posts[y] > 0
    BY <1>1 DEF Good
  <2> QED BY <2>1, <1>2, <1>3 DEF Inv, Ledger, RowOf
<1> QED BY <1>2, <1>5, <1>6, <1>7 DEF Inv, MailedOnce

LEMMA InvStep ==
  ASSUME Inv, [Next]_vars
  PROVE  Inv'
<1>1. TypeOK'
  BY TypeStep DEF Inv
<1>2. CASE Midnight \/ (\E c \in Companies : Reach(c)) \/ UNCHANGED vars
  <2>1. UNCHANGED <<run, digests, job, written, posts>>
    BY <1>2 DEF Midnight, Reach, vars
  <2> QED
    BY <2>1, <1>1 DEF Inv, Ledger, MailedOnce, Good, InBatch, Held, Row, RowOf, Of
<1>3. CASE \E w \in Workers : Step(w) \/ Disconnect(w) \/ Crash(w)
  BY <1>1, <1>3, VisitKeeps, ReadKeeps, PostKeeps, RecordKeeps, StampKeeps, EndsKeep
  DEF Step
<1> QED BY <1>2, <1>3 DEF Next

LEMMA InvInit == Init => Inv
<1> SUFFICES ASSUME Init PROVE Inv
  OBVIOUS
<1>1. TypeOK
  <2>1. NoRun \in Runs
    BY DEF NoRun, Runs
  <2>2. Idle.step = "idle"
    BY DEF Idle
  <2> QED BY IdleType, <2>1, <2>2 DEF Init, TypeOK
<1>2. \A w \in Workers : Good(w)
  BY DEF Init, Good, Idle, InBatch
<1>3. Ledger
  BY <1>1, RowTypes DEF Init, Ledger, NoRun
<1>4. MailedOnce
  BY DEF Init, MailedOnce
<1> QED BY <1>1, <1>2, <1>3, <1>4 DEF Inv

(* Whatever crashes, overlaps and repeats, nobody is sent two messages for  *)
(* one day, even before the provider looks for duplicates.                 *)
THEOREM OneMailADay == Spec => []MailedOnce
<1>1. Inv => MailedOnce
  BY DEF Inv
<1> QED BY <1>1, InvInit, InvStep, PTL DEF Spec

(* A digest on record was accepted by the provider.                         *)
THEOREM DigestsWereMailed == Spec => []RecordedWereMailed
<1>1. Inv => RecordedWereMailed
  BY DEF Inv, Ledger, RecordedWereMailed
<1> QED BY <1>1, InvInit, InvStep, PTL DEF Spec

-----------------------------------------------------------------------------
(* Everybody is counted once: those tried and those left make up the batch. *)

Tally(j) ==
  /\ j.step \in {"visiting", "reading"} => j.sent = 0
  /\ j.step = "sending" => j.sent + j.missed + Cardinality(j.left) = j.asked
  /\ j.step = "recording" => j.sent + j.missed + Cardinality(j.left) + 1 = j.asked

Tallies == \A w \in Workers : Tally(job[w])

LEMMA TallyMoves ==
  ASSUME TypeOK, Tallies, NEW w \in Workers, NEW j, job' = [job EXCEPT ![w] = j], Tally(j)
  PROVE  Tallies'
  BY DEF TypeOK, Tallies

LEMMA TallyEnds ==
  ASSUME TypeOK, NEW w \in Workers
  PROVE  Tally(Left(w)) /\ Tally(Over(w))
<1>1. Left(w).step = "visiting" /\ Left(w).sent = 0
  BY DEF Left, Idle
<1>2. Over(w).step \in {"idle", "answered"}
  BY DEF Over, Idle
<1> QED BY <1>1, <1>2 DEF Tally

LEMMA TallyRead ==
  ASSUME TypeOK, Tallies, NEW w \in Workers, Read(w)
  PROVE  Tallies'
<1>1. CASE Leave(w)
  BY <1>1, TallyEnds, TallyMoves DEF Leave, Left
<1>2. CASE ~Leave(w)
  <2> DEFINE done == {u \in Users : <<u, job[w].day>> \in digests \cup written[w]}
  <2>1. PICK to \in SUBSET Of(job[w].company) :
          job' = [job EXCEPT ![w].step = "sending", ![w].left = to \ done,
                             ![w].asked = Cardinality(to),
                             ![w].missed = Cardinality(to \cap done)]
    BY <1>2 DEF Read
  <2> DEFINE j == [job[w] EXCEPT !.step = "sending", !.left = to \ done,
                                 !.asked = Cardinality(to),
                                 !.missed = Cardinality(to \cap done)]
  <2>2. to \in SUBSET Users /\ to \ done \in SUBSET Users /\ to \cap done \in SUBSET Users
    BY DEF Of
  <2>3. Cardinality(to \ done) = Cardinality(to) - Cardinality(to \cap done)
    BY <2>2, UsersFinite, FS_Difference
  <2>4. Cardinality(to) \in Nat /\ Cardinality(to \cap done) \in Nat
    BY <2>2, UsersFinite
  <2>5. job[w] \in Jobs /\ job[w].sent = 0
    BY DEF TypeOK, Tallies, Tally, Read
  <2> HIDE DEF done
  <2>6. /\ j.step = "sending" /\ j.left = to \ done /\ j.asked = Cardinality(to)
        /\ j.missed = Cardinality(to \cap done) /\ j.sent = 0
    BY <2>5 DEF Jobs
  <2>7. Tally(j)
    BY <2>3, <2>4, <2>6 DEF Tally
  <2>8. job' = [job EXCEPT ![w] = j]
    BY <2>1 DEF TypeOK
  <2> QED BY <2>7, <2>8, TallyMoves
<1> QED BY <1>1, <1>2

LEMMA TallyPost ==
  ASSUME TypeOK, Tallies, NEW w \in Workers, NEW u \in Users, Post(w, u)
  PROVE  Tallies'
<1>1. /\ job[w] \in Jobs /\ job[w].step = "sending" /\ u \in job[w].left
      /\ job[w].sent \in Nat /\ job[w].missed \in Nat /\ job[w].asked \in Nat
      /\ job[w].left \in SUBSET Users
      /\ job[w].sent + job[w].missed + Cardinality(job[w].left) = job[w].asked
  BY DEF Post, TypeOK, Jobs, Tallies, Tally
<1>2. Cardinality(job[w].left \ {u}) = Cardinality(job[w].left) - 1
  BY <1>1, UsersFinite, FS_RemoveElement
<1>3. Cardinality(job[w].left) \in Nat
  BY <1>1, UsersFinite
<1>4. CASE job' = [job EXCEPT ![w].left = @ \ {u}, ![w].missed = @ + 1]
  <2> DEFINE j == [job[w] EXCEPT !.left = @ \ {u}, !.missed = @ + 1]
  <2>1. /\ j.step = "sending" /\ j.left = job[w].left \ {u} /\ j.sent = job[w].sent
        /\ j.missed = job[w].missed + 1 /\ j.asked = job[w].asked
    BY <1>1 DEF Jobs
  <2>2. Tally(j)
    <3> HIDE DEF j
    <3> QED BY <1>1, <1>2, <1>3, <2>1 DEF Tally
  <2>3. job' = [job EXCEPT ![w] = j]
    BY <1>4 DEF TypeOK
  <2> QED BY <2>2, <2>3, TallyMoves
<1>5. CASE job' = [job EXCEPT ![w].left = @ \ {u}, ![w].step = "recording", ![w].to = u]
  <2> DEFINE j == [job[w] EXCEPT !.left = @ \ {u}, !.step = "recording", !.to = u]
  <2>1. /\ j.step = "recording" /\ j.left = job[w].left \ {u} /\ j.sent = job[w].sent
        /\ j.missed = job[w].missed /\ j.asked = job[w].asked
    BY <1>1 DEF Jobs
  <2>2. Tally(j)
    BY <1>1, <1>2, <1>3, <2>1 DEF Tally
  <2>3. job' = [job EXCEPT ![w] = j]
    BY <1>5 DEF TypeOK
  <2> QED BY <2>2, <2>3, TallyMoves
<1> QED BY <1>4, <1>5 DEF Post

LEMMA TallyRecord ==
  ASSUME TypeOK, Tallies, NEW w \in Workers, Record(w)
  PROVE  Tallies'
<1>1. /\ job[w] \in Jobs /\ job[w].step = "recording"
      /\ job[w].sent \in Nat /\ job[w].missed \in Nat /\ job[w].asked \in Nat
      /\ job[w].left \in SUBSET Users
      /\ job[w].sent + job[w].missed + Cardinality(job[w].left) + 1 = job[w].asked
  BY DEF Record, TypeOK, Jobs, Tallies, Tally
<1>2. Cardinality(job[w].left) \in Nat
  BY <1>1, UsersFinite
<1>3. CASE job' = [job EXCEPT ![w].step = "sending", ![w].to = None, ![w].sent = @ + 1]
  <2> DEFINE j == [job[w] EXCEPT !.step = "sending", !.to = None, !.sent = @ + 1]
  <2>1. /\ j.step = "sending" /\ j.left = job[w].left /\ j.sent = job[w].sent + 1
        /\ j.missed = job[w].missed /\ j.asked = job[w].asked
    BY <1>1 DEF Jobs
  <2>2. Tally(j)
    BY <1>1, <1>2, <2>1 DEF Tally
  <2>3. job' = [job EXCEPT ![w] = j]
    BY <1>3 DEF TypeOK
  <2> QED BY <2>2, <2>3, TallyMoves
<1>4. CASE job' = [job EXCEPT ![w].step = "sending", ![w].to = None, ![w].missed = @ + 1]
  <2> DEFINE j == [job[w] EXCEPT !.step = "sending", !.to = None, !.missed = @ + 1]
  <2>1. /\ j.step = "sending" /\ j.left = job[w].left /\ j.sent = job[w].sent
        /\ j.missed = job[w].missed + 1 /\ j.asked = job[w].asked
    BY <1>1 DEF Jobs
  <2>2. Tally(j)
    BY <1>1, <1>2, <2>1 DEF Tally
  <2>3. job' = [job EXCEPT ![w] = j]
    BY <1>4 DEF TypeOK
  <2> QED BY <2>2, <2>3, TallyMoves
<1> QED BY <1>3, <1>4 DEF Record

LEMMA TallyVisit ==
  ASSUME TypeOK, Tallies, NEW w \in Workers, NEW c \in Companies, Visit(w, c)
  PROVE  Tallies'
<1>1. job[w] \in Jobs /\ job[w].step = "visiting" /\ job[w].sent = 0
  BY DEF Visit, TypeOK, Tallies, Tally
<1>2. CASE job' = Skip(w, c)
  <2> DEFINE j == [job[w] EXCEPT !.todo = @ \ {c}]
  <2>1. j.step = "visiting" /\ j.sent = 0
    BY <1>1 DEF Jobs
  <2>2. job' = [job EXCEPT ![w] = j]
    BY <1>2 DEF Skip, TypeOK
  <2> QED BY <2>1, <2>2, TallyMoves DEF Tally
<1>3. CASE job' = [job EXCEPT ![w].step = "reading", ![w].company = c, ![w].todo = @ \ {c}]
  <2> DEFINE j == [job[w] EXCEPT !.step = "reading", !.company = c, !.todo = @ \ {c}]
  <2>1. j.step = "reading" /\ j.sent = 0
    BY <1>1 DEF Jobs
  <2>2. job' = [job EXCEPT ![w] = j]
    BY <1>3 DEF TypeOK
  <2> QED BY <2>1, <2>2, TallyMoves DEF Tally
<1> QED BY <1>2, <1>3 DEF Visit

LEMMA TallyStep ==
  ASSUME TypeOK, Tallies, [Next]_vars
  PROVE  Tallies'
<1>1. CASE UNCHANGED job
  BY <1>1 DEF Tallies
<1>2. ASSUME NEW w \in Workers, Start(w) PROVE Tallies'
  <2> DEFINE j == [Idle EXCEPT !.step = "visiting", !.day = day, !.todo = Companies]
  <2>1. j.step = "visiting" /\ j.sent = 0
    BY DEF Idle
  <2>2. job' = [job EXCEPT ![w] = j]
    BY <1>2 DEF Start
  <2> QED BY <2>1, <2>2, TallyMoves DEF Tally
<1>3. ASSUME NEW w \in Workers, Stamp(w) \/ Finish(w) \/ Crash(w) PROVE Tallies'
  BY <1>3, TallyEnds, TallyMoves DEF Stamp, Leave, Left, Finish, Crash
<1>4. ASSUME NEW w \in Workers, Disconnect(w) PROVE Tallies'
  <2> DEFINE j == [job[w] EXCEPT !.client = "gone"]
  <2>1. job[w] \in Jobs /\ Tally(job[w])
    BY DEF TypeOK, Tallies
  <2>2. /\ j.step = job[w].step /\ j.left = job[w].left /\ j.sent = job[w].sent
        /\ j.missed = job[w].missed /\ j.asked = job[w].asked
    BY <2>1 DEF Jobs
  <2>3. Tally(j)
    BY <2>1, <2>2 DEF Tally
  <2>4. job' = [job EXCEPT ![w] = j]
    BY <1>4 DEF Disconnect, TypeOK
  <2> QED BY <2>3, <2>4, TallyMoves
<1> QED
  BY <1>1, <1>2, <1>3, <1>4, TallyRead, TallyPost, TallyRecord, TallyVisit
  DEF Next, Step, Midnight, Reach, vars

(* A worker leaves a batch only with nobody left and everybody counted.     *)
LEMMA LeavesTried ==
  ASSUME TypeOK, Tallies, [Next]_vars, NEW w \in Workers,
         job[w].step \in {"sending", "recording"}, job'[w].step = "visiting"
  PROVE  job[w].left = {} /\ job[w].sent + job[w].missed = job[w].asked
<1>1. job[w] \in Jobs
  BY DEF TypeOK
<1>2. Stamp(w)
  <2>1. CASE UNCHANGED job
    BY <2>1
  <2>2. ASSUME NEW v \in Workers, v # w, Step(v) \/ Disconnect(v) \/ Crash(v) PROVE FALSE
    <3>1. job'[w] = job[w]
      BY <2>2 DEF Step, Visit, Skip, Post, Start, Read, Record, Stamp, Finish, Leave,
                  Disconnect, Crash, TypeOK
    <3> QED BY <3>1
  <2>3. ASSUME Finish(w) \/ Crash(w) PROVE FALSE
    <3>1. Over(w).step \in {"idle", "answered"}
      BY DEF Over, Idle
    <3> QED BY <2>3, <3>1 DEF Finish, Crash, TypeOK
  <2>4. ASSUME NEW u \in Users, Post(w, u) PROVE FALSE
    BY <2>4, <1>1 DEF Post, TypeOK, Jobs
  <2>5. ASSUME Record(w) PROVE FALSE
    BY <2>5, <1>1 DEF Record, TypeOK, Jobs
  <2>6. ASSUME Disconnect(w) PROVE FALSE
    BY <2>6, <1>1 DEF Disconnect, TypeOK, Jobs
  <2>7. ~Start(w) /\ ~Read(w) /\ \A c \in Companies : ~Visit(w, c)
    BY DEF Start, Read, Visit
  <2> QED
    BY <2>1, <2>2, <2>3, <2>4, <2>5, <2>6, <2>7
    DEF Next, Step, Midnight, Reach, vars
<1>3. job[w].left = {} /\ job[w].step = "sending" /\ Tally(job[w])
  BY <1>2 DEF Stamp, Tallies
<1>4. job[w].sent \in Nat /\ job[w].missed \in Nat
  BY <1>1 DEF Jobs
<1>5. Cardinality({}) = 0
  BY FS_EmptySet
<1> QED BY <1>3, <1>4, <1>5 DEF Tally

(* One recipient's problem is that recipient's problem.                     *)
THEOREM NobodyLeftOut == Spec => EveryoneTried
<1>1. Init => TypeOK /\ Tallies
  BY InvInit DEF Inv, Init, Tallies, Tally, Idle
<1>2. TypeOK /\ Tallies /\ [Next]_vars => (TypeOK /\ Tallies)'
  BY TypeStep, TallyStep
<1>3. TypeOK /\ Tallies /\ [Next]_vars =>
        [\A w \in Workers :
           job[w].step \in {"sending", "recording"} /\ job'[w].step = "visiting"
             => /\ job[w].left = {}
                /\ job[w].sent + job[w].missed = job[w].asked]_vars
  BY LeavesTried
<1> QED BY <1>1, <1>2, <1>3, PTL DEF Spec, EveryoneTried

-----------------------------------------------------------------------------
(* What the runs say. A tick's batch counts as sent the digests on record, *)
(* and nothing is added to them once its run is stamped.                   *)

Told(c, d) == {u \in Of(c) : <<u, d>> \in digests}

Counts(w) ==
  /\ job[w].step \in {"sending", "recording"} =>
       job[w].sent = Cardinality(Told(job[w].company, job[w].day))
  /\ job[w].step = "recording" => <<job[w].to, job[w].day>> \notin digests

Owned ==
  /\ \A b \in Rows : run[b].state # "none" =>
       run[b].of \in Companies /\ b = Row(run[b].of, b[2]) /\ run[b].by \in Workers
  /\ \A w \in Workers : InBatch(w) => run[Held(w)].of = job[w].company

Outcome == Owned /\ SentAreRecorded /\ \A w \in Schedulers : Counts(w)

(* A worker writes down digests of rows that it claimed; a tick only the    *)
(* one it has just sent.                                                   *)
LEMMA NewDigests ==
  ASSUME Inv, NEW w \in Workers, Step(w) \/ Disconnect(w) \/ Crash(w)
  PROVE  /\ digests \subseteq digests'
         /\ \A x \in digests' \ digests :
              /\ x \in Letters /\ run[RowOf(x)].by = w
              /\ w \in Requests \/ (Record(w) /\ x = <<job[w].to, job[w].day>>)
<1>1. Good(w) /\ written[w] \subseteq Letters /\ (written[w] # {} => w \in Requests)
  BY DEF Inv, TypeOK
<1>2. CASE UNCHANGED digests
  BY <1>2
<1>3. CASE Finish(w)
  BY <1>1, <1>3 DEF Finish, Good
<1>4. CASE Record(w) /\ ~UNCHANGED digests
  <2>1. digests' = digests \cup {<<job[w].to, job[w].day>>}
    BY <1>4 DEF Record, Recorded
  <2>2. /\ InBatch(w) /\ job[w].to \in Of(job[w].company)
        /\ run[Held(w)].by = w
    BY <1>4, <1>1 DEF Record, Good, InBatch
  <2>3. /\ <<job[w].to, job[w].day>> \in Letters
        /\ RowOf(<<job[w].to, job[w].day>>) = Held(w)
    BY <2>2, RowTypes DEF Inv
  <2> QED BY <1>4, <2>1, <2>2, <2>3
<1> QED
  BY <1>2, <1>3, <1>4
  DEF Step, Start, Visit, Read, Post, Stamp, Disconnect, Crash

LEMMA ToldSame ==
  ASSUME NEW c \in Companies, NEW d \in Days, digests \subseteq digests',
         \A x \in digests' \ digests : RowOf(x) # Row(c, d)
  PROVE  Told(c, d)' = Told(c, d)
<1>1. \A u \in Of(c) : RowOf(<<u, d>>) = Row(c, d)
  BY DEF Of, RowOf
<1> QED BY <1>1 DEF Told, Of

LEMMA OthersCount ==
  ASSUME Inv, Outcome, NEW w \in Workers, Step(w) \/ Disconnect(w) \/ Crash(w),
         \A v \in Workers \ {w} : job'[v] = job[v]
  PROVE  \A v \in Schedulers \ {w} : Counts(v)'
<1> SUFFICES ASSUME NEW v \in Schedulers \ {w}
             PROVE  Counts(v)'
  OBVIOUS
<1>1. v \in Workers /\ job'[v] = job[v] /\ Counts(v) /\ Good(v)
  BY DEF Outcome, Inv, Workers
<1>2. CASE ~InBatch(v)
  BY <1>1, <1>2 DEF Counts, InBatch
<1>3. CASE InBatch(v)
  <2>1. \A x \in digests' \ digests : RowOf(x) # Held(v)
    BY <1>1, <1>3, NewDigests DEF Good
  <2>2. PICK c \in Companies, d \in Days : c = job[v].company /\ d = job[v].day
    BY <1>1, <1>3 DEF Inv, TypeOK, Jobs, InBatch
  <2>3. Told(c, d)' = Told(c, d)
    BY <2>1, <2>2, NewDigests, ToldSame DEF Held
  <2>4. job[v].step = "recording" => <<job[v].to, job[v].day>> \notin digests'
    <3>1. job[v].step = "recording" => RowOf(<<job[v].to, job[v].day>>) = Held(v)
      BY <1>1, <1>3, RowTypes DEF Good, Inv
    <3> QED BY <1>1, <2>1, <3>1 DEF Counts
  <2> QED BY <1>1, <2>2, <2>3, <2>4 DEF Counts
<1> QED BY <1>2, <1>3

LEMMA StampedSame ==
  ASSUME Inv, Outcome, NEW w \in Workers, Step(w) \/ Disconnect(w) \/ Crash(w),
         NEW b \in Rows, run'[b] = run[b],
         run[b].state = "stamped", run[b].by \in Schedulers
  PROVE  run'[b].sent = Cardinality({u \in Of(run'[b].of) : <<u, b[2]>> \in digests'})
<1>1. run[b].of \in Companies /\ b = Row(run[b].of, b[2]) /\ b[2] \in Days
  BY DEF Outcome, Owned, Rows
<1>2. \A x \in digests' \ digests : RowOf(x) # b
  <2> SUFFICES ASSUME NEW x \in digests' \ digests, RowOf(x) = b
               PROVE  FALSE
    OBVIOUS
  <2>1. w \in Schedulers /\ Record(w) /\ x = <<job[w].to, job[w].day>>
    BY NewDigests, RemindersAssumption
  <2>2. InBatch(w) /\ run[Held(w)].state = "claimed" /\ job[w].to \in Of(job[w].company)
    BY <2>1 DEF Inv, Good, Record, InBatch
  <2>3. RowOf(x) = Held(w)
    BY <2>1, <2>2, RowTypes DEF Inv
  <2> QED BY <2>2, <2>3
<1>3. {u \in Of(run[b].of) : <<u, b[2]>> \in digests'}
        = {u \in Of(run[b].of) : <<u, b[2]>> \in digests}
  <2>1. \A u \in Of(run[b].of) : RowOf(<<u, b[2]>>) = b
    BY <1>1 DEF Of, RowOf
  <2> QED BY <1>2, <2>1, NewDigests
<1>4. run[b].sent = Cardinality({u \in Of(run[b].of) : <<u, b[2]>> \in digests})
  BY DEF Outcome, SentAreRecorded, Inv, TypeOK
<1> QED BY <1>3, <1>4

(* A step of w that changes no run, and leaves its count right, is enough. *)
LEMMA OutcomeMoves ==
  ASSUME Inv, Outcome, NEW w \in Workers, Step(w) \/ Disconnect(w) \/ Crash(w),
         \A v \in Workers \ {w} : job'[v] = job[v], UNCHANGED run,
         InBatch(w)' => InBatch(w) /\ Held(w)' = Held(w) /\ job'[w].company = job[w].company,
         w \in Schedulers => Counts(w)'
  PROVE  Outcome'
<1>1. \A v \in Schedulers : Counts(v)'
  BY OthersCount
<1>2. SentAreRecorded'
  <2>1. DOMAIN run' = Rows
    BY DEF Inv, TypeOK
  <2> QED BY <2>1, StampedSame DEF SentAreRecorded
<1>3. Owned'
  <2>1. \A b \in Rows : run'[b].state # "none" =>
          run'[b].of \in Companies /\ b = Row(run'[b].of, b[2]) /\ run'[b].by \in Workers
    BY DEF Outcome, Owned
  <2>2. InBatch(w)' => run'[Held(w)'].of = job'[w].company
    BY DEF Outcome, Owned
  <2>3. \A v \in Workers \ {w} : InBatch(v)' => run'[Held(v)'].of = job'[v].company
    BY DEF Outcome, Owned, InBatch, Held
  <2> QED BY <2>1, <2>2, <2>3 DEF Owned, Row
<1> QED BY <1>1, <1>2, <1>3 DEF Outcome

(* Nobody of a batch that is being read has a digest of the day.            *)
LEMMA NothingTold ==
  ASSUME Inv, NEW w \in Workers, job[w].step = "reading"
  PROVE  Told(job[w].company, job[w].day) = {}
<1>1. \A u \in Of(job[w].company) : posts[<<u, job[w].day>>] = 0
  BY DEF Inv, Good
<1>2. \A x \in digests : posts[x] > 0
  BY DEF Inv, Ledger
<1> QED BY <1>1, <1>2 DEF Told

LEMMA ReadCounts ==
  ASSUME Inv, Tallies, Outcome, NEW w \in Workers, Read(w)
  PROVE  Outcome'
<1>1. job[w] \in Jobs /\ job[w].step = "reading" /\ job[w].sent = 0
  BY DEF Inv, TypeOK, Read, Tallies, Tally
<1>2. UNCHANGED <<run, digests>>
  BY DEF Read
<1>3. \A v \in Workers \ {w} : job'[v] = job[v]
  BY DEF Read, Leave, Inv, TypeOK
<1>4. CASE Leave(w)
  <2>1. job'[w].step = "visiting"
    BY <1>4 DEF Leave, Idle, Inv, TypeOK
  <2> QED BY <2>1, <1>2, <1>3, OutcomeMoves DEF InBatch, Counts, Step
<1>5. CASE ~Leave(w)
  <2>1. /\ job'[w].step = "sending" /\ job'[w].sent = 0
        /\ job'[w].company = job[w].company /\ job'[w].day = job[w].day
    <3>1. PICK l, a, m :
            job' = [job EXCEPT ![w].step = "sending", ![w].left = l,
                               ![w].asked = a, ![w].missed = m]
      BY <1>5 DEF Read
    <3> DEFINE j == [job[w] EXCEPT !.step = "sending", !.left = l,
                                   !.asked = a, !.missed = m]
    <3>2. /\ j.step = "sending" /\ j.sent = job[w].sent
          /\ j.company = job[w].company /\ j.day = job[w].day
      BY <1>1 DEF Jobs
    <3>3. job'[w] = j
      BY <3>1, <1>1 DEF Inv, TypeOK
    <3> QED BY <3>2, <3>3, <1>1
  <2>2. PICK c, d : c = job[w].company /\ d = job[w].day
    OBVIOUS
  <2>3. Told(c, d)' = {}
    BY <2>2, <1>1, <1>2, NothingTold DEF Told, Of
  <2>4. Counts(w)'
    BY <2>1, <2>2, <2>3, FS_EmptySet DEF Counts
  <2> QED BY <2>1, <2>4, <1>1, <1>2, <1>3, OutcomeMoves DEF InBatch, Held, Row, Step
<1> QED BY <1>4, <1>5

LEMMA PostCounts ==
  ASSUME Inv, Outcome, NEW w \in Workers, NEW u \in Users, Post(w, u)
  PROVE  Outcome'
<1>1. job[w] \in Jobs /\ job[w].step = "sending" /\ u \in job[w].left
  BY DEF Inv, TypeOK, Post
<1>2. UNCHANGED <<run, digests>> /\ \A v \in Workers \ {w} : job'[v] = job[v]
  BY DEF Post, Inv, TypeOK
<1>3. <<u, job[w].day>> \notin digests
  <2>1. posts[<<u, job[w].day>>] = 0
    BY <1>1 DEF Inv, Good
  <2> QED BY <2>1 DEF Inv, Ledger
<1>4. /\ job'[w].company = job[w].company /\ job'[w].day = job[w].day
      /\ job'[w].sent = job[w].sent
      /\ \/ job'[w].step = "sending"
         \/ job'[w].step = "recording" /\ job'[w].to = u
  <2>1. CASE job' = [job EXCEPT ![w].left = @ \ {u}, ![w].missed = @ + 1]
    <3> DEFINE j == [job[w] EXCEPT !.left = @ \ {u}, !.missed = @ + 1]
    <3>1. /\ j.company = job[w].company /\ j.day = job[w].day
          /\ j.sent = job[w].sent /\ j.step = "sending"
      BY <1>1 DEF Jobs
    <3>2. job'[w] = j
      BY <2>1, <1>1 DEF Inv, TypeOK
    <3> QED BY <3>1, <3>2
  <2>2. CASE job' = [job EXCEPT ![w].left = @ \ {u}, ![w].step = "recording", ![w].to = u]
    <3> DEFINE j == [job[w] EXCEPT !.left = @ \ {u}, !.step = "recording", !.to = u]
    <3>1. /\ j.company = job[w].company /\ j.day = job[w].day
          /\ j.sent = job[w].sent /\ j.step = "recording" /\ j.to = u
      BY <1>1 DEF Jobs
    <3>2. job'[w] = j
      BY <2>2, <1>1 DEF Inv, TypeOK
    <3> QED BY <3>1, <3>2
  <2> QED BY <2>1, <2>2 DEF Post
<1>5. w \in Schedulers => Counts(w)'
  <2>1. w \in Schedulers => job[w].sent = Cardinality(Told(job[w].company, job[w].day))
    BY <1>1 DEF Outcome, Counts
  <2>2. PICK c, d : c = job[w].company /\ d = job[w].day
    OBVIOUS
  <2>3. Told(c, d)' = Told(c, d)
    BY <1>2 DEF Told, Of
  <2>4. w \in Schedulers => job'[w].sent = Cardinality(Told(c, d)')
    BY <2>1, <2>2, <2>3, <1>4
  <2>5. job'[w].step = "recording" => <<job'[w].to, job'[w].day>> \notin digests'
    BY <1>2, <1>3, <1>4
  <2> QED BY <2>2, <2>4, <2>5, <1>4 DEF Counts
<1> QED BY <1>1, <1>2, <1>4, <1>5, OutcomeMoves DEF InBatch, Held, Row, Step

LEMMA RecordCounts ==
  ASSUME Inv, Outcome, NEW w \in Workers, Record(w)
  PROVE  Outcome'
<1> DEFINE letter == <<job[w].to, job[w].day>>
<1>1. job[w] \in Jobs /\ job[w].step = "recording" /\ job[w].sent \in Nat
  BY DEF Inv, TypeOK, Record, Jobs
<1>2. UNCHANGED run /\ \A v \in Workers \ {w} : job'[v] = job[v]
  BY DEF Record, Inv, TypeOK
<1>3. /\ job'[w].company = job[w].company /\ job'[w].day = job[w].day
      /\ job'[w].step = "sending"
      /\ \/ job'[w].sent = job[w].sent + 1 /\ Recorded(w, letter)
         \/ job'[w].sent = job[w].sent /\ UNCHANGED digests
  <2>1. CASE /\ job' = [job EXCEPT ![w] = [job[w] EXCEPT !.step = "sending", !.to = None,
                                                         !.sent = job[w].sent + 1]]
             /\ Recorded(w, letter)
    <3> HIDE DEF letter
    <3> QED BY <2>1, <1>1 DEF Inv, TypeOK, Jobs
  <2>2. CASE /\ job' = [job EXCEPT ![w] = [job[w] EXCEPT !.step = "sending", !.to = None,
                                                         !.missed = job[w].missed + 1]]
             /\ UNCHANGED digests
    <3> HIDE DEF letter
    <3> QED BY <2>2, <1>1 DEF Inv, TypeOK, Jobs
  <2> QED BY <2>1, <2>2 DEF Record, Inv, TypeOK
<1>4. w \in Schedulers => Counts(w)'
  <2> SUFFICES ASSUME w \in Schedulers
               PROVE  Counts(w)'
    OBVIOUS
  <2>1. /\ job[w].sent = Cardinality(Told(job[w].company, job[w].day))
        /\ letter \notin digests /\ job[w].to \in Of(job[w].company)
    BY <1>1 DEF Outcome, Counts, Inv, Good
  <2>2. PICK c, d : c = job[w].company /\ d = job[w].day
    OBVIOUS
  <2>3. CASE job'[w].sent = job[w].sent + 1 /\ Recorded(w, letter)
    <3>1. digests' = digests \cup {letter}
      BY <2>3 DEF Recorded
    <3>2. /\ Told(c, d)' = Told(c, d) \cup {job[w].to}
          /\ job[w].to \notin Told(c, d)
      BY <2>1, <2>2, <3>1 DEF Told, Of
    <3>3. Told(c, d) \in SUBSET Users
      BY DEF Told, Of
    <3>4. Cardinality(Told(c, d)') = Cardinality(Told(c, d)) + 1
      BY <3>2, <3>3, UsersFinite, FS_AddElement
    <3> QED BY <2>1, <2>2, <2>3, <3>4, <1>3 DEF Counts
  <2>4. CASE job'[w].sent = job[w].sent /\ UNCHANGED digests
    BY <2>1, <2>4, <1>3 DEF Counts, Told, Of
  <2> QED BY <1>3, <2>3, <2>4
<1> QED BY <1>1, <1>2, <1>3, <1>4, OutcomeMoves DEF InBatch, Held, Row, Step

LEMMA VisitCounts ==
  ASSUME Inv, Outcome, NEW w \in Workers, NEW c \in Companies, Visit(w, c)
  PROVE  Outcome'
<1> DEFINE x == Row(c, job[w].day)
<1>1. job[w] \in Jobs /\ x \in Rows /\ job[w].step = "visiting" /\ job[w].day \in Days
  BY RowTypes DEF Inv, Visit, Row, Rows
<1>2. UNCHANGED digests
  BY DEF Visit
<1>3. CASE job' = Skip(w, c) /\ UNCHANGED run
  <2>1. job' = [job EXCEPT ![w] = [job[w] EXCEPT !.todo = @ \ {c}]]
    BY <1>3 DEF Inv, TypeOK, Skip
  <2>2. job'[w].step = "visiting" /\ \A v \in Workers \ {w} : job'[v] = job[v]
    BY <2>1, <1>1 DEF Inv, TypeOK, Jobs
  <2> QED BY <2>2, <1>3, OutcomeMoves DEF InBatch, Counts, Step
<1>4. CASE /\ ~Claimed(w, c)
           /\ run' = [run EXCEPT ![x] = [state |-> "claimed", of |-> c, by |-> w, sent |-> 0]]
           /\ job' = [job EXCEPT ![w].step = "reading", ![w].company = c,
                                 ![w].todo = @ \ {c}]
  <2>1. job' = [job EXCEPT ![w] = [job[w] EXCEPT !.step = "reading", !.company = c,
                                                 !.todo = @ \ {c}]]
    BY <1>4 DEF Inv, TypeOK
  <2>2. /\ job'[w].step = "reading" /\ job'[w].company = c
        /\ job'[w].day = job[w].day
        /\ \A v \in Workers \ {w} : job'[v] = job[v]
    BY <2>1, <1>1 DEF Inv, TypeOK, Jobs
  <2>3. /\ run'[x] = [state |-> "claimed", of |-> c, by |-> w, sent |-> 0]
        /\ \A y \in Rows : y # x => run'[y] = run[y]
    BY <1>4, <1>1 DEF Inv, TypeOK
  <2>4. \A v \in Schedulers : Counts(v)'
    <3>1. Counts(w)'
      BY <2>2 DEF Counts
    <3> QED BY <3>1, <2>2, OthersCount DEF Step
  <2>5. SentAreRecorded'
    <3>1. DOMAIN run' = Rows /\ run'[x].state # "stamped"
      BY <1>4, <2>3 DEF Inv, TypeOK
    <3> QED BY <3>1, <2>3, StampedSame DEF SentAreRecorded, Step
  <2>6. Owned'
    <3>1. \A b \in Rows : run'[b].state # "none" =>
            run'[b].of \in Companies /\ b = Row(run'[b].of, b[2]) /\ run'[b].by \in Workers
      <4>1. x = Row(c, x[2])
        BY DEF Row
      <4> QED BY <4>1, <2>3 DEF Outcome, Owned
    <3>2. run'[Held(w)'].of = job'[w].company
      BY <2>2, <2>3 DEF Held, Row
    <3>3. ASSUME NEW v \in Workers \ {w}, InBatch(v)'
          PROVE  run'[Held(v)'].of = job'[v].company
      <4>1. InBatch(v) /\ Held(v)' = Held(v) /\ job'[v] = job[v]
        BY <2>2, <3>3 DEF InBatch, Held, Row
      <4>2. Held(v) \in Rows /\ run[Held(v)].state = "claimed"
        BY <4>1, RowTypes DEF Inv, Good
      <4>3. run[x].state = "none"
        BY <1>4, <1>1 DEF Claimed, Inv, TypeOK, Runs
      <4>4. run'[Held(v)] = run[Held(v)]
        BY <4>2, <4>3, <2>3
      <4> QED BY <4>1, <4>4 DEF Outcome, Owned
    <3> QED BY <3>1, <3>2, <3>3 DEF Owned, Row
  <2> QED BY <2>4, <2>5, <2>6 DEF Outcome
<1> QED BY <1>3, <1>4 DEF Visit

LEMMA StampCounts ==
  ASSUME Inv, Outcome, NEW w \in Workers, Stamp(w)
  PROVE  Outcome'
<1>1. /\ job[w] \in Jobs /\ job[w].step = "sending" /\ InBatch(w)
      /\ Held(w) \in Rows /\ run[Held(w)] \in Runs
      /\ run[Held(w)].state = "claimed" /\ run[Held(w)].by = w
      /\ run[Held(w)].of = job[w].company /\ Held(w)[2] = job[w].day
  BY RowTypes DEF Inv, Stamp, Good, InBatch, Outcome, Owned, Held, Row
<1>2. UNCHANGED digests
  BY DEF Stamp
<1>3. job'[w].step = "visiting" /\ \A v \in Workers \ {w} : job'[v] = job[v]
  <2>1. job' = [job EXCEPT ![w] = Left(w)] /\ Left(w).step = "visiting"
    BY DEF Stamp, Leave, Left, Idle
  <2> QED BY <2>1 DEF Inv, TypeOK
<1>4. CASE UNCHANGED run
  BY <1>3, <1>4, OutcomeMoves DEF InBatch, Counts, Step
<1>5. CASE run' = [run EXCEPT ![Held(w)].state = "stamped", ![Held(w)].sent = job[w].sent]
  <2>1. /\ run'[Held(w)].state = "stamped" /\ run'[Held(w)].sent = job[w].sent
        /\ run'[Held(w)].by = w /\ run'[Held(w)].of = job[w].company
        /\ \A y \in Rows : y # Held(w) => run'[y] = run[y]
    <3>1. run' = [run EXCEPT ![Held(w)] = [run[Held(w)] EXCEPT !.state = "stamped",
                                                           !.sent = job[w].sent]]
      BY <1>5, <1>1 DEF Inv, TypeOK
    <3> QED BY <3>1, <1>1 DEF Inv, TypeOK, Runs
  <2>2. \A v \in Schedulers : Counts(v)'
    <3>1. Counts(w)'
      BY <1>3 DEF Counts
    <3> QED BY <3>1, <1>3, OthersCount DEF Step
  <2>3. SentAreRecorded'
    <3>1. DOMAIN run' = Rows
      BY <1>5 DEF Inv, TypeOK
    <3>2. w \in Schedulers => run'[Held(w)].sent =
            Cardinality({u \in Of(run'[Held(w)].of) : <<u, Held(w)[2]>> \in digests'})
      <4>1. {u \in Of(run'[Held(w)].of) : <<u, Held(w)[2]>> \in digests'}
              = Told(job[w].company, job[w].day)
        BY <1>1, <1>2, <2>1 DEF Told
      <4>2. w \in Schedulers => job[w].sent = Cardinality(Told(job[w].company, job[w].day))
        BY <1>1 DEF Outcome, Counts
      <4> QED BY <4>1, <4>2, <2>1
    <3>3. \A b \in Rows \ {Held(w)} :
            run'[b].state = "stamped" /\ run'[b].by \in Schedulers => run'[b].sent =
              Cardinality({u \in Of(run'[b].of) : <<u, b[2]>> \in digests'})
      BY <2>1, StampedSame DEF Step
    <3> QED BY <3>1, <3>2, <3>3, <2>1 DEF SentAreRecorded
  <2>4. Owned'
    <3>1. \A b \in Rows : run'[b].state # "none" =>
            run'[b].of \in Companies /\ b = Row(run'[b].of, b[2]) /\ run'[b].by \in Workers
      <4>1. run[Held(w)].state # "none"
        BY <1>1
      <4> QED BY <4>1, <1>1, <2>1 DEF Outcome, Owned
    <3>2. ASSUME NEW v \in Workers \ {w}, InBatch(v)'
          PROVE  run'[Held(v)'].of = job'[v].company
      <4>1. InBatch(v) /\ Held(v)' = Held(v) /\ job'[v] = job[v]
        BY <1>3, <3>2 DEF InBatch, Held, Row
      <4>2. Held(v) \in Rows /\ run[Held(v)].by = v
        BY <4>1, RowTypes DEF Inv, Good
      <4>3. run'[Held(v)] = run[Held(v)]
        BY <4>2, <1>1, <2>1
      <4> QED BY <4>1, <4>3 DEF Outcome, Owned
    <3> QED BY <3>1, <3>2, <1>3 DEF Owned, InBatch, Row
  <2> QED BY <2>2, <2>3, <2>4 DEF Outcome
<1> QED BY <1>4, <1>5 DEF Stamp, Held

LEMMA EndsCount ==
  ASSUME Inv, Outcome, NEW w \in Workers,
         Start(w) \/ Finish(w) \/ Crash(w) \/ Disconnect(w)
  PROVE  Outcome'
<1>1. UNCHANGED run /\ \A v \in Workers \ {w} : job'[v] = job[v]
  BY DEF Start, Finish, Crash, Disconnect, Inv, TypeOK
<1>2. CASE Start(w)
  <2>1. job'[w].step = "visiting"
    BY <1>2 DEF Start, Idle, Inv, TypeOK
  <2> QED BY <2>1, <1>1, <1>2, OutcomeMoves DEF InBatch, Counts, Step
<1>3. CASE Finish(w) \/ Crash(w)
  <2>1. Over(w).step \in {"idle", "answered"}
    BY DEF Over, Idle
  <2>2. job'[w].step \in {"idle", "answered"}
    BY <2>1, <1>3 DEF Finish, Crash, Inv, TypeOK
  <2> QED BY <2>2, <1>1, <1>3, OutcomeMoves DEF InBatch, Counts, Step
<1>4. CASE Disconnect(w)
  <2>1. w \notin Schedulers
    BY <1>4, RemindersAssumption DEF Disconnect
  <2>2. /\ job'[w].step = job[w].step /\ job'[w].company = job[w].company
        /\ job'[w].day = job[w].day
    <3>1. job' = [job EXCEPT ![w] = [job[w] EXCEPT !.client = "gone"]] /\ job[w] \in Jobs
      BY <1>4 DEF Disconnect, Inv, TypeOK
    <3> QED BY <3>1 DEF Inv, TypeOK, Jobs
  <2> QED BY <2>1, <2>2, <1>1, <1>4, OutcomeMoves DEF InBatch, Held, Row
<1> QED BY <1>2, <1>3, <1>4

LEMMA OutcomeStep ==
  ASSUME Inv, Tallies, Outcome, [Next]_vars
  PROVE  Outcome'
<1>1. CASE Midnight \/ (\E c \in Companies : Reach(c)) \/ UNCHANGED vars
  <2>1. UNCHANGED <<run, digests, job>>
    BY <1>1 DEF Midnight, Reach, vars
  <2> QED
    BY <2>1 DEF Outcome, Owned, SentAreRecorded, Counts, Told, Of, InBatch, Held, Row
<1>2. CASE \E w \in Workers : Step(w) \/ Disconnect(w) \/ Crash(w)
  BY <1>2, VisitCounts, ReadCounts, PostCounts, RecordCounts, StampCounts, EndsCount
  DEF Step
<1> QED BY <1>1, <1>2 DEF Next

(* What the run of a tick says it sent are the digests on record.           *)
THEOREM RunsTellTheTruth == Spec => []SentAreRecorded
<1>1. Init => Inv /\ Tallies /\ Outcome
  <2>1. Init => Tallies
    BY DEF Init, Tallies, Tally, Idle
  <2>2. ASSUME Init PROVE Outcome
    BY <2>2 DEF Init, Outcome, Owned, SentAreRecorded, Counts, InBatch, NoRun, Idle, Workers
  <2> QED BY <2>1, <2>2, InvInit
<1>2. Inv /\ Tallies /\ Outcome /\ [Next]_vars => (Inv /\ Tallies /\ Outcome)'
  BY InvStep, TallyStep, OutcomeStep DEF Inv
<1>3. Inv /\ Tallies /\ Outcome => SentAreRecorded
  BY DEF Outcome
<1> QED BY <1>1, <1>2, <1>3, PTL DEF Spec
=============================================================================
