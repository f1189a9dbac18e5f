----------------------- MODULE FinalizationQueueProofs -----------------------
(***************************************************************************)
(* Proofs about FinalizationQueue, for any meetings, any finite set of      *)
(* workers, any timers, late transcripts and failures.                      *)
(***************************************************************************)
EXTENDS FinalizationQueue, FiniteSetTheorems, SequenceTheorems, TLAPS

-----------------------------------------------------------------------------
(* The inductive invariant.                                                 *)

Single(q) == \A i, j \in DOMAIN q : q[i] = q[j] => i = j
Has(q, m) == \E i \in DOMAIN q : q[i] = m

\* The lanes hold what queued says, each meeting once; a tracked meeting is
\* queued or active.
LaneInv ==
  /\ Single(fresh) /\ Single(backlog)
  /\ \A m \in Meeting :
       /\ queued[m] = "fresh" <=> Has(fresh, m)
       /\ queued[m] = "backlog" <=> Has(backlog, m)
       /\ m \in running <=> queued[m] # "no" \/ active[m] # "no"
       /\ queued[m] = "no" \/ active[m] = "no"

\* A meeting is active while one worker is on it, in that worker's lane; at most
\* one in the serial lane.
JobInv ==
  /\ \A w \in Worker : Busy(w) => active[worker[w].m] = worker[w].lane
  /\ \A v, w \in Worker : Busy(v) /\ Busy(w) /\ worker[v].m = worker[w].m => v = w
  /\ \A m \in Meeting : active[m] # "no" => \E w \in Worker : Busy(w) /\ worker[w].m = m
  /\ \A m, n \in Meeting : active[m] = "backlog" /\ active[n] = "backlog" => m = n
  /\ backlogActive <=> \E m \in Meeting : active[m] = "backlog"

MarkInv ==
  /\ \A m \in retryQueued : queued[m] # "no"
  /\ \A m \in again \cup retryActive : active[m] # "no"

Alive == {w \in Worker : worker[w].pc # "off"}
PoolInv == workers = Cardinality(Alive) /\ workers <= 2

\* Goroutines and callbacks past their start are about a meeting the boot has
\* reached.
AimInv ==
  /\ \A w \in Worker : worker[w].pc \notin {"off", "look"} => worker[w].m \in Meeting \ boot
  /\ \A t \in Timer : object[t].at # "off" => object[t].m \in Meeting \ boot

\* Nobody has touched a meeting the boot has not reached.
BootInv == \A m \in boot : m \notin running \cup hook /\ phase[m] = "closed"

HookInv == \A m, n \in hook : m = n

\* A receipt reopened under a run that has settled it gets another one.
SettleInv ==
  \A w \in Worker : worker[w].pc \in {"cancel", "finish"} /\ receipt[worker[w].m] = "closing" =>
    worker[w].m \in again \cup hook \/ phase[worker[w].m] = "ended"

\* A meeting of this boot is in the fresh lane or marked as a retry.
LiveInv ==
  \A m \in running \ Historic :
    queued[m] = "fresh" \/ active[m] = "fresh" \/ m \in retryQueued \cup retryActive

IInv ==
  /\ TypeOK /\ LaneInv /\ JobInv /\ MarkInv /\ PoolInv /\ AimInv
  /\ FreshLaneOpen /\ ArmedIsListed
  /\ BootInv /\ HookInv /\ SettleInv /\ ClosingIsQueued /\ LiveInv

-----------------------------------------------------------------------------
(* Queues.                                                                  *)

LEMMA AppendSingle ==
  ASSUME NEW q \in Seq(Meeting), NEW m \in Meeting, Single(q), ~Has(q, m)
  PROVE  /\ Append(q, m) \in Seq(Meeting) /\ Single(Append(q, m))
         /\ \A x : Has(Append(q, m), x) <=> Has(q, x) \/ x = m
<1> DEFINE r == Append(q, m)
<1>1. r \in Seq(Meeting) /\ Len(q) \in Nat /\ Len(r) = Len(q) + 1
  OBVIOUS
<1>2. DOMAIN r = 1..(Len(q) + 1) /\ DOMAIN q = 1..Len(q)
  BY <1>1
<1>3. r[Len(q) + 1] = m /\ \A i \in 1..Len(q) : r[i] = q[i]
  OBVIOUS
<1> HIDE DEF r
<1>4. Single(r)
  BY <1>1, <1>2, <1>3 DEF Single, Has
<1>5. \A x : Has(r, x) <=> Has(q, x) \/ x = m
  <2>1. Len(q) + 1 \in DOMAIN r /\ DOMAIN q \subseteq DOMAIN r
    BY <1>1, <1>2
  <2>2. \A i \in DOMAIN r : i \in DOMAIN q \/ i = Len(q) + 1
    BY <1>1, <1>2
  <2> QED
    BY <1>2, <1>3, <2>1, <2>2 DEF Has
<1> QED
  BY <1>1, <1>4, <1>5 DEF r

LEMMA TailSingle ==
  ASSUME NEW q \in Seq(Meeting), q # <<>>, Single(q)
  PROVE  /\ Tail(q) \in Seq(Meeting) /\ Head(q) \in Meeting /\ Has(q, Head(q))
         /\ Single(Tail(q))
         /\ \A x : Has(Tail(q), x) <=> Has(q, x) /\ x # Head(q)
<1> DEFINE r == Tail(q)
           n == Len(q)
           h == Head(q)
<1>1. /\ r \in Seq(Meeting) /\ n \in Nat /\ n # 0 /\ Len(r) = n - 1 /\ h \in Meeting /\ h = q[1]
      /\ \A i \in 1..(n - 1) : r[i] = q[i + 1]
  OBVIOUS
<1>2. DOMAIN r = 1..(n - 1) /\ DOMAIN q = 1..n
  BY <1>1
<1> HIDE DEF r, n, h
<1>3. 1 \in DOMAIN q /\ \A i \in DOMAIN r : i + 1 \in DOMAIN q /\ r[i] = q[i + 1] /\ i \in Nat /\ i # 0
  BY <1>1, <1>2
<1>4. Single(r)
  <2>1. ASSUME NEW i \in DOMAIN r, NEW j \in DOMAIN r, r[i] = r[j] PROVE i = j
    <3>1. i + 1 = j + 1
      BY <1>3, <2>1 DEF Single
    <3> QED
      BY <1>3, <3>1
  <2> QED
    BY <2>1 DEF Single
<1>5. ASSUME NEW x PROVE Has(r, x) <=> Has(q, x) /\ x # h
  <2>1. ASSUME Has(r, x) PROVE Has(q, x) /\ x # h
    <3>1. PICK i \in DOMAIN r : r[i] = x
      BY <2>1 DEF Has
    <3>2. i + 1 \in DOMAIN q /\ q[i + 1] = x /\ i + 1 # 1
      BY <1>3, <3>1
    <3> QED
      BY <1>1, <1>3, <3>2 DEF Has, Single
  <2>2. ASSUME Has(q, x), x # h PROVE Has(r, x)
    <3>1. PICK i \in DOMAIN q : q[i] = x
      BY <2>2 DEF Has
    <3>2. i # 1 /\ i \in Nat
      BY <1>1, <1>2, <2>2, <3>1
    <3>3. i - 1 \in DOMAIN r /\ (i - 1) + 1 = i
      BY <1>1, <1>2, <3>1, <3>2
    <3> QED
      BY <1>3, <3>1, <3>3 DEF Has
  <2> QED
    BY <2>1, <2>2
<1>6. Has(q, h)
  BY <1>1, <1>3 DEF Has
<1> QED
  BY <1>1, <1>4, <1>5, <1>6 DEF r, h

LEMMA RemovedSingle ==
  ASSUME NEW q \in Seq(Meeting), NEW m \in Meeting, Single(q), Has(q, m)
  PROVE  /\ Removed(q, m) \in Seq(Meeting) /\ Single(Removed(q, m))
         /\ \A x : Has(Removed(q, m), x) <=> Has(q, x) /\ x # m
<1> DEFINE n == Len(q)
           r == Removed(q, m)
<1>1. n \in Nat /\ DOMAIN q = 1..n /\ \A i \in 1..n : q[i] \in Meeting
  OBVIOUS
<1>2. PICK k \in 1..n : q[k] = m
  BY <1>1 DEF Has
<1>3. {i \in DOMAIN q : q[i] = m} = {k}
  BY <1>1, <1>2 DEF Single
<1>4. r = SubSeq(q, 1, k - 1) \o SubSeq(q, k + 1, n)
  <2>1. (CHOOSE i \in {k} : \A j \in {k} : i <= j) = k
    BY <1>2
  <2> QED
    BY <1>3, <2>1 DEF Removed, RemoveAt
<1>5. /\ r \in Seq(Meeting) /\ Len(r) = n - 1
      /\ \A i \in 1..(n - 1) : r[i] = IF i < k THEN q[i] ELSE q[i + 1]
  <2> DEFINE a == SubSeq(q, 1, k - 1)
             b == SubSeq(q, k + 1, n)
  <2>1. /\ a \in Seq(Meeting) /\ Len(a) = k - 1
        /\ \A i \in 1..(k - 1) : a[i] = q[i]
    BY <1>1, <1>2
  <2>2. /\ b \in Seq(Meeting) /\ Len(b) = n - k
        /\ \A i \in 1..(n - k) : b[i] = q[k + i]
    <3>1. k + 1 \in Int /\ n \in Int /\ \A i \in (k + 1)..n : q[i] \in Meeting
      BY <1>1, <1>2
    <3>2. /\ b \in Seq(Meeting) /\ Len(b) = IF k + 1 <= n THEN n - (k + 1) + 1 ELSE 0
          /\ \A i \in 1..(n - (k + 1) + 1) : b[i] = q[(k + 1) + i - 1]
      BY <3>1, SubSeqProperties
    <3> HIDE DEF b
    <3>3. n - (k + 1) + 1 = n - k /\ k <= n /\ n \in Int /\ k \in Int
      BY <1>1, <1>2
    <3> HIDE DEF n
    <3>4. Len(b) = n - k
      BY <3>2, <3>3
    <3>5. ASSUME NEW i \in 1..(n - k) PROVE b[i] = q[k + i]
      <4>1. (k + 1) + i - 1 = k + i
        BY <3>3
      <4> QED
        BY <3>2, <3>3, <4>1
    <3> QED
      BY <3>2, <3>4, <3>5
  <2>3. r = a \o b
    BY <1>4
  <2> HIDE DEF a, b, r
  <2>4. r \in Seq(Meeting) /\ Len(r) = n - 1
    <3>1. r \in Seq(Meeting) /\ Len(r) = Len(a) + Len(b)
      BY <2>1, <2>2, <2>3, ConcatProperties
    <3> HIDE DEF n
    <3> QED
      BY <1>1, <1>2, <2>1, <2>2, <3>1
  <2>5. ASSUME NEW i \in 1..(n - 1) PROVE r[i] = IF i < k THEN q[i] ELSE q[i + 1]
    <3>1. CASE i < k
      <4>1. r[i] = a[i]
        BY <1>1, <1>2, <2>1, <2>2, <2>3, <3>1
      <4> QED
        BY <1>1, <1>2, <2>1, <3>1, <4>1
    <3>2. CASE ~(i < k)
      <4>1. i - (k - 1) \in 1..(n - k) /\ k + (i - (k - 1)) = i + 1
        BY <1>1, <1>2, <3>2
      <4>2. r[i] = b[i - (k - 1)]
        BY <1>1, <1>2, <2>1, <2>2, <2>3, <3>2
      <4> QED
        BY <2>2, <3>2, <4>1, <4>2
    <3> QED
      BY <3>1, <3>2
  <2> QED
    BY <2>4, <2>5
<1> HIDE DEF r, n
<1>6. DOMAIN r = 1..(n - 1)
  BY <1>5
<1>7. Single(r)
  <2>1. ASSUME NEW i \in DOMAIN r, NEW j \in DOMAIN r, r[i] = r[j] PROVE i = j
    <3>1. PICK u \in DOMAIN q : u = IF i < k THEN i ELSE i + 1
      BY <1>1, <1>2, <1>6
    <3>2. PICK v \in DOMAIN q : v = IF j < k THEN j ELSE j + 1
      BY <1>1, <1>2, <1>6
    <3>3. r[i] = q[u] /\ r[j] = q[v]
      BY <1>5, <1>6, <3>1, <3>2
    <3>4. u = v
      BY <2>1, <3>3 DEF Single
    <3> QED
      BY <1>1, <1>2, <1>6, <3>1, <3>2, <3>4
  <2> QED
    BY <2>1 DEF Single
<1>8. ASSUME NEW x PROVE Has(r, x) <=> Has(q, x) /\ x # m
  <2>1. ASSUME Has(r, x) PROVE Has(q, x) /\ x # m
    <3>1. PICK i \in DOMAIN r : r[i] = x
      BY <2>1 DEF Has
    <3>2. PICK u \in DOMAIN q : u = IF i < k THEN i ELSE i + 1
      BY <1>1, <1>2, <1>6
    <3>3. q[u] = x /\ u # k
      BY <1>1, <1>2, <1>5, <1>6, <3>1, <3>2
    <3> QED
      BY <1>1, <1>2, <3>3 DEF Has, Single
  <2>2. ASSUME Has(q, x), x # m PROVE Has(r, x)
    <3>1. PICK u \in DOMAIN q : q[u] = x
      BY <2>2 DEF Has
    <3>2. u # k
      BY <1>2, <2>2, <3>1
    <3>3. PICK i \in DOMAIN r : u = IF i < k THEN i ELSE i + 1
      <4>1. CASE u < k
        BY <1>1, <1>2, <1>6, <4>1
      <4>2. CASE ~(u < k)
        <5>1. u - 1 \in DOMAIN r /\ ~(u - 1 < k) /\ (u - 1) + 1 = u
          BY <1>1, <1>2, <1>6, <3>2, <4>2
        <5> QED
          BY <5>1
      <4> QED
        BY <4>1, <4>2
    <3>4. r[i] = x
      BY <1>5, <1>6, <3>1, <3>3
    <3> QED
      BY <3>4 DEF Has
  <2> QED
    BY <2>1, <2>2
<1> QED
  BY <1>5, <1>7, <1>8 DEF r

-----------------------------------------------------------------------------
(* Types.                                                                   *)

WorkPcs == {"off", "look", "run", "work", "cancel", "finish", "retry", "arm"}
WorkRec == [pc : WorkPcs, m : Meeting \cup {"none"}, lane : Lane, err : BOOLEAN, fits : BOOLEAN]
ObjectPcs == {"off", "armed", "fired", "check", "schedule"}
ObjectRec == [at : ObjectPcs, m : Meeting \cup {"none"}, fits : BOOLEAN]
Phases == {"open", "publishing", "ended", "signalled", "closed"}

LaneTypes ==
  /\ fresh \in Seq(Meeting) /\ backlog \in Seq(Meeting)
  /\ queued \in [Meeting -> Lane \cup {"no"}] /\ active \in [Meeting -> Lane \cup {"no"}]
  /\ running \subseteq Meeting /\ again \subseteq Meeting
  /\ retryQueued \subseteq Meeting /\ retryActive \subseteq Meeting
  /\ backlogActive \in BOOLEAN

LEMMA Typed ==
  TypeOK <=> /\ LaneTypes
             /\ workers \in Nat /\ worker \in [Worker -> WorkRec]
             /\ timer \in [Meeting -> Timer \cup {"none"}] /\ object \in [Timer -> ObjectRec]
             /\ stopped \in BOOLEAN /\ receipt \in [Meeting -> ReceiptState]
             /\ phase \in [Meeting -> Phases]
             /\ hook \subseteq Meeting /\ boot \subseteq Historic /\ lates \in Nat /\ fails \in Nat
  BY DEF TypeOK, LaneTypes, WorkRec, WorkPcs, ObjectRec, ObjectPcs, Phases

LEMMA TypedNext ==
  ASSUME LaneTypes', workers' \in Nat, worker' \in [Worker -> WorkRec],
         timer' \in [Meeting -> Timer \cup {"none"}], object' \in [Timer -> ObjectRec],
         stopped' \in BOOLEAN, receipt' \in [Meeting -> ReceiptState],
         phase' \in [Meeting -> Phases],
         hook' \subseteq Meeting, boot' \subseteq Historic, lates' \in Nat, fails' \in Nat
  PROVE  TypeOK'
  BY DEF TypeOK, LaneTypes, WorkRec, WorkPcs, ObjectRec, ObjectPcs, Phases

LEMMA WorkFields ==
  ASSUME NEW x \in WorkRec
  PROVE  /\ x.pc \in WorkPcs /\ x.m \in Meeting \cup {"none"} /\ x.lane \in Lane
         /\ x.err \in BOOLEAN /\ x.fits \in BOOLEAN
         /\ \A pc \in WorkPcs :
              LET y == [x EXCEPT !.pc = pc]
              IN  y \in WorkRec /\ y.pc = pc /\ y.m = x.m /\ y.lane = x.lane /\ y.err = x.err
         /\ \A pc \in WorkPcs :
              LET y == [x EXCEPT !.pc = pc, !.err = TRUE]
              IN  y \in WorkRec /\ y.pc = pc /\ y.m = x.m /\ y.lane = x.lane
         /\ \A pc \in WorkPcs :
              LET y == [x EXCEPT !.pc = pc, !.fits = TRUE]
              IN  y \in WorkRec /\ y.pc = pc /\ y.m = x.m /\ y.lane = x.lane
         /\ LET y == [x EXCEPT !.fits = FALSE]
            IN  y \in WorkRec /\ y.pc = x.pc /\ y.m = x.m /\ y.lane = x.lane
  BY DEF WorkRec

LEMMA NewWork ==
  /\ NoWork \in WorkRec /\ NoWork.pc = "off"
  /\ \A pc \in WorkPcs : [NoWork EXCEPT !.pc = pc] \in WorkRec /\ [NoWork EXCEPT !.pc = pc].pc = pc
  /\ \A m \in Meeting, lane \in Lane :
       LET y == [NoWork EXCEPT !.pc = "run", !.m = m, !.lane = lane]
       IN  y \in WorkRec /\ y.pc = "run" /\ y.m = m /\ y.lane = lane
  BY DEF NoWork, WorkRec, WorkPcs, Lane

LEMMA ObjectFields ==
  ASSUME NEW x \in ObjectRec
  PROVE  /\ x.at \in ObjectPcs /\ x.m \in Meeting \cup {"none"} /\ x.fits \in BOOLEAN
         /\ \A at \in ObjectPcs :
              LET y == [x EXCEPT !.at = at]
              IN  y \in ObjectRec /\ y.at = at /\ y.m = x.m
         /\ LET y == [x EXCEPT !.fits = FALSE]
            IN  y \in ObjectRec /\ y.at = x.at /\ y.m = x.m
  BY DEF ObjectRec

LEMMA NewObject ==
  /\ NoObject \in ObjectRec /\ NoObject.at = "off" /\ NoObject.m = "none"
  /\ \A m \in Meeting, f \in BOOLEAN :
       LET y == [at |-> "armed", m |-> m, fits |-> f]
       IN  y \in ObjectRec /\ y.at = "armed" /\ y.m = m
  BY DEF NoObject, ObjectRec, ObjectPcs

LEMMA AliveFinite ==
  /\ Alive \subseteq Worker /\ IsFiniteSet(Alive) /\ Cardinality(Alive) \in Nat
<1>1. Alive \subseteq Worker
  BY DEF Alive
<1> QED
  BY <1>1, QueueConstants, FS_Subset, FS_CardinalityType

-----------------------------------------------------------------------------
(* Workers.                                                                 *)

BusyPcs == {"run", "work", "cancel", "finish"}

LEMMA TwoApart ==
  ASSUME NEW S, IsFiniteSet(S), Cardinality(S) = 2
  PROVE  \A x : \E y \in S : y # x
<1> SUFFICES ASSUME NEW x, \A y \in S : y = x PROVE FALSE
  OBVIOUS
<1>1. S \subseteq {x} /\ IsFiniteSet({x}) /\ Cardinality({x}) = 1
  BY FS_Singleton
<1>2. Cardinality(S) <= 1
  BY <1>1, FS_Subset
<1> QED
  BY <1>2

\* At most one worker is on a historical job.
SerialWorker ==
  \A v, w \in Worker :
    Busy(v) /\ worker[v].lane = "backlog" /\ Busy(w) /\ worker[w].lane = "backlog" => v = w

LEMMA Serial ==
  ASSUME TypeOK, JobInv, AimInv PROVE SerialWorker
<1> SUFFICES ASSUME NEW v \in Worker, NEW w \in Worker, Busy(v), Busy(w),
                    worker[v].lane = "backlog", worker[w].lane = "backlog"
             PROVE  v = w
  BY DEF SerialWorker
<1>1. worker[v].m \in Meeting /\ worker[w].m \in Meeting
  BY DEF AimInv, Busy
<1>2. active[worker[v].m] = "backlog" /\ active[worker[w].m] = "backlog"
  BY DEF JobInv
<1>3. worker[v].m = worker[w].m
  BY <1>1, <1>2 DEF JobInv
<1> QED
  BY <1>3 DEF JobInv

\* No goroutine of pool changes, but new ones may start.
Grown(pool) ==
  \A w \in Worker : worker'[w] = pool[w] \/ (pool[w].pc = "off" /\ worker'[w].pc = "look")

LEMMA Started ==
  ASSUME PoolInv, NEW pool \in [Worker -> WorkRec],
         \A w \in Worker : pool[w].pc = "off" <=> worker[w].pc = "off", EnsureWorkers(pool)
  PROVE  /\ worker' \in [Worker -> WorkRec] /\ workers' \in Nat /\ PoolInv' /\ Grown(pool)
         /\ fresh' # <<>> => workers' = 2
<1> DEFINE k == ToStart(workers)
<1>1. PICK started \in SUBSET {w \in Worker : pool[w].pc = "off"} :
        /\ Cardinality(started) = k /\ workers' = workers + k
        /\ worker' = [w \in Worker |-> IF w \in started THEN [NoWork EXCEPT !.pc = "look"] ELSE pool[w]]
  BY DEF EnsureWorkers
<1>2. [NoWork EXCEPT !.pc = "look"] \in WorkRec /\ [NoWork EXCEPT !.pc = "look"].pc = "look"
  BY NewWork DEF WorkPcs
<1>3. worker' \in [Worker -> WorkRec] /\ Grown(pool)
  BY <1>1, <1>2 DEF Grown
<1>4. workers \in 0..2 /\ workers = Cardinality(Alive)
  BY AliveFinite DEF PoolInv
<1>5. k \in 0..2 /\ workers + k <= 2 /\ (fresh' # <<>> => workers + k = 2)
  BY <1>4 DEF ToStart
<1>6. Alive' = Alive \cup started
  BY <1>1, <1>2 DEF Alive
<1>7. IsFiniteSet(started) /\ IsFiniteSet(Alive) /\ Alive \cap started = {}
  BY <1>1, QueueConstants, FS_Subset, AliveFinite DEF Alive
<1> HIDE DEF k
<1>8. Cardinality(Alive') = workers + k
  <2>1. Cardinality(Alive \cup started) = Cardinality(Alive) + Cardinality(started) - Cardinality({})
    BY <1>7, FS_Union
  <2>2. Cardinality({}) = 0
    BY FS_EmptySet
  <2> QED
    BY <1>1, <1>4, <1>5, <1>6, <2>1, <2>2
<1> QED
  BY <1>1, <1>3, <1>4, <1>5, <1>8 DEF PoolInv

\* With two workers, one is free for fresh work.
LEMMA LaneOpened ==
  ASSUME SerialWorker', PoolInv', fresh' # <<>> => workers' = 2
  PROVE  FreshLaneOpen'
<1> SUFFICES ASSUME fresh' # <<>>
             PROVE  \E w \in Worker : /\ worker'[w].pc # "off"
                                      /\ ~(Busy(w)' /\ worker'[w].lane = "backlog")
  BY DEF FreshLaneOpen
<1>1. Alive' \subseteq Worker
  BY DEF Alive
<1>2. IsFiniteSet(Alive') /\ Cardinality(Alive') = 2
  BY <1>1, QueueConstants, FS_Subset DEF PoolInv
<1>3. CASE \E x \in Worker : Busy(x)' /\ worker'[x].lane = "backlog"
  <2>1. PICK x \in Worker : Busy(x)' /\ worker'[x].lane = "backlog"
    BY <1>3
  <2>2. PICK y \in Alive' : y # x
    BY <1>2, TwoApart
  <2> QED
    BY <2>1, <2>2 DEF SerialWorker, Alive
<1>4. CASE ~\E x \in Worker : Busy(x)' /\ worker'[x].lane = "backlog"
  <2>1. PICK y \in Alive' : TRUE
    BY <1>2, TwoApart
  <2> QED
    BY <1>4, <2>1 DEF Alive
<1> QED
  BY <1>3, <1>4

\* Workers stay on their jobs.
SameJobs ==
  \A w \in Worker : /\ Busy(w)' <=> Busy(w)
                    /\ Busy(w) => worker'[w].m = worker[w].m /\ worker'[w].lane = worker[w].lane

LEMMA JobsKept ==
  ASSUME JobInv, UNCHANGED <<active, backlogActive>>, SameJobs
  PROVE  JobInv'
<1>1. \A w \in Worker : Busy(w)' => active'[worker'[w].m] = worker'[w].lane
  BY DEF JobInv, SameJobs
<1>2. \A v, w \in Worker : Busy(v)' /\ Busy(w)' /\ worker'[v].m = worker'[w].m => v = w
  BY DEF JobInv, SameJobs
<1>3. \A m \in Meeting : active'[m] # "no" => \E w \in Worker : Busy(w)' /\ worker'[w].m = m
  BY DEF JobInv, SameJobs
<1>4. /\ \A m, n \in Meeting : active'[m] = "backlog" /\ active'[n] = "backlog" => m = n
      /\ backlogActive' <=> \E m \in Meeting : active'[m] = "backlog"
  BY DEF JobInv
<1> QED
  BY <1>1, <1>2, <1>3, <1>4 DEF JobInv

LEMMA GrownSame ==
  ASSUME Grown(worker) PROVE SameJobs
  BY DEF Grown, SameJobs, Busy

\* Lanes, marks and the number of workers stay.
Steady ==
  /\ UNCHANGED <<laneVars, doneVars, workers>>
  /\ \A w \in Worker : worker'[w].pc = "off" <=> worker[w].pc = "off"
  /\ SameJobs

LEMMA SteadyKept ==
  ASSUME LaneTypes, LaneInv, JobInv, MarkInv, PoolInv, FreshLaneOpen, LiveInv, Steady
  PROVE  LaneTypes' /\ LaneInv' /\ JobInv' /\ MarkInv' /\ PoolInv' /\ FreshLaneOpen' /\ LiveInv'
<1>0. /\ UNCHANGED <<fresh, backlog, queued, running, again, retryQueued>>
      /\ UNCHANGED <<active, retryActive, backlogActive, workers>>
  BY DEF Steady, laneVars, doneVars
<1>1. LaneTypes'
  BY <1>0 DEF LaneTypes
<1>2. LaneInv' /\ MarkInv' /\ LiveInv'
  BY <1>0 DEF LaneInv, MarkInv, LiveInv
<1>3. JobInv'
  BY <1>0, JobsKept DEF Steady
<1>4. PoolInv'
  <2>1. Alive' = Alive
    BY DEF Steady, Alive
  <2> QED
    BY <1>0, <2>1 DEF PoolInv
<1>5. FreshLaneOpen'
  BY <1>0 DEF FreshLaneOpen, Steady, SameJobs
<1> QED
  BY <1>1, <1>2, <1>3, <1>4, <1>5

-----------------------------------------------------------------------------
(* Enqueue.                                                                 *)

\* The queues and queued after m has been put at the end of a lane.
Queues(x) ==
  /\ queued'[x] = "fresh" <=> Has(fresh', x)
  /\ queued'[x] = "backlog" <=> Has(backlog', x)

LEMMA EnqueueLanes ==
  ASSUME LaneTypes, LaneInv, NEW m \in Meeting, NEW lane \in Lane, NEW isRetry \in BOOLEAN,
         Enqueue(m, lane, isRetry)
  PROVE  /\ fresh' \in Seq(Meeting) /\ backlog' \in Seq(Meeting)
         /\ queued' \in [Meeting -> Lane \cup {"no"}]
         /\ Single(fresh') /\ Single(backlog') /\ \A x \in Meeting : Queues(x)
         /\ running' = running \cup {m} /\ active' = active /\ backlogActive' = backlogActive
         /\ \A x \in Meeting : x # m => queued'[x] = queued[x]
         /\ m \notin running => queued'[m] = lane /\ active[m] = "no"
         /\ m \in running => /\ queued[m] # "no" <=> queued'[m] # "no"
                             /\ queued[m] = "fresh" => queued'[m] = "fresh"
<1>0. /\ running' = running \cup {m} /\ active' = active /\ backlogActive' = backlogActive
      /\ fresh \in Seq(Meeting) /\ backlog \in Seq(Meeting)
      /\ queued \in [Meeting -> Lane \cup {"no"}]
      /\ Single(fresh) /\ Single(backlog)
      /\ \A x \in Meeting : /\ queued[x] = "fresh" <=> Has(fresh, x)
                            /\ queued[x] = "backlog" <=> Has(backlog, x)
  BY DEF Enqueue, LaneTypes, LaneInv
<1>1. CASE m \notin running
  <2>0. queued[m] = "no" /\ active[m] = "no" /\ ~Has(fresh, m) /\ ~Has(backlog, m)
    BY <1>0, <1>1 DEF LaneInv
  <2>1. queued' = [queued EXCEPT ![m] = lane]
    BY <1>1 DEF Enqueue
  <2>2. CASE lane = "fresh"
    <3>1. fresh' = Append(fresh, m) /\ backlog' = backlog
      BY <1>1, <2>0, <2>2 DEF Enqueue
    <3>2. /\ fresh' \in Seq(Meeting) /\ Single(fresh')
          /\ \A x : Has(fresh', x) <=> Has(fresh, x) \/ x = m
      BY <1>0, <2>0, <3>1, AppendSingle
    <3> QED
      BY <1>0, <1>1, <2>0, <2>1, <2>2, <3>1, <3>2 DEF Queues, Lane
  <2>3. CASE lane = "backlog"
    <3>1. backlog' = Append(backlog, m) /\ fresh' = fresh
      BY <1>1, <2>0, <2>3 DEF Enqueue
    <3>2. /\ backlog' \in Seq(Meeting) /\ Single(backlog')
          /\ \A x : Has(backlog', x) <=> Has(backlog, x) \/ x = m
      BY <1>0, <2>0, <3>1, AppendSingle
    <3> QED
      BY <1>0, <1>1, <2>0, <2>1, <2>3, <3>1, <3>2 DEF Queues, Lane
  <2> QED
    BY <2>2, <2>3 DEF Lane
<1>2. CASE m \in running /\ lane = "fresh" /\ queued[m] = "backlog"
  <2>0. ~Has(fresh, m) /\ Has(backlog, m)
    BY <1>0, <1>2
  <2>1. /\ queued' = [queued EXCEPT ![m] = "fresh"]
        /\ fresh' = Append(fresh, m) /\ backlog' = Removed(backlog, m)
    BY <1>2 DEF Enqueue
  <2>2. /\ fresh' \in Seq(Meeting) /\ Single(fresh')
        /\ \A x : Has(fresh', x) <=> Has(fresh, x) \/ x = m
    BY <1>0, <2>0, <2>1, AppendSingle
  <2>3. /\ backlog' \in Seq(Meeting) /\ Single(backlog')
        /\ \A x : Has(backlog', x) <=> Has(backlog, x) /\ x # m
    BY <1>0, <2>0, <2>1, RemovedSingle
  <2> QED
    BY <1>0, <1>2, <2>1, <2>2, <2>3 DEF Queues, Lane
<1>3. CASE m \in running /\ ~(lane = "fresh" /\ queued[m] = "backlog")
  <2>1. queued' = queued /\ fresh' = fresh /\ backlog' = backlog
    BY <1>3 DEF Enqueue
  <2> QED
    BY <1>0, <1>3, <2>1 DEF Queues
<1> QED
  BY <1>1, <1>2, <1>3

\* What a signal does to the marks.
LEMMA EnqueueMarks ==
  ASSUME NEW m, NEW lane, NEW isRetry, Enqueue(m, lane, isRetry)
  PROVE  /\ again \subseteq again' /\ again' \subseteq again \cup {m}
         /\ retryActive \subseteq retryActive' /\ retryActive' \subseteq retryActive \cup {m}
         /\ retryQueued \subseteq retryQueued' /\ retryQueued' \subseteq retryQueued \cup {m}
         /\ again' # again => active[m] # "no"
         /\ retryActive' # retryActive => active[m] # "no"
         /\ retryQueued' # retryQueued => active[m] = "no"
         /\ lane = "fresh" /\ active[m] # "no" => m \in again'
         /\ isRetry => m \in retryQueued' \cup retryActive'
  BY DEF Enqueue

LEMMA EnqueueKept ==
  ASSUME TypeOK, LaneInv, JobInv, MarkInv, PoolInv, AimInv, LiveInv,
         NEW m \in Meeting, NEW lane \in Lane, NEW isRetry \in BOOLEAN,
         Enqueue(m, lane, isRetry), isRetry \/ lane = "fresh" \/ m \in Historic
  PROVE  /\ LaneTypes' /\ LaneInv' /\ JobInv' /\ MarkInv' /\ PoolInv' /\ FreshLaneOpen' /\ LiveInv'
         /\ worker' \in [Worker -> WorkRec] /\ workers' \in Nat /\ Grown(worker)
         /\ running' = running \cup {m} /\ again \subseteq again'
         /\ lane = "fresh" /\ active[m] # "no" => m \in again'
<1>0. LaneTypes /\ worker \in [Worker -> WorkRec]
  BY Typed
<1>1. /\ worker' \in [Worker -> WorkRec] /\ workers' \in Nat /\ PoolInv' /\ Grown(worker)
      /\ fresh' # <<>> => workers' = 2
  BY <1>0, Started DEF Enqueue
<1>2. SameJobs
  BY <1>1, GrownSame
<1>3. JobInv'
  BY <1>2, JobsKept DEF Enqueue
<1>4. FreshLaneOpen'
  <2>1. SerialWorker'
    BY <1>2, Serial DEF SerialWorker, SameJobs
  <2> QED
    BY <1>1, <2>1, LaneOpened
<1>5. /\ fresh' \in Seq(Meeting) /\ backlog' \in Seq(Meeting)
      /\ queued' \in [Meeting -> Lane \cup {"no"}]
      /\ Single(fresh') /\ Single(backlog') /\ \A x \in Meeting : Queues(x)
      /\ running' = running \cup {m} /\ active' = active /\ backlogActive' = backlogActive
      /\ \A x \in Meeting : x # m => queued'[x] = queued[x]
      /\ m \notin running => queued'[m] = lane /\ active[m] = "no"
      /\ m \in running => /\ queued[m] # "no" <=> queued'[m] # "no"
                          /\ queued[m] = "fresh" => queued'[m] = "fresh"
  BY <1>0, EnqueueLanes
<1>6. /\ again \subseteq again' /\ again' \subseteq again \cup {m}
      /\ retryActive \subseteq retryActive' /\ retryActive' \subseteq retryActive \cup {m}
      /\ retryQueued \subseteq retryQueued' /\ retryQueued' \subseteq retryQueued \cup {m}
      /\ again' # again => active[m] # "no"
      /\ retryActive' # retryActive => active[m] # "no"
      /\ retryQueued' # retryQueued => active[m] = "no"
      /\ lane = "fresh" /\ active[m] # "no" => m \in again'
      /\ isRetry => m \in retryQueued' \cup retryActive'
  BY EnqueueMarks
<1>7. LaneTypes'
  BY <1>0, <1>5, <1>6 DEF LaneTypes
<1>8. \A x \in Meeting : /\ x \in running <=> queued[x] # "no" \/ active[x] # "no"
                         /\ queued[x] = "no" \/ active[x] = "no"
  BY DEF LaneInv
<1>9. \A x \in Meeting : /\ x \in running' <=> queued'[x] # "no" \/ active'[x] # "no"
                         /\ queued'[x] = "no" \/ active'[x] = "no"
  BY <1>5, <1>8 DEF Lane
<1>10. LaneInv'
  BY <1>5, <1>9 DEF LaneInv, Queues
<1>11. MarkInv'
  <2>1. \A x \in retryQueued : x \in Meeting /\ queued[x] # "no"
    BY <1>0 DEF MarkInv, LaneTypes
  <2>2. ASSUME NEW x \in retryQueued' PROVE queued'[x] # "no"
    <3>1. CASE x = m
      BY <1>5, <1>6, <1>8, <1>9, <2>1, <2>2, <3>1
    <3>2. CASE x # m
      BY <1>5, <1>6, <2>1, <2>2, <3>2
    <3> QED
      BY <3>1, <3>2
  <2>3. \A x \in again' \cup retryActive' : active'[x] # "no"
    BY <1>5, <1>6 DEF MarkInv
  <2> QED
    BY <2>2, <2>3 DEF MarkInv
<1>12. LiveInv'
  <2>1. ASSUME NEW x \in running' \ Historic
        PROVE  queued'[x] = "fresh" \/ active'[x] = "fresh" \/ x \in retryQueued' \cup retryActive'
    <3>1. CASE x \in running
      <4>1. x \in Meeting
        BY <1>0, <3>1 DEF LaneTypes
      <4>2. queued[x] = "fresh" \/ active[x] = "fresh" \/ x \in retryQueued \cup retryActive
        BY <2>1, <3>1 DEF LiveInv
      <4>3. queued[x] = "fresh" => queued'[x] = "fresh"
        BY <1>5, <3>1, <4>1
      <4> QED
        BY <1>5, <1>6, <4>2, <4>3
    <3>2. CASE x \notin running
      BY <1>5, <1>6, <2>1, <3>2
    <3> QED
      BY <3>1, <3>2
  <2> QED
    BY <2>1 DEF LiveInv
<1> QED
  BY <1>1, <1>3, <1>4, <1>5, <1>6, <1>7, <1>10, <1>11, <1>12

-----------------------------------------------------------------------------
(* Taking and finishing jobs.                                               *)

LanesAndJobs == LaneTypes /\ LaneInv /\ JobInv /\ MarkInv /\ PoolInv /\ FreshLaneOpen /\ LiveInv

\* A job taken from a lane is nobody's yet.
LEMMA Takes ==
  ASSUME TypeOK, LaneInv, JobInv, PoolInv, NEW w \in Worker, worker[w].pc = "look",
         NEW m \in Meeting, NEW lane \in Lane, queued[m] = lane,
         lane = "backlog" => ~backlogActive,
         worker' = [worker EXCEPT ![w] = [NoWork EXCEPT !.pc = "run", !.m = m, !.lane = lane]],
         active' = [active EXCEPT ![m] = lane],
         backlogActive' = (backlogActive \/ lane = "backlog"), workers' = workers
  PROVE  /\ worker' \in [Worker -> WorkRec] /\ workers' \in Nat
         /\ JobInv' /\ PoolInv' /\ active[m] = "no"
         /\ Busy(w)' /\ worker'[w].m = m /\ worker'[w].lane = lane
         /\ \A v \in Worker : worker'[v] = worker[v] \/ (worker'[v].pc = "run" /\ worker'[v].m = m)
<1>0. /\ worker \in [Worker -> WorkRec] /\ workers \in Nat
      /\ active \in [Meeting -> Lane \cup {"no"}] /\ backlogActive \in BOOLEAN
  BY Typed DEF LaneTypes
<1>1. active[m] = "no" /\ lane # "no"
  BY DEF LaneInv, Lane
<1>2. /\ worker' \in [Worker -> WorkRec]
      /\ worker'[w].pc = "run" /\ worker'[w].m = m /\ worker'[w].lane = lane
      /\ \A v \in Worker : v # w => worker'[v] = worker[v]
  <2> DEFINE y == [NoWork EXCEPT !.pc = "run", !.m = m, !.lane = lane]
  <2>1. y \in WorkRec /\ y.pc = "run" /\ y.m = m /\ y.lane = lane
    BY DEF NoWork, WorkRec, WorkPcs, Lane
  <2>2. worker' = [worker EXCEPT ![w] = y]
    OBVIOUS
  <2> HIDE DEF y
  <2> QED
    BY <1>0, <2>1, <2>2
<1>3. /\ Busy(w)' /\ ~Busy(w)
      /\ \A v \in Worker : v # w => (Busy(v)' <=> Busy(v))
  BY <1>2 DEF Busy
<1>4. /\ active'[m] = lane /\ \A x \in Meeting : x # m => active'[x] = active[x]
  BY <1>0
<1>5. \A v \in Worker : Busy(v) => worker[v].m # m
  <2>1. \A v \in Worker : worker[v].lane # "no"
    BY <1>0, WorkFields DEF Lane
  <2> QED
    BY <1>1, <2>1 DEF JobInv
<1>6. PoolInv'
  <2>1. Alive' = Alive
    BY <1>2 DEF Alive
  <2> QED
    BY <2>1 DEF PoolInv
<1>7. JobInv'
  <2>1. ASSUME NEW v \in Worker, Busy(v)' PROVE active'[worker'[v].m] = worker'[v].lane
    <3>1. CASE v = w
      BY <1>2, <1>4, <3>1
    <3>2. CASE v # w
      <4>1. Busy(v) /\ worker'[v] = worker[v] /\ worker[v].m # m
        BY <1>2, <1>3, <1>5, <2>1, <3>2
      <4>2. active[worker[v].m] = worker[v].lane
        BY <4>1 DEF JobInv
      <4> QED
        BY <1>0, <4>1, <4>2
    <3> QED
      BY <3>1, <3>2
  <2>2. ASSUME NEW u \in Worker, NEW v \in Worker, Busy(u)', Busy(v)', worker'[u].m = worker'[v].m
        PROVE  u = v
    BY <1>2, <1>3, <1>5, <2>2 DEF JobInv
  <2>3. ASSUME NEW x \in Meeting, active'[x] # "no" PROVE \E v \in Worker : Busy(v)' /\ worker'[v].m = x
    <3>1. CASE x = m
      BY <1>2, <1>3, <3>1
    <3>2. CASE x # m
      <4>1. PICK v \in Worker : Busy(v) /\ worker[v].m = x
        BY <1>4, <2>3, <3>2 DEF JobInv
      <4>2. v # w
        BY <1>3, <4>1
      <4> QED
        BY <1>2, <1>3, <4>1, <4>2
    <3> QED
      BY <3>1, <3>2
  <2>4. \A x, y \in Meeting : active'[x] = "backlog" /\ active'[y] = "backlog" => x = y
    BY <1>0, <1>4 DEF JobInv
  <2>5. backlogActive' <=> \E x \in Meeting : active'[x] = "backlog"
    <3>1. backlogActive <=> \E x \in Meeting : active[x] = "backlog"
      BY DEF JobInv
    <3> QED
      BY <1>1, <1>4, <3>1
  <2> QED
    BY <2>1, <2>2, <2>3, <2>4, <2>5 DEF JobInv
<1> QED
  BY <1>0, <1>1, <1>2, <1>3, <1>6, <1>7

LEMMA TakeFreshKept ==
  ASSUME TypeOK, LanesAndJobs, NEW w \in Worker, TakeFresh(w)
  PROVE  /\ LanesAndJobs' /\ worker' \in [Worker -> WorkRec] /\ workers' \in Nat
         /\ \A v \in Worker : worker'[v] = worker[v]
                              \/ (worker'[v].pc = "run" /\ worker'[v].m \in running)
<1> DEFINE m == Head(fresh)
<1>0. /\ LaneTypes /\ LaneInv /\ JobInv /\ MarkInv /\ PoolInv /\ LiveInv
      /\ fresh \in Seq(Meeting) /\ fresh # <<>> /\ Single(fresh) /\ Single(backlog)
  BY DEF LanesAndJobs, LaneTypes, LaneInv, TakeFresh
<1>1. /\ m \in Meeting /\ Has(fresh, m) /\ fresh' = Tail(fresh)
      /\ fresh' \in Seq(Meeting) /\ Single(fresh')
      /\ \A x : Has(fresh', x) <=> Has(fresh, x) /\ x # m
  BY <1>0, TailSingle DEF TakeFresh
<1>2. /\ worker[w].pc = "look" /\ queued[m] = "fresh"
      /\ queued' = [queued EXCEPT ![m] = "no"] /\ active' = [active EXCEPT ![m] = "fresh"]
      /\ retryQueued' = retryQueued \ {m}
      /\ worker' = [worker EXCEPT ![w] = [NoWork EXCEPT !.pc = "run", !.m = m, !.lane = "fresh"]]
      /\ UNCHANGED <<backlog, running, again, retryActive, backlogActive, workers>>
  BY <1>0, <1>1 DEF TakeFresh, LaneInv
<1> HIDE DEF m
<1>3. /\ worker' \in [Worker -> WorkRec] /\ workers' \in Nat
      /\ JobInv' /\ PoolInv' /\ active[m] = "no"
      /\ Busy(w)' /\ worker'[w].m = m /\ worker'[w].lane = "fresh"
      /\ \A v \in Worker : worker'[v] = worker[v] \/ (worker'[v].pc = "run" /\ worker'[v].m = m)
  BY <1>0, <1>1, <1>2, Takes DEF Lane, LaneTypes
<1>4. \A x \in Meeting : /\ x = m => queued'[x] = "no" /\ active'[x] = "fresh"
                         /\ x # m => queued'[x] = queued[x] /\ active'[x] = active[x]
  BY <1>0, <1>1, <1>2 DEF LaneTypes
<1>5. LaneTypes'
  BY <1>0, <1>1, <1>2 DEF LaneTypes, Lane
<1>6. LaneInv'
  <2>1. ~Has(backlog, m)
    BY <1>0, <1>1, <1>2 DEF LaneInv
  <2> QED
    BY <1>0, <1>1, <1>2, <1>4, <2>1 DEF LaneInv
<1>7. MarkInv'
  BY <1>0, <1>2, <1>4 DEF MarkInv, LaneTypes
<1>8. LiveInv'
  BY <1>0, <1>2, <1>4 DEF LiveInv, LaneTypes
<1>9. FreshLaneOpen'
  BY <1>3 DEF FreshLaneOpen, Busy
<1>10. m \in running
  BY <1>0, <1>1, <1>2 DEF LaneInv
<1> QED
  BY <1>3, <1>5, <1>6, <1>7, <1>8, <1>9, <1>10 DEF LanesAndJobs

LEMMA TakeBacklogKept ==
  ASSUME TypeOK, LanesAndJobs, NEW w \in Worker, TakeBacklog(w)
  PROVE  /\ LanesAndJobs' /\ worker' \in [Worker -> WorkRec] /\ workers' \in Nat
         /\ \A v \in Worker : worker'[v] = worker[v]
                              \/ (worker'[v].pc = "run" /\ worker'[v].m \in running)
<1> DEFINE m == Head(backlog)
<1>0. /\ LaneTypes /\ LaneInv /\ JobInv /\ MarkInv /\ PoolInv /\ LiveInv
      /\ backlog \in Seq(Meeting) /\ backlog # <<>> /\ Single(fresh) /\ Single(backlog)
      /\ fresh' = <<>>
  BY DEF LanesAndJobs, LaneTypes, LaneInv, TakeBacklog
<1>1. /\ m \in Meeting /\ Has(backlog, m) /\ backlog' = Tail(backlog)
      /\ backlog' \in Seq(Meeting) /\ Single(backlog')
      /\ \A x : Has(backlog', x) <=> Has(backlog, x) /\ x # m
  BY <1>0, TailSingle DEF TakeBacklog
<1>2. /\ worker[w].pc = "look" /\ queued[m] = "backlog" /\ ~backlogActive /\ backlogActive' = TRUE
      /\ queued' = [queued EXCEPT ![m] = "no"] /\ active' = [active EXCEPT ![m] = "backlog"]
      /\ retryQueued' = retryQueued \ {m}
      /\ retryActive' = IF m \in retryQueued THEN retryActive \cup {m} ELSE retryActive
      /\ worker' = [worker EXCEPT ![w] = [NoWork EXCEPT !.pc = "run", !.m = m, !.lane = "backlog"]]
      /\ UNCHANGED <<fresh, running, again, workers>>
  BY <1>0, <1>1 DEF TakeBacklog, LaneInv
<1> HIDE DEF m
<1>3. /\ worker' \in [Worker -> WorkRec] /\ workers' \in Nat
      /\ JobInv' /\ PoolInv' /\ active[m] = "no"
      /\ \A v \in Worker : worker'[v] = worker[v] \/ (worker'[v].pc = "run" /\ worker'[v].m = m)
  BY <1>0, <1>1, <1>2, Takes DEF Lane, LaneTypes
<1>4. \A x \in Meeting : /\ x = m => queued'[x] = "no" /\ active'[x] = "backlog"
                         /\ x # m => queued'[x] = queued[x] /\ active'[x] = active[x]
  BY <1>0, <1>1, <1>2 DEF LaneTypes
<1>5. LaneTypes'
  BY <1>0, <1>1, <1>2 DEF LaneTypes, Lane
<1>6. LaneInv'
  <2>1. ~Has(fresh, m)
    BY <1>0, <1>1, <1>2 DEF LaneInv
  <2> QED
    BY <1>0, <1>1, <1>2, <1>4, <2>1 DEF LaneInv
<1>7. MarkInv'
  BY <1>0, <1>1, <1>2, <1>4 DEF MarkInv, LaneTypes
<1>8. LiveInv'
  BY <1>0, <1>2, <1>4 DEF LiveInv, LaneTypes, LaneInv
<1>9. FreshLaneOpen'
  BY <1>0 DEF FreshLaneOpen
<1>10. m \in running
  BY <1>0, <1>1, <1>2 DEF LaneInv
<1> QED
  BY <1>3, <1>5, <1>6, <1>7, <1>8, <1>9, <1>10 DEF LanesAndJobs

LEMMA LeaveKept ==
  ASSUME TypeOK, LanesAndJobs, NEW w \in Worker, Leave(w)
  PROVE  /\ LanesAndJobs' /\ worker' \in [Worker -> WorkRec] /\ workers' \in Nat
         /\ \A v \in Worker : worker'[v] = worker[v] \/ worker'[v].pc = "off"
<1>0. /\ LaneTypes /\ LaneInv /\ JobInv /\ MarkInv /\ PoolInv /\ LiveInv
      /\ UNCHANGED <<laneVars, doneVars>> /\ fresh = <<>>
      /\ worker \in [Worker -> WorkRec]
  BY Typed DEF LanesAndJobs, Leave
<1>1. /\ worker' \in [Worker -> WorkRec]
      /\ worker'[w].pc = "off" /\ \A v \in Worker : v # w => worker'[v] = worker[v]
  BY <1>0, NewWork DEF Leave
<1>2. SameJobs
  BY <1>0, <1>1 DEF SameJobs, Busy, Leave
<1>3. JobInv'
  BY <1>0, <1>2, JobsKept DEF doneVars
<1>4. PoolInv' /\ workers' \in Nat
  <2>1. Alive' = Alive \ {w} /\ w \in Alive
    BY <1>1 DEF Alive, Leave
  <2>2. Cardinality(Alive') = Cardinality(Alive) - 1
    BY <2>1, AliveFinite, FS_RemoveElement
  <2>3. Cardinality(Alive) \in Nat /\ Cardinality(Alive) # 0
    BY <2>1, AliveFinite, FS_EmptySet
  <2> QED
    BY <1>0, <2>2, <2>3 DEF PoolInv, Leave
<1>5. LaneTypes' /\ LaneInv' /\ MarkInv' /\ LiveInv' /\ FreshLaneOpen'
  BY <1>0 DEF LaneTypes, LaneInv, MarkInv, LiveInv, FreshLaneOpen, laneVars, doneVars
<1> QED
  BY <1>1, <1>3, <1>4, <1>5 DEF LanesAndJobs

LEMMA FinishKept ==
  ASSUME TypeOK, LanesAndJobs, AimInv, NEW w \in Worker, Finish(w)
  PROVE  /\ LanesAndJobs' /\ worker' \in [Worker -> WorkRec] /\ workers' \in Nat
         /\ worker[w].m \in running
         /\ \A v \in Worker : \/ v # w /\ worker'[v] = worker[v]
                              \/ worker'[v].pc \in {"off", "look"}
                              \/ v = w /\ worker'[v].pc = "retry" /\ worker'[v].m = worker[w].m
<1> DEFINE m == worker[w].m
           pc == IF worker[w].err THEN "retry" ELSE "look"
           pool == [worker EXCEPT ![w].pc = pc]
<1>0. /\ LaneTypes /\ LaneInv /\ JobInv /\ MarkInv /\ PoolInv /\ LiveInv
      /\ worker \in [Worker -> WorkRec]
      /\ fresh \in Seq(Meeting) /\ Single(fresh) /\ Single(backlog)
      /\ active \in [Meeting -> Lane \cup {"no"}] /\ queued \in [Meeting -> Lane \cup {"no"}]
  BY Typed DEF LanesAndJobs, LaneTypes, LaneInv
<1>1. worker[w].pc = "finish" /\ Busy(w) /\ m \in Meeting
  BY DEF Finish, Busy, AimInv
<1>2. worker[w].lane \in Lane /\ worker[w].lane # "no" /\ active[m] = worker[w].lane
  <2>1. worker[w].lane \in Lane /\ worker[w].lane # "no"
    BY <1>0, WorkFields DEF Lane
  <2> QED
    BY <1>0, <1>1, <2>1 DEF JobInv
<1>3. m \in running /\ queued[m] = "no" /\ ~Has(fresh, m) /\ ~Has(backlog, m)
  BY <1>0, <1>1, <1>2 DEF LaneInv, Lane
<1>4. /\ pool \in [Worker -> WorkRec] /\ pool[w].pc = pc /\ pool[w].m = m
      /\ \A v \in Worker : v # w => pool[v] = worker[v]
  <2>1. worker[w] \in WorkRec /\ pc \in WorkPcs
    BY <1>0 DEF WorkPcs
  <2> HIDE DEF pc, m
  <2>2. PICK y : y = [worker[w] EXCEPT !.pc = pc]
    OBVIOUS
  <2>3. y \in WorkRec /\ y.pc = pc /\ y.m = m
    BY <2>1, <2>2, WorkFields DEF m
  <2>4. pool = [worker EXCEPT ![w] = y]
    BY <2>2
  <2> QED
    BY <1>0, <2>3, <2>4
<1>5. /\ active' = [active EXCEPT ![m] = "no"]
      /\ retryActive' = retryActive \ {m} /\ again' = again \ {m}
      /\ backlogActive' = (backlogActive /\ worker[w].lane = "fresh")
      /\ running' = IF m \in again THEN running ELSE running \ {m}
      /\ fresh' = IF m \in again THEN Append(fresh, m) ELSE fresh
      /\ queued' = IF m \in again THEN [queued EXCEPT ![m] = "fresh"] ELSE queued
      /\ backlog' = backlog /\ retryQueued' = retryQueued
      /\ EnsureWorkers(pool)
  BY DEF Finish
<1>6. pc \in {"retry", "look"}
  OBVIOUS
<1> HIDE DEF m, pc, pool
<1>7. /\ worker' \in [Worker -> WorkRec] /\ workers' \in Nat /\ PoolInv' /\ Grown(pool)
      /\ fresh' # <<>> => workers' = 2
  <2>1. \A v \in Worker : pool[v].pc = "off" <=> worker[v].pc = "off"
    BY <1>1, <1>4, <1>6
  <2> QED
    BY <1>0, <1>4, <1>5, <2>1, Started
<1>8. \A v \in Worker : \/ v # w /\ worker'[v] = worker[v]
                        \/ ~Busy(v) /\ worker'[v].pc = "look"
                        \/ v = w /\ worker'[v].pc \in {"retry", "look"} /\ worker'[v].m = m
  BY <1>4, <1>6, <1>7 DEF Grown, Busy
<1>9. \A v \in Worker : /\ Busy(v)' <=> Busy(v) /\ v # w
                        /\ Busy(v)' => worker'[v] = worker[v]
  BY <1>1, <1>8 DEF Busy
<1>10. \A x \in Meeting : /\ x = m => active'[x] = "no"
                          /\ x # m => active'[x] = active[x]
  BY <1>0, <1>1, <1>5
<1>11. JobInv'
  <2>1. ASSUME NEW v \in Worker, Busy(v)' PROVE active'[worker'[v].m] = worker'[v].lane
    <3>1. Busy(v) /\ v # w /\ worker'[v] = worker[v]
      BY <1>9, <2>1
    <3>2. worker[v].m # m
      BY <1>0, <1>1, <3>1 DEF JobInv, m
    <3>3. active[worker[v].m] = worker[v].lane
      BY <1>0, <3>1 DEF JobInv
    <3> QED
      BY <1>0, <1>5, <3>1, <3>2, <3>3
  <2>2. ASSUME NEW u \in Worker, NEW v \in Worker, Busy(u)', Busy(v)', worker'[u].m = worker'[v].m
        PROVE  u = v
    BY <1>0, <1>9, <2>2 DEF JobInv
  <2>3. ASSUME NEW x \in Meeting, active'[x] # "no" PROVE \E v \in Worker : Busy(v)' /\ worker'[v].m = x
    <3>1. x # m /\ active[x] # "no"
      BY <1>10, <2>3
    <3>2. PICK v \in Worker : Busy(v) /\ worker[v].m = x
      BY <1>0, <3>1 DEF JobInv
    <3>3. v # w
      BY <3>1, <3>2 DEF m
    <3> QED
      BY <1>9, <3>2, <3>3
  <2>4. \A x, y \in Meeting : active'[x] = "backlog" /\ active'[y] = "backlog" => x = y
    BY <1>0, <1>10 DEF JobInv
  <2>5. backlogActive' <=> \E x \in Meeting : active'[x] = "backlog"
    <3>1. /\ backlogActive <=> \E x \in Meeting : active[x] = "backlog"
          /\ \A x, y \in Meeting : active[x] = "backlog" /\ active[y] = "backlog" => x = y
      BY <1>0 DEF JobInv
    <3>2. CASE worker[w].lane = "fresh"
      BY <1>1, <1>2, <1>5, <1>10, <3>1, <3>2
    <3>3. CASE worker[w].lane = "backlog"
      <4>1. ~backlogActive'
        BY <1>5, <3>3
      <4>2. \A x \in Meeting : active'[x] # "backlog"
        BY <1>1, <1>2, <1>10, <3>1, <3>3
      <4> QED
        BY <4>1, <4>2
    <3> QED
      BY <1>2, <3>2, <3>3 DEF Lane
  <2> QED
    BY <2>1, <2>2, <2>3, <2>4, <2>5 DEF JobInv
<1>12. /\ fresh' \in Seq(Meeting) /\ Single(fresh')
       /\ \A x : Has(fresh', x) <=> Has(fresh, x) \/ (x = m /\ m \in again)
  BY <1>0, <1>1, <1>3, <1>5, AppendSingle
<1>13. /\ queued' \in [Meeting -> Lane \cup {"no"}]
       /\ queued'[m] = IF m \in again THEN "fresh" ELSE "no"
       /\ \A x \in Meeting : x # m => queued'[x] = queued[x]
  BY <1>0, <1>1, <1>3, <1>5 DEF Lane
<1>14. LaneTypes'
  BY <1>0, <1>1, <1>5, <1>12, <1>13 DEF LaneTypes
<1>15. LaneInv'
  <2>1. ASSUME NEW x \in Meeting
        PROVE  /\ queued'[x] = "fresh" <=> Has(fresh', x)
               /\ queued'[x] = "backlog" <=> Has(backlog', x)
               /\ x \in running' <=> queued'[x] # "no" \/ active'[x] # "no"
               /\ queued'[x] = "no" \/ active'[x] = "no"
    <3>1. CASE x = m
      BY <1>3, <1>5, <1>10, <1>12, <1>13, <3>1
    <3>2. CASE x # m
      BY <1>0, <1>5, <1>10, <1>12, <1>13, <3>2 DEF LaneInv
    <3> QED
      BY <3>1, <3>2
  <2> QED
    BY <1>0, <1>5, <1>12, <2>1 DEF LaneInv
<1>16. MarkInv'
  BY <1>0, <1>3, <1>5, <1>10, <1>13 DEF MarkInv, LaneTypes
<1>17. LiveInv'
  BY <1>0, <1>5, <1>10, <1>13 DEF LiveInv, LaneTypes
<1>18. FreshLaneOpen'
  <2>1. SerialWorker
    BY <1>0, Serial
  <2>2. SerialWorker'
    BY <1>9, <2>1 DEF SerialWorker
  <2> QED
    BY <1>7, <2>2, LaneOpened
<1>19. LanesAndJobs'
  BY <1>7, <1>11, <1>14, <1>15, <1>16, <1>17, <1>18 DEF LanesAndJobs
<1> QED
  BY <1>1, <1>3, <1>7, <1>8, <1>19 DEF m

-----------------------------------------------------------------------------
(* Timers and receipts.                                                     *)

TimerTypes == timer \in [Meeting -> Timer \cup {"none"}] /\ object \in [Timer -> ObjectRec]

LEMMA StoppedObjects ==
  ASSUME object \in [Timer -> ObjectRec], NEW ts
  PROVE  /\ Stopped(object, ts) \in [Timer -> ObjectRec]
         /\ \A t \in Timer : LET o == Stopped(object, ts)[t]
                             IN  /\ o.at # "off" => o = object[t]
                                 /\ o.at = "armed" => t \notin ts
  BY NewObject DEF Stopped

LEMMA CancelTimerKept ==
  ASSUME TypeOK, AimInv, ArmedIsListed, NEW m \in Meeting, CancelTimer(m), stopped' = stopped
  PROVE  /\ TimerTypes' /\ ArmedIsListed'
         /\ \A t \in Timer : object'[t].at # "off" => object'[t] = object[t]
<1>0. TimerTypes
  BY Typed DEF TimerTypes
<1>1. /\ object' \in [Timer -> ObjectRec]
      /\ \A t \in Timer : /\ object'[t].at # "off" => object'[t] = object[t]
                          /\ object'[t].at = "armed" => t # timer[m]
  BY <1>0, StoppedObjects DEF TimerTypes, CancelTimer
<1>2. timer' \in [Meeting -> Timer \cup {"none"}] /\ timer' = [timer EXCEPT ![m] = "none"]
  BY <1>0 DEF TimerTypes, CancelTimer
<1>3. ASSUME NEW t \in Timer, object'[t].at = "armed"
      PROVE  ~stopped' /\ timer'[object'[t].m] = t
  <2>1. object'[t] = object[t] /\ object[t].at = "armed" /\ t # timer[m]
    BY <1>1, <1>3
  <2>2. object[t].m \in Meeting /\ ~stopped /\ timer[object[t].m] = t
    BY <2>1 DEF AimInv, ArmedIsListed
  <2> QED
    BY <1>0, <1>2, <2>1, <2>2 DEF TimerTypes
<1> QED
  BY <1>1, <1>2, <1>3 DEF TimerTypes, ArmedIsListed

LEMMA InstallKept ==
  ASSUME TypeOK, AimInv, ArmedIsListed, NEW m \in Meeting, NEW f \in BOOLEAN, Install(m, f),
         ~stopped, stopped' = stopped
  PROVE  /\ TimerTypes' /\ ArmedIsListed'
         /\ \A t \in Timer : object'[t].at # "off" => object'[t] = object[t] \/ object'[t].m = m
<1>0. TimerTypes
  BY Typed DEF TimerTypes
<1>1. PICK t \in Timer :
        /\ timer' = [timer EXCEPT ![m] = t]
        /\ object' = [Stopped(object, {timer[m]}) EXCEPT ![t] = [at |-> "armed", m |-> m, fits |-> f]]
  BY DEF Install
<1> DEFINE o == [at |-> "armed", m |-> m, fits |-> f]
           rest == Stopped(object, {timer[m]})
<1>2. o \in ObjectRec /\ o.at = "armed" /\ o.m = m
  BY NewObject
<1>3. /\ rest \in [Timer -> ObjectRec]
      /\ \A u \in Timer : /\ rest[u].at # "off" => rest[u] = object[u]
                          /\ rest[u].at = "armed" => u # timer[m]
  BY <1>0, StoppedObjects DEF TimerTypes
<1>4. object' = [rest EXCEPT ![t] = o]
  BY <1>1
<1> HIDE DEF o, rest
<1>5. /\ object' \in [Timer -> ObjectRec] /\ object'[t] = o
      /\ \A u \in Timer : u # t => object'[u] = rest[u]
  BY <1>2, <1>3, <1>4
<1>6. timer' \in [Meeting -> Timer \cup {"none"}]
  BY <1>0, <1>1 DEF TimerTypes
<1>7. ASSUME NEW u \in Timer, object'[u].at = "armed"
      PROVE  ~stopped' /\ timer'[object'[u].m] = u
  <2>1. CASE u = t
    BY <1>0, <1>1, <1>2, <1>5, <2>1 DEF TimerTypes
  <2>2. CASE u # t
    <3>1. object'[u] = object[u] /\ object[u].at = "armed" /\ u # timer[m]
      BY <1>3, <1>5, <1>7, <2>2
    <3>2. object[u].m \in Meeting /\ ~stopped /\ timer[object[u].m] = u
      BY <3>1 DEF AimInv, ArmedIsListed
    <3> QED
      BY <1>0, <1>1, <3>1, <3>2 DEF TimerTypes
  <2> QED
    BY <2>1, <2>2
<1>8. \A u \in Timer : object'[u].at # "off" => object'[u] = object[u] \/ object'[u].m = m
  BY <1>2, <1>3, <1>5
<1> QED
  BY <1>5, <1>6, <1>7, <1>8 DEF TimerTypes, ArmedIsListed

\* One callback goes on: it is no longer armed.
LEMMA CallbackKept ==
  ASSUME TypeOK, AimInv, ArmedIsListed, NEW t \in Timer, NEW o \in ObjectRec,
         object' = [object EXCEPT ![t] = o], o.at # "armed", stopped' = stopped,
         o.at # "off" => object[t].at # "off" /\ o.m = object[t].m,
         \/ timer' = timer
         \/ /\ object[t].m \in Meeting /\ timer[object[t].m] = t
            /\ timer' = [timer EXCEPT ![object[t].m] = "none"]
  PROVE  /\ TimerTypes' /\ ArmedIsListed'
         /\ \A u \in Timer : object'[u].at # "off" => object[u].at # "off" /\ object'[u].m = object[u].m
<1>0. TimerTypes
  BY Typed DEF TimerTypes
<1>1. /\ object' \in [Timer -> ObjectRec] /\ object'[t] = o
      /\ \A u \in Timer : u # t => object'[u] = object[u]
  BY <1>0 DEF TimerTypes
<1>2. timer' \in [Meeting -> Timer \cup {"none"}]
  BY <1>0 DEF TimerTypes
<1>3. ASSUME NEW u \in Timer, object'[u].at = "armed"
      PROVE  ~stopped' /\ timer'[object'[u].m] = u
  <2>1. u # t /\ object'[u] = object[u]
    BY <1>1, <1>3
  <2>2. object[u].m \in Meeting /\ ~stopped /\ timer[object[u].m] = u
    BY <1>3, <2>1 DEF AimInv, ArmedIsListed
  <2> QED
    BY <1>0, <2>1, <2>2 DEF TimerTypes
<1> QED
  BY <1>1, <1>2, <1>3 DEF TimerTypes, ArmedIsListed

LEMMA WriteReceiptKept ==
  ASSUME TypeOK, ArmedIsListed, NEW m \in Meeting, NEW state \in ReceiptState,
         NEW pool \in [Worker -> WorkRec], WriteReceipt(m, state, pool),
         UNCHANGED <<timer, stopped>>
  PROVE  /\ receipt' \in [Meeting -> ReceiptState] /\ receipt'[m] = state
         /\ \A x \in Meeting : x # m => receipt'[x] = receipt[x]
         /\ TimerTypes' /\ ArmedIsListed'
         /\ \A t \in Timer : object'[t].at = object[t].at /\ object'[t].m = object[t].m
         /\ worker' \in [Worker -> WorkRec]
         /\ \A w \in Worker : /\ worker'[w].pc = pool[w].pc /\ worker'[w].m = pool[w].m
                              /\ worker'[w].lane = pool[w].lane
<1>0. TimerTypes /\ receipt \in [Meeting -> ReceiptState]
  BY Typed DEF TimerTypes
<1>1. /\ receipt' \in [Meeting -> ReceiptState] /\ receipt'[m] = state
      /\ \A x \in Meeting : x # m => receipt'[x] = receipt[x]
  BY <1>0 DEF WriteReceipt
<1>2. ASSUME NEW t \in Timer
      PROVE  object'[t] \in ObjectRec /\ object'[t].at = object[t].at /\ object'[t].m = object[t].m
  <2>1. object[t] \in ObjectRec
    BY <1>0 DEF TimerTypes
  <2>2. object'[t] = object[t] \/ object'[t] = [object[t] EXCEPT !.fits = FALSE]
    BY DEF WriteReceipt
  <2> QED
    BY <2>1, <2>2, ObjectFields
<1>3. ASSUME NEW w \in Worker
      PROVE  /\ worker'[w] \in WorkRec /\ worker'[w].pc = pool[w].pc
             /\ worker'[w].m = pool[w].m /\ worker'[w].lane = pool[w].lane
  <2>1. worker'[w] = pool[w] \/ worker'[w] = [pool[w] EXCEPT !.fits = FALSE]
    BY DEF WriteReceipt
  <2>2. PICK x \in WorkRec : x = pool[w]
    OBVIOUS
  <2>3. PICK y : y = [x EXCEPT !.fits = FALSE]
    OBVIOUS
  <2>4. y \in WorkRec /\ y.pc = x.pc /\ y.m = x.m /\ y.lane = x.lane
    BY <2>3, WorkFields
  <2> QED
    BY <2>1, <2>2, <2>3, <2>4
<1>4. object' \in [Timer -> ObjectRec]
  <2>1. object' = [t \in Timer |-> object'[t]]
    BY DEF WriteReceipt
  <2> QED
    BY <1>2, <2>1
<1>5. worker' \in [Worker -> WorkRec]
  <2>1. worker' = [w \in Worker |-> worker'[w]]
    BY DEF WriteReceipt
  <2> QED
    BY <1>3, <2>1
<1>6. ArmedIsListed'
  BY <1>2 DEF ArmedIsListed
<1> QED
  BY <1>0, <1>1, <1>2, <1>3, <1>4, <1>5, <1>6 DEF TimerTypes

-----------------------------------------------------------------------------
(* Steps of workers.                                                        *)

Rest == AimInv /\ ArmedIsListed /\ BootInv /\ HookInv /\ SettleInv /\ ClosingIsQueued

Others ==
  /\ stopped \in BOOLEAN /\ receipt \in [Meeting -> ReceiptState] /\ phase \in [Meeting -> Phases]
  /\ hook \subseteq Meeting /\ boot \subseteq Historic /\ lates \in Nat /\ fails \in Nat

LEMMA Parts ==
  ASSUME IInv
  PROVE  /\ TypeOK /\ LanesAndJobs /\ Rest /\ TimerTypes /\ Others
         /\ worker \in [Worker -> WorkRec] /\ workers \in Nat
         /\ boot \subseteq Meeting /\ running \subseteq Meeting
  BY Typed, QueueConstants DEF IInv, LanesAndJobs, Rest, TimerTypes, Others, LaneTypes

LEMMA Assembled ==
  ASSUME LanesAndJobs', worker' \in [Worker -> WorkRec], workers' \in Nat,
         TimerTypes', Others', Rest'
  PROVE  IInv'
<1>1. TypeOK'
  BY TypedNext DEF LanesAndJobs, TimerTypes, Others
<1> QED
  BY <1>1 DEF IInv, LanesAndJobs, Rest

\* What one step may do to a worker.
Went(v) ==
  \/ /\ worker'[v] = worker[v]
     /\ worker[v].pc \in {"cancel", "finish"} /\ worker[v].m \in again => worker[v].m \in again'
  \/ worker'[v].pc \in {"off", "look"}
  \/ worker'[v].pc \in {"run", "retry", "arm"} /\ worker'[v].m \in Meeting \ boot
  \/ /\ worker'[v].pc \in {"cancel", "finish"} /\ worker'[v].m = worker[v].m
     /\ worker[v].pc \notin {"off", "look"}
     /\ \/ receipt[worker[v].m] # "closing"
        \/ worker[v].pc = "cancel" /\ again' = again

LEMMA WorkerStepKept ==
  ASSUME IInv, LanesAndJobs', worker' \in [Worker -> WorkRec], workers' \in Nat,
         UNCHANGED <<stopped, receipt, phase, hook, boot, bndVars>>,
         TimerTypes', ArmedIsListed',
         \A t \in Timer : object'[t].at # "off" => \/ object[t].at # "off" /\ object'[t].m = object[t].m
                                                   \/ object'[t].m \in Meeting \ boot,
         running' \subseteq running,
         \A x \in running \ running' : receipt[x] = "closing" => x \in hook \/ phase[x] = "ended",
         \A v \in Worker : Went(v)
  PROVE  IInv'
<1>0. /\ AimInv /\ BootInv /\ HookInv /\ SettleInv /\ ClosingIsQueued /\ Others
      /\ UNCHANGED <<stopped, receipt, phase, hook, boot, lates, fails>>
  BY Parts DEF Rest, bndVars
<1>1. AimInv'
  <2>1. ASSUME NEW v \in Worker, worker'[v].pc \notin {"off", "look"}
        PROVE  worker'[v].m \in Meeting \ boot'
    BY <1>0, <2>1 DEF Went, AimInv
  <2>2. ASSUME NEW t \in Timer, object'[t].at # "off" PROVE object'[t].m \in Meeting \ boot'
    BY <1>0, <2>2 DEF AimInv
  <2> QED
    BY <2>1, <2>2 DEF AimInv
<1>2. BootInv' /\ HookInv'
  BY <1>0 DEF BootInv, HookInv
<1>3. SettleInv'
  <2>1. ASSUME NEW v \in Worker, worker'[v].pc \in {"cancel", "finish"}, receipt'[worker'[v].m] = "closing"
        PROVE  worker'[v].m \in again' \cup hook' \/ phase'[worker'[v].m] = "ended"
    <3>1. worker'[v].m = worker[v].m /\ worker[v].pc \in {"cancel", "finish"}
          /\ (worker[v].m \in again => worker[v].m \in again')
      BY <1>0, <2>1 DEF Went
    <3> QED
      BY <1>0, <2>1, <3>1 DEF SettleInv
  <2> QED
    BY <2>1 DEF SettleInv
<1>4. ClosingIsQueued'
  BY <1>0 DEF ClosingIsQueued
<1>5. Others'
  BY <1>0 DEF Others
<1> QED
  BY <1>1, <1>2, <1>3, <1>4, <1>5, Assembled DEF Rest

LEMMA TakeFreshInv ==
  ASSUME IInv, NEW w \in Worker, TakeFresh(w) PROVE IInv'
<1>0. LanesAndJobs /\ Rest /\ TimerTypes /\ TypeOK /\ running \subseteq Meeting
  BY Parts
<1>1. /\ LanesAndJobs' /\ worker' \in [Worker -> WorkRec] /\ workers' \in Nat
      /\ \A v \in Worker : worker'[v] = worker[v]
                           \/ (worker'[v].pc = "run" /\ worker'[v].m \in running)
  BY <1>0, TakeFreshKept
<1>2. /\ UNCHANGED <<running, again, timer, object>>
      /\ UNCHANGED <<stopped, receipt, phase, hook, boot, bndVars>>
  BY DEF TakeFresh, timerVars
<1>3. TimerTypes' /\ ArmedIsListed'
  BY <1>0, <1>2 DEF TimerTypes, ArmedIsListed, Rest
<1>4. \A v \in Worker : Went(v)
  BY <1>0, <1>1, <1>2 DEF Went, Rest, BootInv
<1> QED
  BY <1>1, <1>2, <1>3, <1>4, WorkerStepKept

LEMMA TakeBacklogInv ==
  ASSUME IInv, NEW w \in Worker, TakeBacklog(w) PROVE IInv'
<1>0. LanesAndJobs /\ Rest /\ TimerTypes /\ TypeOK /\ running \subseteq Meeting
  BY Parts
<1>1. /\ LanesAndJobs' /\ worker' \in [Worker -> WorkRec] /\ workers' \in Nat
      /\ \A v \in Worker : worker'[v] = worker[v]
                           \/ (worker'[v].pc = "run" /\ worker'[v].m \in running)
  BY <1>0, TakeBacklogKept
<1>2. /\ UNCHANGED <<running, again, timer, object>>
      /\ UNCHANGED <<stopped, receipt, phase, hook, boot, bndVars>>
  BY DEF TakeBacklog, timerVars
<1>3. TimerTypes' /\ ArmedIsListed'
  BY <1>0, <1>2 DEF TimerTypes, ArmedIsListed, Rest
<1>4. \A v \in Worker : Went(v)
  BY <1>0, <1>1, <1>2 DEF Went, Rest, BootInv
<1> QED
  BY <1>1, <1>2, <1>3, <1>4, WorkerStepKept

LEMMA LeaveInv ==
  ASSUME IInv, NEW w \in Worker, Leave(w) PROVE IInv'
<1>0. LanesAndJobs /\ Rest /\ TimerTypes /\ TypeOK
  BY Parts
<1>1. /\ LanesAndJobs' /\ worker' \in [Worker -> WorkRec] /\ workers' \in Nat
      /\ \A v \in Worker : worker'[v] = worker[v] \/ worker'[v].pc = "off"
  BY <1>0, LeaveKept
<1>2. /\ UNCHANGED <<running, again, timer, object>>
      /\ UNCHANGED <<stopped, receipt, phase, hook, boot, bndVars>>
  BY DEF Leave, timerVars, laneVars
<1>3. TimerTypes' /\ ArmedIsListed'
  BY <1>0, <1>2 DEF TimerTypes, ArmedIsListed, Rest
<1>4. \A v \in Worker : Went(v)
  BY <1>1, <1>2 DEF Went
<1> QED
  BY <1>1, <1>2, <1>3, <1>4, WorkerStepKept

\* A receipt reopened under the run is not lost when its job ends.
LEMMA FinishInv ==
  ASSUME IInv, NEW w \in Worker, Finish(w) PROVE IInv'
<1> DEFINE m == worker[w].m
<1>0. LanesAndJobs /\ Rest /\ TimerTypes /\ TypeOK /\ running \subseteq Meeting /\ JobInv
  BY Parts DEF LanesAndJobs
<1>1. /\ LanesAndJobs' /\ worker' \in [Worker -> WorkRec] /\ workers' \in Nat
      /\ m \in running
      /\ \A v \in Worker : \/ v # w /\ worker'[v] = worker[v]
                           \/ worker'[v].pc \in {"off", "look"}
                           \/ v = w /\ worker'[v].pc = "retry" /\ worker'[v].m = m
  BY <1>0, FinishKept DEF Rest
<1>2. /\ UNCHANGED <<timer, object>> /\ UNCHANGED <<stopped, receipt, phase, hook, boot, bndVars>>
      /\ worker[w].pc = "finish" /\ Busy(w) /\ again' = again \ {m}
      /\ running' = IF m \in again THEN running ELSE running \ {m}
  BY DEF Finish, timerVars, Busy
<1>3. TimerTypes' /\ ArmedIsListed'
  BY <1>0, <1>2 DEF TimerTypes, ArmedIsListed, Rest
<1>4. \A v \in Worker : v # w /\ Busy(v) => worker[v].m # m
  BY <1>0, <1>2 DEF JobInv
<1>5. m \in Meeting \ boot
  BY <1>0, <1>1 DEF Rest, BootInv
<1> HIDE DEF m
<1>6. \A v \in Worker : Went(v)
  BY <1>1, <1>2, <1>4, <1>5 DEF Went, Busy
<1>7. \A x \in running \ running' : receipt[x] = "closing" => x \in hook \/ phase[x] = "ended"
  BY <1>0, <1>2 DEF Rest, SettleInv, m
<1>8. running' \subseteq running
  BY <1>2
<1> QED
  BY <1>1, <1>2, <1>3, <1>6, <1>7, <1>8, WorkerStepKept

\* One worker goes on, on or off its job as before.
LEMMA Onward ==
  ASSUME IInv, NEW w \in Worker, NEW y \in WorkRec, worker' = [worker EXCEPT ![w] = y],
         worker[w].pc # "off", y.pc # "off", y.pc \in BusyPcs <=> Busy(w),
         Busy(w) => y.m = worker[w].m /\ y.lane = worker[w].lane,
         UNCHANGED <<laneVars, doneVars, workers>>
  PROVE  /\ LanesAndJobs' /\ worker' \in [Worker -> WorkRec] /\ workers' \in Nat
         /\ worker'[w] = y /\ \A v \in Worker : v # w => worker'[v] = worker[v]
<1>0. LanesAndJobs /\ worker \in [Worker -> WorkRec] /\ workers \in Nat
  BY Parts
<1>1. /\ worker' \in [Worker -> WorkRec]
      /\ worker'[w] = y /\ \A v \in Worker : v # w => worker'[v] = worker[v]
  BY <1>0
<1>2. Steady
  BY <1>1 DEF Steady, SameJobs, Busy, BusyPcs
<1> QED
  BY <1>0, <1>1, <1>2, SteadyKept DEF LanesAndJobs

LEMMA RetryReadInv ==
  ASSUME IInv, NEW w \in Worker, RetryRead(w) PROVE IInv'
<1>0. Rest /\ TimerTypes /\ worker \in [Worker -> WorkRec]
  BY Parts
<1>1. worker[w].pc = "retry" /\ worker[w].m \in Meeting \ boot
  BY <1>0 DEF RetryRead, Rest, AimInv
<1>2. PICK y \in WorkRec : /\ worker' = [worker EXCEPT ![w] = y]
                           /\ y.pc = "look" \/ (y.pc = "arm" /\ y.m = worker[w].m)
  <2>1. CASE receipt[worker[w].m] = "degraded"
    <3>1. PICK x \in WorkRec : x = worker[w]
      BY <1>0
    <3>2. PICK y : y = [x EXCEPT !.pc = "arm", !.fits = TRUE]
      OBVIOUS
    <3>3. y \in WorkRec /\ y.pc = "arm" /\ y.m = x.m
      BY <3>2 DEF WorkRec, WorkPcs
    <3>4. worker' = [worker EXCEPT ![w] = y]
      BY <2>1, <3>1, <3>2 DEF RetryRead
    <3> QED
      BY <3>1, <3>3, <3>4
  <2>2. CASE receipt[worker[w].m] # "degraded"
    <3>1. PICK y : y = [NoWork EXCEPT !.pc = "look"]
      OBVIOUS
    <3>2. y \in WorkRec /\ y.pc = "look"
      BY <3>1, NewWork DEF WorkPcs
    <3>3. worker' = [worker EXCEPT ![w] = y]
      BY <2>2, <3>1 DEF RetryRead
    <3> QED
      BY <3>2, <3>3
  <2> QED
    BY <2>1, <2>2
<1>3. /\ UNCHANGED <<running, again, timer, object>>
      /\ UNCHANGED <<stopped, receipt, phase, hook, boot, bndVars>>
      /\ UNCHANGED <<laneVars, doneVars, workers>>
  BY DEF RetryRead, timerVars, laneVars
<1>4. /\ LanesAndJobs' /\ worker' \in [Worker -> WorkRec] /\ workers' \in Nat
      /\ worker'[w] = y /\ \A v \in Worker : v # w => worker'[v] = worker[v]
  <2>1. ~Busy(w) /\ y.pc \notin BusyPcs /\ y.pc # "off"
    BY <1>1, <1>2 DEF Busy, BusyPcs
  <2> QED
    BY <1>1, <1>2, <1>3, <2>1, Onward
<1>5. TimerTypes' /\ ArmedIsListed'
  BY <1>0, <1>3 DEF TimerTypes, ArmedIsListed, Rest
<1>6. \A v \in Worker : Went(v)
  BY <1>1, <1>2, <1>3, <1>4 DEF Went
<1> QED
  BY <1>3, <1>4, <1>5, <1>6, WorkerStepKept

LEMMA ArmInv ==
  ASSUME IInv, NEW w \in Worker, Arm(w) PROVE IInv'
<1>0. TypeOK /\ Rest /\ TimerTypes /\ worker \in [Worker -> WorkRec]
  BY Parts
<1>1. worker[w].pc = "arm" /\ worker[w].m \in Meeting \ boot
  BY <1>0 DEF Arm, Rest, AimInv
<1>2. PICK y \in WorkRec : worker' = [worker EXCEPT ![w] = y] /\ y.pc = "look"
  BY NewWork DEF Arm, WorkPcs
<1>3. /\ UNCHANGED <<running, again>>
      /\ UNCHANGED <<stopped, receipt, phase, hook, boot, bndVars>>
      /\ UNCHANGED <<laneVars, doneVars, workers>>
  BY DEF Arm, laneVars
<1>4. /\ LanesAndJobs' /\ worker' \in [Worker -> WorkRec] /\ workers' \in Nat
      /\ worker'[w] = y /\ \A v \in Worker : v # w => worker'[v] = worker[v]
  <2>1. ~Busy(w) /\ y.pc \notin BusyPcs /\ y.pc # "off"
    BY <1>1, <1>2 DEF Busy, BusyPcs
  <2> QED
    BY <1>1, <1>2, <1>3, <2>1, Onward
<1>5. /\ TimerTypes' /\ ArmedIsListed'
      /\ \A t \in Timer : object'[t].at # "off" => object'[t] = object[t] \/ object'[t].m = worker[w].m
  <2>1. CASE stopped
    <3>1. UNCHANGED <<timer, object>>
      BY <2>1 DEF Arm, timerVars
    <3> QED
      BY <1>0, <1>3, <3>1 DEF TimerTypes, ArmedIsListed, Rest
  <2>2. CASE ~stopped
    <3>1. PICK m \in Meeting, f \in BOOLEAN : m = worker[w].m /\ f = worker[w].fits
      BY <1>0, <1>1, WorkFields
    <3>2. Install(m, f)
      BY <2>2, <3>1 DEF Arm
    <3> QED
      BY <1>0, <1>3, <2>2, <3>1, <3>2, InstallKept DEF Rest
  <2> QED
    BY <2>1, <2>2
<1>6. \A v \in Worker : Went(v)
  BY <1>2, <1>3, <1>4 DEF Went
<1>7. \A t \in Timer : object'[t].at # "off" => \/ object[t].at # "off" /\ object'[t].m = object[t].m
                                                \/ object'[t].m \in Meeting \ boot
  BY <1>1, <1>5
<1> QED
  BY <1>3, <1>4, <1>5, <1>6, <1>7, WorkerStepKept

LEMMA CancelInv ==
  ASSUME IInv, NEW w \in Worker, Cancel(w) PROVE IInv'
<1>0. TypeOK /\ Rest /\ TimerTypes /\ worker \in [Worker -> WorkRec]
  BY Parts
<1>1. worker[w].pc = "cancel" /\ worker[w].m \in Meeting \ boot
  BY <1>0 DEF Cancel, Rest, AimInv
<1>2. PICK y \in WorkRec : /\ worker' = [worker EXCEPT ![w] = y] /\ y.pc = "finish"
                           /\ y.m = worker[w].m /\ y.lane = worker[w].lane
  <2>1. PICK x \in WorkRec : x = worker[w]
    BY <1>0
  <2>2. PICK y : y = [x EXCEPT !.pc = "finish"]
    OBVIOUS
  <2>3. y \in WorkRec /\ y.pc = "finish" /\ y.m = x.m /\ y.lane = x.lane
    BY <2>2 DEF WorkRec, WorkPcs
  <2>4. worker' = [worker EXCEPT ![w] = y]
    BY <2>1, <2>2 DEF Cancel
  <2> QED
    BY <2>1, <2>3, <2>4
<1>3. /\ UNCHANGED <<running, again>>
      /\ UNCHANGED <<stopped, receipt, phase, hook, boot, bndVars>>
      /\ UNCHANGED <<laneVars, doneVars, workers>>
  BY DEF Cancel, laneVars
<1>4. /\ LanesAndJobs' /\ worker' \in [Worker -> WorkRec] /\ workers' \in Nat
      /\ worker'[w] = y /\ \A v \in Worker : v # w => worker'[v] = worker[v]
  <2>1. Busy(w) /\ y.pc \in BusyPcs /\ y.pc # "off"
    BY <1>1, <1>2 DEF Busy, BusyPcs
  <2> QED
    BY <1>1, <1>2, <1>3, <2>1, Onward
<1>5. /\ TimerTypes' /\ ArmedIsListed'
      /\ \A t \in Timer : object'[t].at # "off" => object'[t] = object[t]
  <2>1. PICK m \in Meeting : m = worker[w].m
    BY <1>1
  <2>2. CancelTimer(m)
    BY <2>1 DEF Cancel
  <2> QED
    BY <1>0, <1>3, <2>2, CancelTimerKept DEF Rest
<1>6. \A v \in Worker : Went(v)
  BY <1>1, <1>2, <1>3, <1>4 DEF Went
<1> QED
  BY <1>3, <1>4, <1>5, <1>6, WorkerStepKept

-----------------------------------------------------------------------------
(* Steps that write a receipt.                                              *)

\* The run of w writes its receipt and goes on to pc.
LEMMA RunWriteKept ==
  ASSUME IInv, NEW w \in Worker, Busy(w), NEW state \in ReceiptState,
         NEW y \in WorkRec, y.m = worker[w].m, y.lane = worker[w].lane, y.pc \in BusyPcs,
         WriteReceipt(worker[w].m, state, [worker EXCEPT ![w] = y]),
         state = "closing" => y.pc \notin {"cancel", "finish"},
         UNCHANGED <<laneVars, doneVars, workers, timer, stopped, phase, hook, boot, lates>>,
         fails' \in Nat
  PROVE  IInv'
<1> DEFINE m == worker[w].m
           pool == [worker EXCEPT ![w] = y]
<1>0. /\ TypeOK /\ LanesAndJobs /\ Rest /\ TimerTypes /\ Others
      /\ worker \in [Worker -> WorkRec] /\ workers \in Nat
      /\ UNCHANGED <<running, again, workers, timer, stopped, phase, hook, boot, lates>>
      /\ UNCHANGED <<laneVars, doneVars, workers>>
  BY Parts DEF laneVars
<1>1. m \in Meeting \ boot
  BY <1>0 DEF Busy, Rest, AimInv
<1>2. /\ pool \in [Worker -> WorkRec] /\ pool[w] = y
      /\ \A v \in Worker : v # w => pool[v] = worker[v]
  BY <1>0
<1>3. /\ receipt' \in [Meeting -> ReceiptState] /\ receipt'[m] = state
      /\ \A x \in Meeting : x # m => receipt'[x] = receipt[x]
      /\ TimerTypes' /\ ArmedIsListed'
      /\ \A t \in Timer : object'[t].at = object[t].at /\ object'[t].m = object[t].m
      /\ worker' \in [Worker -> WorkRec]
      /\ \A v \in Worker : /\ worker'[v].pc = pool[v].pc /\ worker'[v].m = pool[v].m
                           /\ worker'[v].lane = pool[v].lane
  <2>1. WriteReceipt(m, state, pool) /\ m \in Meeting /\ ArmedIsListed
    BY <1>0, <1>1 DEF Rest
  <2> HIDE DEF m, pool
  <2> QED
    BY <1>0, <1>2, <2>1, WriteReceiptKept
<1>4. /\ worker'[w].pc = y.pc /\ worker'[w].m = m /\ worker'[w].lane = worker[w].lane
      /\ \A v \in Worker : v # w => /\ worker'[v].pc = worker[v].pc /\ worker'[v].m = worker[v].m
                                    /\ worker'[v].lane = worker[v].lane
  BY <1>2, <1>3
<1> HIDE DEF pool
<1>5. LanesAndJobs'
  <2>1. Steady
    BY <1>0, <1>4 DEF Steady, SameJobs, Busy, BusyPcs
  <2> QED
    BY <1>0, <2>1, SteadyKept DEF LanesAndJobs
<1>6. AimInv'
  BY <1>0, <1>1, <1>3, <1>4 DEF AimInv, Rest
<1>7. BootInv' /\ HookInv'
  BY <1>0 DEF BootInv, HookInv, Rest
<1>8. SettleInv'
  <2>1. ASSUME NEW v \in Worker, worker'[v].pc \in {"cancel", "finish"}, receipt'[worker'[v].m] = "closing"
        PROVE  worker'[v].m \in again' \cup hook' \/ phase'[worker'[v].m] = "ended"
    <3>1. v # w
      BY <1>3, <1>4, <2>1
    <3>2. worker[v].pc \in {"cancel", "finish"} /\ worker'[v].m = worker[v].m
      BY <1>4, <2>1, <3>1
    <3>3. worker[v].m # m
      BY <1>0, <3>1, <3>2 DEF LanesAndJobs, JobInv, Busy
    <3>4. worker[v].m \in Meeting
      BY <1>0, <3>2 DEF Rest, AimInv
    <3>5. receipt[worker[v].m] = "closing"
      BY <1>3, <2>1, <3>2, <3>3, <3>4
    <3> QED
      BY <1>0, <3>2, <3>5 DEF Rest, SettleInv
  <2> QED
    BY <2>1 DEF SettleInv
<1>9. ClosingIsQueued'
  <2>1. m \in running
    <3>1. active[m] # "no"
      <4>1. active[m] = worker[w].lane
        BY <1>0 DEF LanesAndJobs, JobInv
      <4>2. worker[w].lane # "no"
        BY <1>0, WorkFields DEF Lane
      <4> QED
        BY <4>1, <4>2
    <3> QED
      BY <1>0, <1>1, <3>1 DEF LanesAndJobs, LaneInv
  <2> QED
    BY <1>0, <1>1, <1>3, <2>1 DEF Rest, ClosingIsQueued
<1>10. Others'
  BY <1>0, <1>3 DEF Others
<1> QED
  BY <1>0, <1>3, <1>5, <1>6, <1>7, <1>8, <1>9, <1>10, Assembled DEF Rest

LEMMA RunBeginInv ==
  ASSUME IInv, NEW w \in Worker, RunBegin(w) PROVE IInv'
<1>0. /\ Rest /\ TimerTypes /\ Others /\ worker \in [Worker -> WorkRec]
      /\ worker[w].pc = "run" /\ Busy(w)
      /\ UNCHANGED <<laneVars, doneVars, workers, timer, stopped, phase, hook, boot, lates>>
      /\ UNCHANGED <<running, again, timer, fails>>
  BY Parts DEF RunBegin, RunFrame, Busy, laneVars
<1>1. PICK x \in WorkRec : x = worker[w]
  BY <1>0
<1>2. CASE /\ receipt[worker[w].m] = "finalized"
           /\ worker' = [worker EXCEPT ![w].pc = "cancel"] /\ UNCHANGED <<receipt, object>>
  <2>1. PICK y : y = [x EXCEPT !.pc = "cancel"]
    OBVIOUS
  <2>2. y \in WorkRec /\ y.pc = "cancel" /\ y.m = x.m /\ y.lane = x.lane
    BY <2>1 DEF WorkRec, WorkPcs
  <2>3. worker' = [worker EXCEPT ![w] = y]
    BY <1>1, <1>2, <2>1
  <2>4. /\ LanesAndJobs' /\ worker' \in [Worker -> WorkRec] /\ workers' \in Nat
        /\ worker'[w] = y /\ \A v \in Worker : v # w => worker'[v] = worker[v]
    <3>1. y.pc \in BusyPcs /\ y.pc # "off"
      BY <2>2 DEF BusyPcs
    <3> QED
      BY <1>0, <1>1, <2>2, <2>3, <3>1, Onward
  <2>5. TimerTypes' /\ ArmedIsListed'
    BY <1>0, <1>2 DEF TimerTypes, ArmedIsListed, Rest
  <2>6. \A v \in Worker : Went(v)
    BY <1>0, <1>1, <1>2, <2>2, <2>4 DEF Went
  <2>7. UNCHANGED <<stopped, receipt, phase, hook, boot, bndVars>>
    BY <1>0, <1>2 DEF bndVars
  <2> QED
    BY <1>0, <1>2, <2>4, <2>5, <2>6, <2>7, WorkerStepKept
<1>3. CASE WriteReceipt(worker[w].m, "closing", [worker EXCEPT ![w].pc = "work"])
  <2>1. PICK y : y = [x EXCEPT !.pc = "work"]
    OBVIOUS
  <2>2. y \in WorkRec /\ y.pc = "work" /\ y.m = x.m /\ y.lane = x.lane
    BY <2>1 DEF WorkRec, WorkPcs
  <2>3. WriteReceipt(worker[w].m, "closing", [worker EXCEPT ![w] = y])
    BY <1>1, <1>3, <2>1
  <2>4. y.pc \in BusyPcs /\ "closing" \in ReceiptState /\ fails' \in Nat
    BY <1>0, <2>2 DEF BusyPcs, ReceiptState, Others
  <2> QED
    BY <1>0, <1>1, <2>2, <2>3, <2>4, RunWriteKept
<1> QED
  BY <1>2, <1>3 DEF RunBegin

LEMMA RunOkInv ==
  ASSUME IInv, NEW w \in Worker, RunOk(w) PROVE IInv'
<1>0. /\ Others /\ worker \in [Worker -> WorkRec] /\ Busy(w)
      /\ UNCHANGED <<laneVars, doneVars, workers, timer, stopped, phase, hook, boot, lates>>
      /\ fails' = fails
      /\ WriteReceipt(worker[w].m, "finalized", [worker EXCEPT ![w].pc = "cancel"])
  BY Parts DEF RunOk, RunFrame, Busy
<1>1. PICK x \in WorkRec : x = worker[w]
  BY <1>0
<1>2. PICK y : y = [x EXCEPT !.pc = "cancel"]
  OBVIOUS
<1>3. y \in WorkRec /\ y.pc = "cancel" /\ y.m = x.m /\ y.lane = x.lane
  BY <1>2 DEF WorkRec, WorkPcs
<1>4. WriteReceipt(worker[w].m, "finalized", [worker EXCEPT ![w] = y])
  BY <1>0, <1>1, <1>2
<1>5. y.pc \in BusyPcs /\ "finalized" \in ReceiptState /\ fails' \in Nat
  BY <1>0, <1>3 DEF BusyPcs, ReceiptState, Others
<1> QED
  BY <1>0, <1>1, <1>3, <1>4, <1>5, RunWriteKept

LEMMA RunFailsInv ==
  ASSUME IInv, NEW w \in Worker, RunFails(w) PROVE IInv'
<1>0. /\ Others /\ worker \in [Worker -> WorkRec] /\ Busy(w)
      /\ UNCHANGED <<laneVars, doneVars, workers, timer, stopped, phase, hook, boot, lates>>
      /\ fails' = fails + 1
  BY Parts DEF RunFails, RunFrame, Busy
<1>1. PICK state \in {"degraded", "failed"} :
        WriteReceipt(worker[w].m, state, [worker EXCEPT ![w].pc = "finish", ![w].err = TRUE])
  BY DEF RunFails
<1>2. PICK x \in WorkRec : x = worker[w]
  BY <1>0
<1>3. PICK y : y = [x EXCEPT !.pc = "finish", !.err = TRUE]
  OBVIOUS
<1>4. y \in WorkRec /\ y.pc = "finish" /\ y.m = x.m /\ y.lane = x.lane
  BY <1>3 DEF WorkRec, WorkPcs
<1>5. [worker EXCEPT ![w].pc = "finish", ![w].err = TRUE] = [worker EXCEPT ![w] = y]
  BY <1>0, <1>2, <1>3
<1>6. WriteReceipt(worker[w].m, state, [worker EXCEPT ![w] = y])
  BY <1>1, <1>5
<1>7. y.pc \in BusyPcs /\ state \in ReceiptState /\ state # "closing" /\ fails' \in Nat
  BY <1>0, <1>4 DEF BusyPcs, ReceiptState, Others
<1> QED
  BY <1>0, <1>2, <1>4, <1>6, <1>7, RunWriteKept

\* The close of a live meeting, and a late transcript, reopen a receipt.
LEMMA ReopenKept ==
  ASSUME IInv, NEW m \in Meeting \ boot, WriteReceipt(m, "closing", worker),
         UNCHANGED <<laneVars, doneVars, workers, timer, stopped, boot, fails>>, lates' \in Nat,
         \/ hook' = hook /\ phase' = [phase EXCEPT ![m] = "ended"]
         \/ hook = {} /\ hook' = {m} /\ phase' = phase
  PROVE  IInv'
<1>0. /\ TypeOK /\ LanesAndJobs /\ Rest /\ TimerTypes /\ Others
      /\ worker \in [Worker -> WorkRec] /\ workers \in Nat
      /\ UNCHANGED <<running, again, workers, timer, stopped, boot>>
  BY Parts DEF laneVars
<1>1. /\ receipt' \in [Meeting -> ReceiptState] /\ receipt'[m] = "closing"
      /\ \A x \in Meeting : x # m => receipt'[x] = receipt[x]
      /\ TimerTypes' /\ ArmedIsListed'
      /\ \A t \in Timer : object'[t].at = object[t].at /\ object'[t].m = object[t].m
      /\ worker' \in [Worker -> WorkRec]
      /\ \A v \in Worker : /\ worker'[v].pc = worker[v].pc /\ worker'[v].m = worker[v].m
                           /\ worker'[v].lane = worker[v].lane
  <2>1. "closing" \in ReceiptState
    BY DEF ReceiptState
  <2> QED
    BY <1>0, <2>1, WriteReceiptKept DEF Rest
<1>2. /\ phase' \in [Meeting -> Phases] /\ hook' \subseteq Meeting
      /\ m \in hook' \/ phase'[m] = "ended"
      /\ \A x \in Meeting : x # m => phase'[x] = phase[x]
      /\ hook \subseteq hook' /\ hook' \subseteq hook \cup {m}
      /\ \A x \in Meeting : phase[x] = "ended" => phase'[x] = "ended"
  BY <1>0 DEF Others, Phases
<1>3. LanesAndJobs'
  <2>1. Steady
    BY <1>1 DEF Steady, SameJobs, Busy, BusyPcs
  <2> QED
    BY <1>0, <2>1, SteadyKept DEF LanesAndJobs
<1>4. AimInv'
  BY <1>0, <1>1 DEF AimInv, Rest
<1>5. BootInv'
  BY <1>0, <1>2, Parts DEF BootInv, Rest
<1>6. HookInv'
  BY <1>0 DEF HookInv, Rest
<1>7. SettleInv'
  <2>1. ASSUME NEW v \in Worker, worker'[v].pc \in {"cancel", "finish"}, receipt'[worker'[v].m] = "closing"
        PROVE  worker'[v].m \in again' \cup hook' \/ phase'[worker'[v].m] = "ended"
    <3>1. worker[v].pc \in {"cancel", "finish"} /\ worker'[v].m = worker[v].m /\ worker[v].m \in Meeting
      BY <1>0, <1>1, <2>1 DEF Rest, AimInv
    <3>2. CASE worker[v].m = m
      BY <1>2, <3>1, <3>2
    <3>3. CASE worker[v].m # m
      <4>1. receipt[worker[v].m] = "closing"
        BY <1>1, <2>1, <3>1, <3>3
      <4>2. worker[v].m \in again \cup hook \/ phase[worker[v].m] = "ended"
        BY <1>0, <3>1, <4>1 DEF Rest, SettleInv
      <4> QED
        BY <1>0, <1>2, <3>1, <4>2
    <3> QED
      BY <3>2, <3>3
  <2> QED
    BY <2>1 DEF SettleInv
<1>8. ClosingIsQueued'
  <2>1. ASSUME NEW x \in Meeting, receipt'[x] = "closing"
        PROVE  x \in running' \/ x \in boot' \/ x \in hook' \/ phase'[x] = "ended"
    <3>1. CASE x = m
      BY <1>2, <3>1
    <3>2. CASE x # m
      <4>1. x \in running \/ x \in boot \/ x \in hook \/ phase[x] = "ended"
        BY <1>0, <1>1, <2>1, <3>2 DEF Rest, ClosingIsQueued
      <4> QED
        BY <1>0, <1>2, <4>1
    <3> QED
      BY <3>1, <3>2
  <2> QED
    BY <2>1 DEF ClosingIsQueued
<1>9. Others'
  BY <1>0, <1>1, <1>2 DEF Others
<1> QED
  BY <1>0, <1>1, <1>3, <1>4, <1>5, <1>6, <1>7, <1>8, <1>9, Assembled DEF Rest

LEMMA EndInv ==
  ASSUME IInv, NEW m \in Meeting, End(m) PROVE IInv'
<1>1. Others /\ BootInv
  BY Parts DEF Rest
<1>2. m \notin boot /\ lates' \in Nat
  BY <1>1 DEF End, BootInv, Others, bndVars
<1>3. UNCHANGED <<laneVars, doneVars, workers, timer, stopped, boot, fails>>
  BY DEF End, bndVars
<1> QED
  BY <1>2, <1>3, ReopenKept DEF End, To

LEMMA LateInv ==
  ASSUME IInv, NEW m \in Meeting, Late(m) PROVE IInv'
<1>1. lates' \in Nat
  BY Parts DEF Late, Others
<1>2. UNCHANGED <<laneVars, doneVars, workers, timer, stopped, boot, fails>>
  BY DEF Late
<1> QED
  BY <1>1, <1>2, ReopenKept DEF Late

-----------------------------------------------------------------------------
(* Steps that leave the lanes and the workers alone.                        *)

LEMMA QuietKept ==
  ASSUME IInv, UNCHANGED <<laneVars, doneVars, poolVars, receipt, hook, bndVars>>,
         stopped' \in BOOLEAN, TimerTypes', ArmedIsListed',
         phase' \in [Meeting -> Phases], boot' \subseteq boot,
         \A t \in Timer : object'[t].at # "off" => \/ object[t].at # "off" /\ object'[t].m = object[t].m
                                                   \/ object'[t].m \in Meeting \ boot',
         \A x \in Meeting : phase[x] = "ended" => phase'[x] = "ended",
         \A x \in boot : phase'[x] = phase[x],
         \A x \in boot \ boot' : receipt[x] # "closing"
  PROVE  IInv'
<1>0. /\ LanesAndJobs /\ Rest /\ Others
      /\ worker \in [Worker -> WorkRec] /\ workers \in Nat
      /\ UNCHANGED <<laneVars, doneVars, workers>>
      /\ UNCHANGED <<running, again, workers, worker, receipt, hook, lates, fails>>
  BY Parts DEF laneVars, poolVars, bndVars
<1>1. LanesAndJobs'
  <2>1. Steady
    BY <1>0 DEF Steady, SameJobs, Busy
  <2> QED
    BY <1>0, <2>1, SteadyKept, Parts DEF LanesAndJobs
<1>2. AimInv'
  BY <1>0 DEF AimInv, Rest
<1>3. BootInv' /\ HookInv'
  BY <1>0 DEF BootInv, HookInv, Rest
<1>4. SettleInv'
  <2>1. ASSUME NEW v \in Worker, worker[v].pc \in {"cancel", "finish"}, receipt[worker[v].m] = "closing"
        PROVE  worker[v].m \in again \cup hook \/ phase'[worker[v].m] = "ended"
    <3>1. worker[v].m \in Meeting
      BY <1>0, <2>1 DEF Rest, AimInv
    <3> QED
      BY <1>0, <2>1, <3>1 DEF Rest, SettleInv
  <2> QED
    BY <1>0, <2>1 DEF SettleInv
<1>5. ClosingIsQueued'
  BY <1>0 DEF ClosingIsQueued, Rest
<1>6. Others'
  BY <1>0 DEF Others
<1> QED
  BY <1>0, <1>1, <1>2, <1>3, <1>4, <1>5, <1>6, Assembled DEF Rest

LEMMA PublishInv ==
  ASSUME IInv, NEW m \in Meeting, Publish(m) PROVE IInv'
<1>0. /\ Rest /\ Others /\ TimerTypes /\ UNCHANGED <<timer, object, stopped, boot>>
      /\ UNCHANGED <<laneVars, doneVars, poolVars, receipt, hook, bndVars>>
      /\ phase[m] = "open" /\ phase' = [phase EXCEPT ![m] = "publishing"]
  BY Parts DEF Publish, To, timerVars
<1>1. phase' \in [Meeting -> Phases] /\ \A x \in Meeting : phase[x] # "open" => phase'[x] = phase[x]
  BY <1>0 DEF Others, Phases
<1>2. \A x \in boot : x \in Meeting /\ phase[x] = "closed"
  BY <1>0, Parts DEF Rest, BootInv
<1>3. /\ \A x \in Meeting : phase[x] = "ended" => phase'[x] = "ended"
      /\ \A x \in boot : phase'[x] = phase[x]
  BY <1>1, <1>2
<1>4. TimerTypes' /\ ArmedIsListed' /\ stopped' \in BOOLEAN
  BY <1>0 DEF TimerTypes, ArmedIsListed, Rest, Others
<1> QED
  BY <1>0, <1>1, <1>3, <1>4, QuietKept

LEMMA UnpublishInv ==
  ASSUME IInv, NEW m \in Meeting, Unpublish(m) PROVE IInv'
<1>0. /\ Rest /\ Others /\ TimerTypes /\ UNCHANGED <<timer, object, stopped, boot>>
      /\ UNCHANGED <<laneVars, doneVars, poolVars, receipt, hook, bndVars>>
      /\ phase[m] = "signalled" /\ phase' = [phase EXCEPT ![m] = "closed"]
  BY Parts DEF Unpublish, To, timerVars
<1>1. phase' \in [Meeting -> Phases] /\ \A x \in Meeting : phase[x] # "signalled" => phase'[x] = phase[x]
  BY <1>0 DEF Others, Phases
<1>2. \A x \in boot : x \in Meeting /\ phase[x] = "closed"
  BY <1>0, Parts DEF Rest, BootInv
<1>3. /\ \A x \in Meeting : phase[x] = "ended" => phase'[x] = "ended"
      /\ \A x \in boot : phase'[x] = phase[x]
  BY <1>1, <1>2
<1>4. TimerTypes' /\ ArmedIsListed' /\ stopped' \in BOOLEAN
  BY <1>0 DEF TimerTypes, ArmedIsListed, Rest, Others
<1> QED
  BY <1>0, <1>1, <1>3, <1>4, QuietKept

\* Every timer that can fire is listed, so none is left armed.
LEMMA StopInv ==
  ASSUME IInv, Stop PROVE IInv'
<1> DEFINE listed == {timer[m] : m \in Meeting}
<1>0. /\ Rest /\ Others /\ TimerTypes
      /\ UNCHANGED <<laneVars, doneVars, poolVars, receipt, hook, bndVars>>
      /\ UNCHANGED <<phase, boot>> /\ stopped' = TRUE
      /\ timer' = [m \in Meeting |-> "none"] /\ object' = Stopped(object, listed)
  BY Parts DEF Stop
<1> HIDE DEF listed
<1>1. /\ object' \in [Timer -> ObjectRec]
      /\ \A t \in Timer : /\ object'[t].at # "off" => object'[t] = object[t]
                          /\ object'[t].at = "armed" => t \notin listed
  BY <1>0, StoppedObjects DEF TimerTypes
<1>2. \A t \in Timer : object[t].at = "armed" => t \in listed
  BY <1>0 DEF Rest, AimInv, ArmedIsListed, listed
<1>3. ArmedIsListed'
  BY <1>1, <1>2 DEF ArmedIsListed
<1>4. TimerTypes' /\ phase' \in [Meeting -> Phases] /\ stopped' \in BOOLEAN
  BY <1>0, <1>1 DEF TimerTypes, Others
<1> QED
  BY <1>0, <1>1, <1>3, <1>4, QuietKept

LEMMA BootTimerInv ==
  ASSUME IInv, NEW m \in Meeting, BootTimer(m) PROVE IInv'
<1>0. /\ TypeOK /\ Rest /\ Others
      /\ UNCHANGED <<laneVars, doneVars, poolVars, receipt, hook, bndVars>>
      /\ UNCHANGED <<phase, stopped>> /\ boot' = boot \ {m} /\ receipt[m] = "degraded"
      /\ ~stopped /\ Install(m, TRUE)
  BY Parts DEF BootTimer
<1>1. /\ TimerTypes' /\ ArmedIsListed'
      /\ \A t \in Timer : object'[t].at # "off" => object'[t] = object[t] \/ object'[t].m = m
  BY <1>0, InstallKept DEF Rest
<1>2. /\ \A t \in Timer : object'[t].at # "off" => \/ object[t].at # "off" /\ object'[t].m = object[t].m
                                                   \/ object'[t].m \in Meeting \ boot'
      /\ \A x \in boot \ boot' : receipt[x] # "closing"
      /\ phase' \in [Meeting -> Phases] /\ stopped' \in BOOLEAN
  BY <1>0, <1>1 DEF Others
<1> QED
  BY <1>0, <1>1, <1>2, QuietKept

\* One callback goes on, outside the queue.
LEMMA TimerStepKept ==
  ASSUME IInv, NEW t \in Timer, NEW o \in ObjectRec,
         object' = [object EXCEPT ![t] = o], o.at # "armed",
         o.at # "off" => object[t].at # "off" /\ o.m = object[t].m,
         \/ timer' = timer
         \/ /\ object[t].m \in Meeting /\ timer[object[t].m] = t
            /\ timer' = [timer EXCEPT ![object[t].m] = "none"],
         ObjectFrame, UNCHANGED <<laneVars, doneVars, poolVars>>
  PROVE  IInv'
<1>0. /\ TypeOK /\ Rest /\ Others
      /\ UNCHANGED <<laneVars, doneVars, poolVars, receipt, hook, bndVars>>
      /\ UNCHANGED <<phase, stopped, boot>>
  BY Parts DEF ObjectFrame
<1>1. /\ TimerTypes' /\ ArmedIsListed'
      /\ \A u \in Timer : object'[u].at # "off" => object[u].at # "off" /\ object'[u].m = object[u].m
  BY <1>0, CallbackKept DEF Rest
<1>2. phase' \in [Meeting -> Phases] /\ stopped' \in BOOLEAN
  BY <1>0 DEF Others
<1> QED
  BY <1>0, <1>1, <1>2, QuietKept

LEMMA FireInv ==
  ASSUME IInv, NEW t \in Timer, Fire(t) PROVE IInv'
<1>0. /\ TimerTypes /\ ObjectFrame /\ UNCHANGED <<laneVars, doneVars, poolVars>> /\ timer' = timer
      /\ object[t].at # "off" /\ object' = [object EXCEPT ![t].at = "fired"]
  BY Parts DEF Fire
<1>1. PICK x \in ObjectRec : x = object[t]
  BY <1>0 DEF TimerTypes
<1>2. PICK o : o = [x EXCEPT !.at = "fired"]
  OBVIOUS
<1>3. o \in ObjectRec /\ o.at = "fired" /\ o.m = x.m
  BY <1>2 DEF ObjectRec, ObjectPcs
<1>4. object' = [object EXCEPT ![t] = o]
  BY <1>0, <1>1, <1>2
<1> QED
  BY <1>0, <1>1, <1>3, <1>4, TimerStepKept

LEMMA IdentifyInv ==
  ASSUME IInv, NEW t \in Timer, Identify(t) PROVE IInv'
<1>0. /\ TimerTypes /\ ObjectFrame /\ UNCHANGED <<laneVars, doneVars, poolVars>>
      /\ object[t].at = "fired" /\ object[t].m \in Meeting
  BY Parts DEF Identify, Rest, AimInv
<1>1. CASE timer[object[t].m] = t
  <2>1. PICK x \in ObjectRec : x = object[t]
    BY <1>0 DEF TimerTypes
  <2>2. PICK o : o = [x EXCEPT !.at = "check"]
    OBVIOUS
  <2>3. o \in ObjectRec /\ o.at = "check" /\ o.m = x.m
    BY <2>2 DEF ObjectRec, ObjectPcs
  <2>4. object' = [object EXCEPT ![t] = o] /\ timer' = [timer EXCEPT ![object[t].m] = "none"]
    BY <1>1, <2>1, <2>2 DEF Identify
  <2> QED
    BY <1>0, <1>1, <2>1, <2>3, <2>4, TimerStepKept
<1>2. CASE timer[object[t].m] # t
  <2>1. object' = [object EXCEPT ![t] = NoObject] /\ timer' = timer
    BY <1>2 DEF Identify
  <2>2. NoObject \in ObjectRec /\ NoObject.at = "off"
    BY NewObject
  <2> QED
    BY <1>0, <2>1, <2>2, TimerStepKept
<1> QED
  BY <1>1, <1>2

LEMMA CheckInv ==
  ASSUME IInv, NEW t \in Timer, Check(t) PROVE IInv'
<1>0. /\ TimerTypes /\ ObjectFrame /\ UNCHANGED <<laneVars, doneVars, poolVars>> /\ timer' = timer
      /\ object[t].at = "check"
  BY Parts DEF Check
<1>1. CASE receipt[object[t].m] = "degraded" /\ object[t].fits
  <2>1. PICK x \in ObjectRec : x = object[t]
    BY <1>0 DEF TimerTypes
  <2>2. PICK o : o = [x EXCEPT !.at = "schedule"]
    OBVIOUS
  <2>3. o \in ObjectRec /\ o.at = "schedule" /\ o.m = x.m
    BY <2>2 DEF ObjectRec, ObjectPcs
  <2>4. object' = [object EXCEPT ![t] = o]
    BY <1>1, <2>1, <2>2 DEF Check
  <2> QED
    BY <1>0, <2>1, <2>3, <2>4, TimerStepKept
<1>2. CASE ~(receipt[object[t].m] = "degraded" /\ object[t].fits)
  <2>1. object' = [object EXCEPT ![t] = NoObject]
    BY <1>2 DEF Check
  <2>2. NoObject \in ObjectRec /\ NoObject.at = "off"
    BY NewObject
  <2> QED
    BY <1>0, <2>1, <2>2, TimerStepKept
<1> QED
  BY <1>1, <1>2

-----------------------------------------------------------------------------
(* Signals.                                                                 *)

LEMMA SignalKept ==
  ASSUME IInv, NEW m \in Meeting, NEW lane \in Lane, NEW isRetry \in BOOLEAN,
         Enqueue(m, lane, isRetry), isRetry \/ lane = "fresh" \/ m \in Historic,
         UNCHANGED <<stopped, receipt, bndVars>>, TimerTypes', ArmedIsListed',
         \A t \in Timer : object'[t].at # "off" => object[t].at # "off" /\ object'[t].m = object[t].m,
         boot' = boot \ {m},
         hook' = hook \/ (lane = "fresh" /\ hook = {m} /\ hook' = {}),
         \/ phase' = phase
         \/ lane = "fresh" /\ phase[m] = "ended" /\ phase' = [phase EXCEPT ![m] = "signalled"]
  PROVE  IInv'
<1>0. /\ TypeOK /\ LanesAndJobs /\ Rest /\ Others
      /\ worker \in [Worker -> WorkRec] /\ boot \subseteq Meeting
      /\ UNCHANGED <<stopped, receipt, lates, fails>>
  BY Parts DEF bndVars
<1>1. /\ LanesAndJobs' /\ worker' \in [Worker -> WorkRec] /\ workers' \in Nat /\ Grown(worker)
      /\ running' = running \cup {m} /\ again \subseteq again'
      /\ lane = "fresh" /\ active[m] # "no" => m \in again'
  BY <1>0, EnqueueKept DEF LanesAndJobs, Rest
<1>2. /\ phase' \in [Meeting -> Phases] /\ hook' \subseteq hook
      /\ \A x \in Meeting : x # m => phase'[x] = phase[x]
      /\ \A x \in Meeting : x # m /\ x \in hook => x \in hook'
      /\ lane # "fresh" => phase' = phase /\ hook' = hook
  BY <1>0 DEF Others, Phases
<1>3. AimInv'
  <2>1. ASSUME NEW v \in Worker, worker'[v].pc \notin {"off", "look"} PROVE worker'[v].m \in Meeting \ boot'
    <3>1. worker'[v] = worker[v]
      BY <1>1, <2>1 DEF Grown
    <3> QED
      BY <1>0, <2>1, <3>1 DEF Rest, AimInv
  <2>2. ASSUME NEW t \in Timer, object'[t].at # "off" PROVE object'[t].m \in Meeting \ boot'
    BY <1>0, <2>2 DEF Rest, AimInv
  <2> QED
    BY <2>1, <2>2 DEF AimInv
<1>4. BootInv'
  BY <1>0, <1>1, <1>2 DEF Rest, BootInv
<1>5. HookInv'
  BY <1>0, <1>2 DEF Rest, HookInv
<1>6. SettleInv'
  <2>1. ASSUME NEW v \in Worker, worker'[v].pc \in {"cancel", "finish"}, receipt'[worker'[v].m] = "closing"
        PROVE  worker'[v].m \in again' \cup hook' \/ phase'[worker'[v].m] = "ended"
    <3>1. worker'[v] = worker[v] /\ worker[v].pc \in {"cancel", "finish"} /\ Busy(v)
      BY <1>1, <2>1 DEF Grown, Busy
    <3>2. /\ worker[v].m \in Meeting
          /\ worker[v].m \in again \cup hook \/ phase[worker[v].m] = "ended"
      BY <1>0, <2>1, <3>1 DEF Rest, AimInv, SettleInv
    <3>3. CASE worker[v].m = m /\ lane = "fresh"
      <4>1. active[m] = worker[v].lane
        BY <1>0, <3>1, <3>3 DEF LanesAndJobs, JobInv
      <4>2. worker[v].lane # "no"
        BY <1>0, WorkFields DEF Lane
      <4> QED
        BY <1>1, <3>1, <3>3, <4>1, <4>2
    <3>4. CASE worker[v].m # m \/ lane # "fresh"
      BY <1>1, <1>2, <3>1, <3>2, <3>4
    <3> QED
      BY <3>3, <3>4
  <2> QED
    BY <2>1 DEF SettleInv
<1>7. ClosingIsQueued'
  <2>1. ASSUME NEW x \in Meeting, receipt'[x] = "closing"
        PROVE  x \in running' \/ x \in boot' \/ x \in hook' \/ phase'[x] = "ended"
    <3>1. x \in running \/ x \in boot \/ x \in hook \/ phase[x] = "ended"
      BY <1>0, <2>1 DEF Rest, ClosingIsQueued
    <3> QED
      BY <1>1, <1>2, <3>1
  <2> QED
    BY <2>1 DEF ClosingIsQueued
<1>8. Others'
  BY <1>0, <1>2 DEF Others
<1> QED
  BY <1>1, <1>3, <1>4, <1>5, <1>6, <1>7, <1>8, Assembled DEF Rest

\* A fresh signal puts the meeting's retry timer down first.
LEMMA ScheduleFreshTimers ==
  ASSUME IInv, NEW m \in Meeting, ScheduleFresh(m), stopped' = stopped
  PROVE  /\ Enqueue(m, "fresh", FALSE) /\ TimerTypes' /\ ArmedIsListed'
         /\ \A t \in Timer : object'[t].at # "off" => object[t].at # "off" /\ object'[t].m = object[t].m
<1>1. TypeOK /\ AimInv /\ ArmedIsListed
  BY Parts DEF Rest
<1>2. /\ TimerTypes' /\ ArmedIsListed'
      /\ \A t \in Timer : object'[t].at # "off" => object'[t] = object[t]
  BY <1>1, CancelTimerKept DEF ScheduleFresh
<1> QED
  BY <1>2 DEF ScheduleFresh

LEMMA SignalCloseInv ==
  ASSUME IInv, NEW m \in Meeting, SignalClose(m) PROVE IInv'
<1>1. /\ UNCHANGED <<stopped, receipt, bndVars>> /\ hook' = hook /\ boot' = boot
      /\ phase[m] = "ended" /\ phase' = [phase EXCEPT ![m] = "signalled"] /\ ScheduleFresh(m)
  BY DEF SignalClose, To
<1>2. boot' = boot \ {m}
  BY <1>1, Parts DEF Rest, BootInv
<1>3. "fresh" \in Lane
  BY DEF Lane
<1> QED
  BY <1>1, <1>2, <1>3, ScheduleFreshTimers, SignalKept

LEMMA HookStepInv ==
  ASSUME IInv, NEW m \in Meeting, Hook(m) PROVE IInv'
<1>1. /\ UNCHANGED <<stopped, receipt, bndVars>> /\ phase' = phase /\ boot' = boot
      /\ m \in hook /\ hook' = {} /\ ScheduleFresh(m)
  BY DEF Hook
<1>2. boot' = boot \ {m} /\ hook = {m}
  BY <1>1, Parts DEF Rest, BootInv, HookInv, Others
<1>3. "fresh" \in Lane
  BY DEF Lane
<1> QED
  BY <1>1, <1>2, <1>3, ScheduleFreshTimers, SignalKept

LEMMA BootBacklogInv ==
  ASSUME IInv, NEW m \in Meeting, BootBacklog(m) PROVE IInv'
<1>1. /\ UNCHANGED <<stopped, receipt, bndVars>> /\ phase' = phase /\ hook' = hook
      /\ boot' = boot \ {m} /\ m \in Historic
      /\ Enqueue(m, "backlog", FALSE) /\ UNCHANGED <<timer, object>>
  BY Parts DEF BootBacklog, ScheduleBacklog, timerVars, Others
<1>2. TimerTypes' /\ ArmedIsListed'
  BY <1>1, Parts DEF TimerTypes, ArmedIsListed, Rest
<1>3. "backlog" \in Lane
  BY DEF Lane
<1> QED
  BY <1>1, <1>2, <1>3, SignalKept

LEMMA RetrySignalInv ==
  ASSUME IInv, NEW t \in Timer, RetrySignal(t) PROVE IInv'
<1>0. TypeOK /\ AimInv /\ ArmedIsListed
  BY Parts DEF Rest
<1>1. /\ UNCHANGED <<stopped, receipt, bndVars>> /\ phase' = phase /\ hook' = hook /\ boot' = boot
      /\ object[t].at = "schedule" /\ Enqueue(object[t].m, "backlog", TRUE)
      /\ object' = [object EXCEPT ![t] = NoObject] /\ timer' = timer
  BY DEF RetrySignal, ObjectFrame
<1>2. PICK m \in Meeting : m = object[t].m /\ m \notin boot
  BY <1>0, <1>1 DEF AimInv
<1>3. /\ TimerTypes' /\ ArmedIsListed'
      /\ \A u \in Timer : object'[u].at # "off" => object[u].at # "off" /\ object'[u].m = object[u].m
  <2>1. NoObject \in ObjectRec /\ NoObject.at = "off"
    BY NewObject
  <2> QED
    BY <1>0, <1>1, <2>1, CallbackKept
<1>4. "backlog" \in Lane /\ Enqueue(m, "backlog", TRUE) /\ boot' = boot \ {m}
  BY <1>1, <1>2 DEF Lane
<1> QED
  BY <1>1, <1>3, <1>4, SignalKept

-----------------------------------------------------------------------------
(* Every state.                                                             *)

LEMMA InitInv == Init => IInv
<1> SUFFICES ASSUME Init PROVE IInv
  OBVIOUS
<1>1. /\ fresh = <<>> /\ backlog = <<>> /\ running = {} /\ again = {}
      /\ queued = [m \in Meeting |-> "no"] /\ active = [m \in Meeting |-> "no"]
      /\ retryQueued = {} /\ retryActive = {} /\ backlogActive = FALSE
      /\ workers = 0 /\ worker = [w \in Worker |-> NoWork]
      /\ timer = [m \in Meeting |-> "none"] /\ object = [t \in Timer |-> NoObject]
      /\ stopped = FALSE /\ hook = {} /\ boot = Historic /\ lates = 0 /\ fails = 0
      /\ receipt \in [Meeting -> {"open", "closing", "degraded", "failed"}]
      /\ \A m \in Meeting : receipt[m] = "open" <=> m \notin Historic
      /\ phase = [m \in Meeting |-> IF m \in Historic THEN "closed" ELSE "open"]
  BY DEF Init
<1>2. /\ \A w \in Worker : worker[w] \in WorkRec /\ worker[w].pc = "off"
      /\ \A t \in Timer : object[t] \in ObjectRec /\ object[t].at = "off"
  BY <1>1, NewWork, NewObject
<1>3. fresh \in Seq(Meeting) /\ DOMAIN fresh = {} /\ backlog \in Seq(Meeting) /\ DOMAIN backlog = {}
  BY <1>1
<1>4. TypeOK
  <2>1. LaneTypes
    BY <1>1, <1>3 DEF LaneTypes
  <2>2. worker \in [Worker -> WorkRec] /\ object \in [Timer -> ObjectRec]
    BY <1>1, <1>2
  <2>3. receipt \in [Meeting -> ReceiptState] /\ phase \in [Meeting -> Phases]
    BY <1>1 DEF ReceiptState, Phases
  <2> QED
    BY <1>1, <2>1, <2>2, <2>3, Typed
<1>5. LaneInv
  BY <1>1, <1>3 DEF LaneInv, Single, Has
<1>6. JobInv
  BY <1>1, <1>2 DEF JobInv, Busy
<1>7. MarkInv /\ HookInv /\ LiveInv
  BY <1>1 DEF MarkInv, HookInv, LiveInv
<1>8. PoolInv
  <2>1. Alive = {}
    BY <1>2 DEF Alive
  <2> QED
    BY <1>1, <2>1, FS_EmptySet DEF PoolInv
<1>9. AimInv /\ ArmedIsListed /\ SettleInv
  BY <1>2 DEF AimInv, ArmedIsListed, SettleInv
<1>10. FreshLaneOpen /\ BootInv
  BY <1>1, QueueConstants DEF FreshLaneOpen, BootInv
<1>11. ClosingIsQueued
  BY <1>1 DEF ClosingIsQueued
<1> QED
  BY <1>4, <1>5, <1>6, <1>7, <1>8, <1>9, <1>10, <1>11 DEF IInv

LEMMA StutterInv ==
  ASSUME IInv, UNCHANGED vars PROVE IInv'
<1>1. /\ UNCHANGED <<laneVars, doneVars, poolVars, receipt, hook, bndVars>>
      /\ UNCHANGED <<timer, object, stopped, phase, boot>>
  BY DEF vars, laneVars, doneVars, poolVars, bndVars
<1>2. TimerTypes' /\ ArmedIsListed' /\ stopped' \in BOOLEAN /\ phase' \in [Meeting -> Phases]
  BY <1>1, Parts DEF TimerTypes, ArmedIsListed, Rest, Others
<1> QED
  BY <1>1, <1>2, QuietKept

LEMMA NextInv == IInv /\ [Next]_vars => IInv'
<1> SUFFICES ASSUME IInv, [Next]_vars PROVE IInv'
  OBVIOUS
<1>1. ASSUME NEW w \in Worker, WorkerStep(w) PROVE IInv'
  BY <1>1, TakeFreshInv, TakeBacklogInv, LeaveInv, RunBeginInv, RunOkInv, RunFailsInv, CancelInv,
     FinishInv, RetryReadInv, ArmInv DEF WorkerStep
<1>2. ASSUME NEW t \in Timer, TimerStep(t) PROVE IInv'
  BY <1>2, FireInv, IdentifyInv, CheckInv, RetrySignalInv DEF TimerStep
<1>3. ASSUME BootStep PROVE IInv'
  BY <1>3, BootBacklogInv, BootTimerInv DEF BootStep
<1>4. ASSUME NEW m \in Meeting, Publish(m) \/ CloseStep(m) \/ Late(m) \/ Hook(m) PROVE IInv'
  BY <1>4, PublishInv, EndInv, SignalCloseInv, UnpublishInv, LateInv, HookStepInv DEF CloseStep
<1> QED
  BY <1>1, <1>2, <1>3, <1>4, StopInv, StutterInv DEF Next

\* The invariant of the lanes, the workers and the timers.
THEOREM QueueInvariant == Spec => []IInv
<1>1. Init => IInv
  BY InitInv
<1>2. IInv /\ [Next]_vars => IInv'
  BY NextInv
<1> QED
  BY <1>1, <1>2, PTL DEF Spec

\* The lanes, marks, workers and timers keep their types.
THEOREM QueueTyped == Spec => []TypeOK
<1>1. IInv => TypeOK
  BY DEF IInv
<1> QED
  BY <1>1, QueueInvariant, PTL

LEMMA AtMostOne ==
  ASSUME NEW S, \A x, y \in S : x = y
  PROVE  Cardinality(S) = IF S = {} THEN 0 ELSE 1
<1>1. CASE S = {}
  BY <1>1, FS_EmptySet
<1>2. CASE S # {}
  <2>1. PICK x \in S : TRUE
    BY <1>2
  <2>2. S = {x}
    BY <2>1
  <2> QED
    BY <1>2, <2>2, FS_Singleton
<1> QED
  BY <1>1, <1>2

LEMMA OnePlace ==
  ASSUME IInv, NEW m \in Meeting
  PROVE  Places(m) = IF m \in running THEN 1 ELSE 0
<1> DEFINE F == {i \in DOMAIN fresh : fresh[i] = m}
           B == {i \in DOMAIN backlog : backlog[i] = m}
           J == {w \in Worker : Busy(w) /\ worker[w].m = m}
<1>0. LaneInv /\ JobInv /\ TypeOK /\ worker \in [Worker -> WorkRec] /\ LaneTypes
  BY Parts DEF LanesAndJobs
<1>1. /\ Cardinality(F) = IF F = {} THEN 0 ELSE 1
      /\ Cardinality(B) = IF B = {} THEN 0 ELSE 1
      /\ Cardinality(J) = IF J = {} THEN 0 ELSE 1
  <2>1. /\ \A i, j \in F : i = j
        /\ \A i, j \in B : i = j
        /\ \A v, w \in J : v = w
    BY <1>0 DEF LaneInv, Single, JobInv
  <2> QED
    BY <2>1, AtMostOne
<1>2. F # {} <=> queued[m] = "fresh"
  BY <1>0 DEF LaneInv, Has
<1>3. B # {} <=> queued[m] = "backlog"
  BY <1>0 DEF LaneInv, Has
<1>4. J # {} <=> active[m] # "no"
  <2>1. \A w \in Worker : worker[w].lane # "no"
    BY <1>0, WorkFields DEF Lane
  <2> QED
    BY <1>0, <2>1 DEF JobInv
<1>5. /\ queued[m] \in Lane \cup {"no"}
      /\ m \in running <=> queued[m] # "no" \/ active[m] # "no"
      /\ queued[m] = "no" \/ active[m] = "no"
  BY <1>0 DEF LaneInv, LaneTypes
<1>6. Places(m) = Cardinality(F) + Cardinality(B) + Cardinality(J)
  BY DEF Places
<1> HIDE DEF F, B, J
<1> QED
  BY <1>1, <1>2, <1>3, <1>4, <1>5, <1>6 DEF Lane

\* A tracked meeting is in one lane or on one worker, never in two places and
\* never nowhere (meeting_finalization.go:1325-1364, 1573-1588).
THEOREM Tracked == Spec => []TrackedOnce
<1>1. IInv => TrackedOnce
  BY OnePlace DEF TrackedOnce
<1> QED
  BY <1>1, QueueInvariant, PTL

\* At most two workers, at most one of them on a historical job, however long
\* the history (meeting_finalization.go:1501-1517).
THEOREM FanOut == Spec => []BoundedFanOut
<1>1. ASSUME IInv PROVE BoundedFanOut
  <2> DEFINE S == {w \in Worker : Busy(w) /\ worker[w].lane = "backlog"}
  <2>1. TypeOK /\ JobInv /\ AimInv /\ PoolInv
    BY <1>1 DEF IInv
  <2>2. \A v, w \in S : v = w
    BY <2>1, Serial DEF SerialWorker
  <2>3. Cardinality(S) <= 1
    <3> HIDE DEF S
    <3> QED
      BY <2>2, AtMostOne
  <2> QED
    BY <2>1, <2>3 DEF BoundedFanOut, PoolInv, Alive
<1> QED
  BY <1>1, QueueInvariant, PTL

\* With fresh work queued, some worker is not on a historical job
\* (meeting_finalization.go:1502-1512).
THEOREM FreshOpen == Spec => []FreshLaneOpen
<1>1. IInv => FreshLaneOpen
  BY DEF IInv
<1> QED
  BY <1>1, QueueInvariant, PTL

\* While a meeting closed since the boot is closing, parity work is deferred
\* (meeting_finalization.go:1462-1490).
THEOREM Deferral == Spec => []LiveCloseDefersReconcile
<1>1. ASSUME IInv PROVE LiveCloseDefersReconcile
  <2>1. ASSUME NEW m \in Meeting \ (Historic \cup hook), receipt[m] = "closing" PROVE Deferred
    <3>1. m \in running \/ phase[m] = "ended"
      BY <1>1, <2>1, Parts DEF Rest, ClosingIsQueued, Others
    <3>2. CASE m \in running
      BY <1>1, <2>1, <3>2, Parts DEF LanesAndJobs, LiveInv, Deferred
    <3>3. CASE phase[m] = "ended"
      BY <3>3 DEF Deferred
    <3> QED
      BY <3>1, <3>2, <3>3
  <2> QED
    BY <2>1 DEF LiveCloseDefersReconcile
<1> QED
  BY <1>1, QueueInvariant, PTL

\* No mark outlives the job it belongs to
\* (meeting_finalization.go:1475-1489, 1573-1585).
THEOREM Marks == Spec => []MarksFollowJobs
<1>1. ASSUME IInv PROVE MarksFollowJobs
  <2>1. LaneTypes /\ LaneInv /\ JobInv /\ MarkInv
    BY <1>1, Parts DEF LanesAndJobs
  <2>2. again \cup retryQueued \cup retryActive \subseteq running
    BY <2>1 DEF LaneTypes, LaneInv, MarkInv
  <2>3. again \cup retryActive \subseteq {m \in Meeting : active[m] # "no"}
    BY <2>1 DEF LaneTypes, MarkInv
  <2> QED
    BY <2>1, <2>2, <2>3 DEF MarksFollowJobs, JobInv
<1> QED
  BY <1>1, QueueInvariant, PTL

\* Whatever can fire can be stopped (meeting_finalization.go:1403-1460).
THEOREM Listed == Spec => []ArmedIsListed
<1>1. IInv => ArmedIsListed
  BY DEF IInv
<1> QED
  BY <1>1, QueueInvariant, PTL

\* No close and no late transcript leaves a closing receipt that nobody will
\* settle (meeting_finalization.go:1325-1340, 1579-1585).
THEOREM Queued == Spec => []ClosingIsQueued
<1>1. IInv => ClosingIsQueued
  BY DEF IInv
<1> QED
  BY <1>1, QueueInvariant, PTL

-----------------------------------------------------------------------------
(* The queue as each meeting sees it implements MeetingJob.                 *)

\* What the place of a meeting's job tells of it.
LEMMA JobPlaces ==
  ASSUME LaneTypes, LaneInv, NEW m \in Meeting
  PROVE  /\ active[m] # "no" => JobOf(m) = "active"
         /\ active[m] = "no" /\ queued[m] \in Lane => JobOf(m) = queued[m]
         /\ m \notin running => JobOf(m) = "none"
         /\ queued[m] # "no" <=> JobOf(m) \in Lane
         /\ active[m] # "no" <=> JobOf(m) = "active"
<1>1. /\ queued[m] \in {"fresh", "backlog", "no"} /\ active[m] \in {"fresh", "backlog", "no"}
      /\ m \in running <=> queued[m] # "no" \/ active[m] # "no"
      /\ queued[m] = "no" \/ active[m] = "no"
  BY DEF LaneTypes, LaneInv, Lane
<1> QED
  BY <1>1 DEF JobOf, Lane

\* A step that touches no marker of the meeting and answers nobody.
LEMMA JobUntouched ==
  ASSUME NEW m \in Meeting, queued'[m] = queued[m], active'[m] = active[m],
         m \in again' <=> m \in again,
         phase[m] = "ended" => phase'[m] = "ended", m \in hook => m \in hook'
  PROVE  Job(m)!Ask
<1>1. JobOf(m)' = JobOf(m)
  BY DEF JobOf
<1>2. AskedOf(m) \subseteq AskedOf(m)' /\ AskedOf(m)' \subseteq {"close", "late"}
  BY DEF AskedOf
<1>3. (m \in again)' = (m \in again)
  OBVIOUS
<1> QED
  BY <1>1, <1>2, <1>3 DEF Job!Ask

\* Taken out of its lane by a worker.
LEMMA JobStarts ==
  ASSUME LaneTypes, LaneInv, NEW m \in Meeting, NEW n \in Meeting, NEW lane \in Lane,
         queued[n] = lane, queued' = [queued EXCEPT ![n] = "no"],
         active' = [active EXCEPT ![n] = lane],
         again' = again, phase' = phase, hook' = hook
  PROVE  Job(m)!Next
<1>1. CASE m = n
  <2>1. JobOf(m) = lane
    <3>1. active[m] = "no" /\ lane # "no"
      BY <1>1 DEF LaneInv, Lane
    <3> QED
      BY <1>1, <3>1 DEF JobOf
  <2>2. JobOf(m)' = "active"
    <3>1. active'[m] = lane /\ lane # "no"
      BY <1>1 DEF LaneTypes, Lane
    <3> QED
      BY <3>1 DEF JobOf
  <2>3. AskedOf(m)' = AskedOf(m) /\ (m \in again)' = (m \in again)
    BY DEF AskedOf
  <2> QED
    BY <2>1, <2>2, <2>3 DEF Job!Next, Job!Start, Lane
<1>2. CASE m # n
  <2>1. queued'[m] = queued[m] /\ active'[m] = active[m]
    BY <1>2 DEF LaneTypes
  <2> QED
    BY <2>1, JobUntouched DEF Job!Next
<1> QED
  BY <1>1, <1>2

\* Given back by its worker, for good or for another run.
LEMMA JobFinishes ==
  ASSUME LaneTypes, LaneInv, NEW m \in Meeting, NEW n \in Meeting, active[n] # "no",
         active' = [active EXCEPT ![n] = "no"], again' = again \ {n},
         queued' = IF n \in again THEN [queued EXCEPT ![n] = "fresh"] ELSE queued,
         phase' = phase, hook' = hook
  PROVE  Job(m)!Next
<1>1. CASE m = n
  <2>1. JobOf(m) = "active" /\ queued[m] = "no"
    BY <1>1, JobPlaces DEF LaneInv
  <2>2. active'[m] = "no" /\ queued'[m] = IF m \in again THEN "fresh" ELSE "no"
    BY <1>1, <2>1 DEF LaneTypes
  <2>3. JobOf(m)' = IF m \in again THEN "fresh" ELSE "none"
    BY <2>2 DEF JobOf
  <2>4. AskedOf(m)' = AskedOf(m)
    BY DEF AskedOf
  <2>5. (m \in again)' = FALSE
    BY <1>1
  <2> QED
    BY <2>1, <2>3, <2>4, <2>5 DEF Job!Next, Job!Finish
<1>2. CASE m # n
  <2>1. queued'[m] = queued[m] /\ active'[m] = active[m]
    BY <1>2 DEF LaneTypes
  <2> QED
    BY <1>2, <2>1, JobUntouched DEF Job!Next
<1> QED
  BY <1>1, <1>2

\* Signalled from the fresh lane's side: by a close, or by a commit hook.
LEMMA JobHeardFresh ==
  ASSUME LaneTypes, LaneInv, NEW m \in Meeting, NEW n \in Meeting, Enqueue(n, "fresh", FALSE),
         NEW a \in {"close", "late"}, AskedOf(n)' = AskedOf(n) \ {a},
         n # m => AskedOf(m) \subseteq AskedOf(m)'
  PROVE  Job(m)!Next
<1>0. "fresh" \in Lane /\ FALSE \in BOOLEAN
  BY DEF Lane
<1>1. /\ active' = active
      /\ n # m => queued'[m] = queued[m]
      /\ again' = IF active[n] # "no" THEN again \cup {n} ELSE again
      /\ n \notin running => queued'[n] = "fresh" /\ active[n] = "no"
      /\ n \in running => /\ queued[n] # "no" <=> queued'[n] # "no"
                          /\ queued[n] = "fresh" => queued'[n] = "fresh"
      /\ n \in running /\ queued[n] = "backlog" => queued'[n] = "fresh"
  <2>1. n \in running /\ queued[n] = "backlog" => queued'[n] = "fresh"
    BY DEF Enqueue, LaneTypes
  <2>2. again' = IF active[n] # "no" THEN again \cup {n} ELSE again
    BY DEF Enqueue
  <2> QED
    BY <1>0, <2>1, <2>2, EnqueueLanes
<1>2. CASE m = n
  <2>1. CASE active[m] # "no"
    <3>1. JobOf(m) = "active" /\ JobOf(m)' = "active"
      BY <1>1, <2>1 DEF JobOf
    <3>2. (m \in again)' = TRUE
      BY <1>1, <1>2, <2>1
    <3> QED
      BY <1>2, <3>1, <3>2 DEF Job!Next, Job!FreshSignal
  <2>2. CASE active[m] = "no"
    <3>1. queued'[m] = "fresh"
      BY <1>1, <1>2, <2>2 DEF LaneTypes, LaneInv, Lane
    <3>2. JobOf(m) # "active" /\ JobOf(m)' = "fresh"
      <4>1. JobOf(m)' = "fresh"
        BY <1>1, <2>2, <3>1 DEF JobOf
      <4> QED
        BY <2>2, <4>1, JobPlaces
    <3>3. (m \in again)' = (m \in again)
      BY <1>1, <1>2, <2>2
    <3> QED
      BY <1>2, <3>2, <3>3 DEF Job!Next, Job!FreshSignal
  <2> QED
    BY <2>1, <2>2
<1>3. CASE m # n
  <2>1. JobOf(m)' = JobOf(m)
    BY <1>1, <1>3 DEF JobOf
  <2>2. (m \in again)' = (m \in again)
    BY <1>1, <1>3
  <2>3. AskedOf(m)' \subseteq {"close", "late"}
    BY DEF AskedOf
  <2> QED
    BY <1>3, <2>1, <2>2, <2>3 DEF Job!Next, Job!Ask
<1> QED
  BY <1>2, <1>3

\* Signalled by the boot or by the retry timer.
LEMMA JobHeardBacklog ==
  ASSUME LaneTypes, LaneInv, NEW m \in Meeting, NEW n \in Meeting, NEW isRetry \in BOOLEAN,
         Enqueue(n, "backlog", isRetry), phase' = phase, hook' = hook
  PROVE  Job(m)!Next
<1>0. "backlog" \in Lane
  BY DEF Lane
<1>1. active' = active /\ again' = again
  BY DEF Enqueue
<1>2. CASE m = n /\ m \notin running
  <2>1. queued'[m] = "backlog" /\ active[m] = "no"
    BY <1>0, <1>2, EnqueueLanes
  <2>2. JobOf(m) = "none"
    BY <1>2, JobPlaces
  <2>3. JobOf(m)' = "backlog"
    BY <1>1, <2>1 DEF JobOf
  <2>4. AskedOf(m)' = AskedOf(m) /\ (m \in again)' = (m \in again)
    BY <1>1 DEF AskedOf
  <2> QED
    BY <2>2, <2>3, <2>4 DEF Job!Next, Job!BacklogSignal
<1>3. CASE ~(m = n /\ m \notin running)
  <2>1. queued'[m] = queued[m]
    BY <1>3 DEF Enqueue, LaneTypes
  <2> QED
    BY <1>1, <2>1, JobUntouched DEF Job!Next
<1> QED
  BY <1>2, <1>3

LEMMA JobWorkerStep ==
  ASSUME LaneTypes, LaneInv, JobInv, AimInv, worker \in [Worker -> WorkRec],
         NEW m \in Meeting, NEW w \in Worker, WorkerStep(w)
  PROVE  Job(m)!Next
<1>0. fresh \in Seq(Meeting) /\ backlog \in Seq(Meeting)
  BY DEF LaneTypes
<1>1. CASE TakeFresh(w)
  <2>1. fresh # <<>> /\ Single(fresh)
    BY <1>1 DEF TakeFresh, LaneInv
  <2>2. PICK n \in Meeting : n = Head(fresh) /\ Has(fresh, n)
    BY <1>0, <2>1, TailSingle
  <2>3. queued[n] = "fresh" /\ "fresh" \in Lane
    BY <2>2 DEF LaneInv, Lane
  <2>4. /\ queued' = [queued EXCEPT ![n] = "no"] /\ active' = [active EXCEPT ![n] = "fresh"]
        /\ again' = again /\ phase' = phase /\ hook' = hook
    BY <1>1, <2>2 DEF TakeFresh
  <2> QED
    BY <2>3, <2>4, JobStarts
<1>2. CASE TakeBacklog(w)
  <2>1. backlog # <<>> /\ Single(backlog)
    BY <1>2 DEF TakeBacklog, LaneInv
  <2>2. PICK n \in Meeting : n = Head(backlog) /\ Has(backlog, n)
    BY <1>0, <2>1, TailSingle
  <2>3. queued[n] = "backlog" /\ "backlog" \in Lane
    BY <2>2 DEF LaneInv, Lane
  <2>4. /\ queued' = [queued EXCEPT ![n] = "no"] /\ active' = [active EXCEPT ![n] = "backlog"]
        /\ again' = again /\ phase' = phase /\ hook' = hook
    BY <1>2, <2>2 DEF TakeBacklog
  <2> QED
    BY <2>3, <2>4, JobStarts
<1>3. CASE Finish(w)
  <2>1. worker[w].pc = "finish" /\ Busy(w)
    BY <1>3 DEF Finish, Busy
  <2>2. PICK n \in Meeting : n = worker[w].m
    BY <2>1 DEF AimInv
  <2>3. active[n] # "no"
    <3>1. worker[w].lane \in Lane /\ active[n] = worker[w].lane
      BY <2>1, <2>2, WorkFields DEF JobInv
    <3> QED
      BY <3>1 DEF Lane
  <2>4. /\ active' = [active EXCEPT ![n] = "no"] /\ again' = again \ {n}
        /\ queued' = IF n \in again THEN [queued EXCEPT ![n] = "fresh"] ELSE queued
        /\ phase' = phase /\ hook' = hook
    BY <1>3, <2>2 DEF Finish
  <2> QED
    BY <2>3, <2>4, JobFinishes
<1>4. CASE Leave(w) \/ RunBegin(w) \/ RunOk(w) \/ RunFails(w) \/ Cancel(w) \/ RetryRead(w) \/ Arm(w)
  <2>1. queued' = queued /\ active' = active /\ again' = again /\ phase' = phase /\ hook' = hook
    BY <1>4 DEF Leave, RunBegin, RunOk, RunFails, RunFrame, Cancel, RetryRead, Arm, laneVars, doneVars
  <2> QED
    BY <2>1, JobUntouched DEF Job!Next
<1> QED
  BY <1>1, <1>2, <1>3, <1>4 DEF WorkerStep

LEMMA JobTimerStep ==
  ASSUME LaneTypes, LaneInv, AimInv, NEW m \in Meeting, NEW t \in Timer, TimerStep(t)
  PROVE  Job(m)!Next
<1>1. CASE RetrySignal(t)
  <2>1. PICK n \in Meeting : n = object[t].m
    BY <1>1 DEF RetrySignal, AimInv
  <2>2. Enqueue(n, "backlog", TRUE) /\ phase' = phase /\ hook' = hook /\ TRUE \in BOOLEAN
    BY <1>1, <2>1 DEF RetrySignal, ObjectFrame
  <2> QED
    BY <2>2, JobHeardBacklog
<1>2. CASE Fire(t) \/ Identify(t) \/ Check(t)
  <2>1. queued' = queued /\ active' = active /\ again' = again /\ phase' = phase /\ hook' = hook
    BY <1>2 DEF Fire, Identify, Check, ObjectFrame, laneVars, doneVars
  <2> QED
    BY <2>1, JobUntouched DEF Job!Next
<1> QED
  BY <1>1, <1>2 DEF TimerStep

LEMMA JobSignalStep ==
  ASSUME LaneTypes, LaneInv, HookInv, phase \in [Meeting -> Phases], hook \subseteq Meeting,
         NEW m \in Meeting, NEW n \in Meeting,
         Publish(n) \/ CloseStep(n) \/ Late(n) \/ Hook(n)
  PROVE  Job(m)!Next
<1>1. CASE SignalClose(n)
  <2>1. /\ phase[n] = "ended" /\ phase' = [phase EXCEPT ![n] = "signalled"] /\ hook' = hook
        /\ Enqueue(n, "fresh", FALSE)
    BY <1>1 DEF SignalClose, To, ScheduleFresh
  <2>2. AskedOf(n)' = AskedOf(n) \ {"close"}
    BY <2>1 DEF AskedOf
  <2>3. n # m => AskedOf(m) \subseteq AskedOf(m)'
    BY <2>1 DEF AskedOf
  <2> QED
    BY <2>1, <2>2, <2>3, JobHeardFresh
<1>2. CASE Hook(n)
  <2>1. n \in hook /\ hook' = {} /\ phase' = phase /\ Enqueue(n, "fresh", FALSE)
    BY <1>2 DEF Hook, ScheduleFresh
  <2>2. AskedOf(n)' = AskedOf(n) \ {"late"}
    BY <2>1 DEF AskedOf
  <2>3. n # m => AskedOf(m) \subseteq AskedOf(m)'
    BY <2>1 DEF AskedOf, HookInv
  <2> QED
    BY <2>1, <2>2, <2>3, JobHeardFresh
<1>3. CASE Publish(n) \/ End(n) \/ Unpublish(n) \/ Late(n)
  <2>1. /\ queued' = queued /\ active' = active /\ again' = again
        /\ phase[m] = "ended" => phase'[m] = "ended"
        /\ m \in hook => m \in hook'
    BY <1>3 DEF Publish, End, Unpublish, Late, To, laneVars, doneVars
  <2> QED
    BY <2>1, JobUntouched DEF Job!Next
<1> QED
  BY <1>1, <1>2, <1>3 DEF CloseStep

LEMMA JobBootStep ==
  ASSUME LaneTypes, LaneInv, NEW m \in Meeting, BootStep \/ Stop
  PROVE  Job(m)!Next
<1>1. ASSUME NEW n \in Meeting, BootBacklog(n) PROVE Job(m)!Next
  <2>1. Enqueue(n, "backlog", FALSE) /\ phase' = phase /\ hook' = hook /\ FALSE \in BOOLEAN
    BY <1>1 DEF BootBacklog, ScheduleBacklog
  <2> QED
    BY <2>1, JobHeardBacklog
<1>2. ASSUME NEW n \in Meeting, BootTimer(n) PROVE Job(m)!Next
  <2>1. queued' = queued /\ active' = active /\ again' = again /\ phase' = phase /\ hook' = hook
    BY <1>2 DEF BootTimer, laneVars, doneVars
  <2> QED
    BY <2>1, JobUntouched DEF Job!Next
<1>3. CASE Stop
  <2>1. queued' = queued /\ active' = active /\ again' = again /\ phase' = phase /\ hook' = hook
    BY <1>3 DEF Stop, laneVars, doneVars
  <2> QED
    BY <2>1, JobUntouched DEF Job!Next
<1> QED
  BY <1>1, <1>2, <1>3 DEF BootStep

LEMMA JobStep ==
  ASSUME IInv, Next, NEW m \in Meeting PROVE Job(m)!Next
<1>0. /\ LaneTypes /\ LaneInv /\ JobInv /\ AimInv /\ HookInv /\ worker \in [Worker -> WorkRec]
      /\ phase \in [Meeting -> Phases] /\ hook \subseteq Meeting
  BY Typed DEF IInv
<1>1. ASSUME NEW w \in Worker, WorkerStep(w) PROVE Job(m)!Next
  BY <1>0, <1>1, JobWorkerStep
<1>2. ASSUME NEW t \in Timer, TimerStep(t) PROVE Job(m)!Next
  BY <1>0, <1>2, JobTimerStep
<1>3. CASE BootStep \/ Stop
  BY <1>0, <1>3, JobBootStep
<1>4. ASSUME NEW n \in Meeting, Publish(n) \/ CloseStep(n) \/ Late(n) \/ Hook(n) PROVE Job(m)!Next
  BY <1>0, <1>4, JobSignalStep
<1> QED
  BY <1>1, <1>2, <1>3, <1>4 DEF Next

\* Every meeting, whatever the others do, sees the queue it was promised: its
\* signals are neither lost nor made up, its runs never overlap, and its job
\* ends only through them (meeting_finalization.go:1325-1364, 1543-1592).
THEOREM EachMeetingServed == Spec => JobsAsPromised
<1> DEFINE Step == \A m \in Meeting : [Job(m)!Next]_(Job(m)!vars)
<1>1. Init => \A m \in Meeting : Job(m)!Init
  <2> SUFFICES ASSUME Init, NEW m \in Meeting PROVE Job(m)!Init
    OBVIOUS
  <2>1. AskedOf(m) = {} /\ JobOf(m) = "none" /\ (m \in again) = FALSE
    BY DEF Init, AskedOf, JobOf
  <2> QED
    BY <2>1 DEF Job!Init
<1>2. IInv /\ Next => Step
  BY JobStep
<1>3. IInv /\ [Next]_vars => [Step]_vars
  BY <1>2
<1> HIDE DEF Step
<1>4. Spec => [][Step]_vars
  BY <1>3, QueueInvariant, PTL DEF Spec
<1> QED
  BY <1>1, <1>4, PTL DEF Spec, JobsAsPromised, Step

-----------------------------------------------------------------------------
(* Retries: who owes one to a degraded receipt.                             *)

\* A worker about to arm a timer for a receipt that other runs have closed and
\* degraded again since it read it.
Overtaken ==
  \E w \in Worker : /\ worker[w].pc = "arm" /\ ~worker[w].fits
                    /\ receipt[worker[w].m] = "degraded"

\* A timer or its callback will find the receipt of m as it was told.
Carries(t, m) ==
  /\ object[t].m = m /\ object[t].fits /\ object[t].at # "off"
  /\ object[t].at \in {"armed", "fired"} => timer[m] = t

\* A worker will read the receipt of m, or arm a timer that fits it.
Brings(w, m) ==
  /\ worker[w].m = m
  /\ worker[w].pc = "retry" \/ (worker[w].pc = "arm" /\ worker[w].fits)

Owed(m) ==
  \/ m \in running \cup boot
  \/ \E t \in Timer : Carries(t, m)
  \/ \E w \in Worker : Brings(w, m)

OwedInv == \A m \in Meeting : receipt[m] = "degraded" /\ ~stopped => Owed(m)

\* The entry of a meeting is its own timer, armed or fired.
NamedInv ==
  \A m \in Meeting : timer[m] # "none" =>
    object[timer[m]].m = m /\ object[timer[m]].at \in {"armed", "fired"}

\* A run that has not failed leaves no degraded receipt.
Sound(w) ==
  \/ worker[w].pc \in {"work", "cancel"}
  \/ worker[w].pc = "finish" /\ ~worker[w].err

SoundInv == \A w \in Worker : Sound(w) => receipt[worker[w].m] # "degraded"

RetryInv == OwedInv /\ NamedInv /\ SoundInv

LEMMA Owes ==
  ASSUME OwedInv, NEW m \in Meeting, receipt[m] = "degraded", ~stopped,
         m \in running \cup boot => Owed(m)',
         \A t \in Timer : Carries(t, m) => Owed(m)',
         \A w \in Worker : Brings(w, m) => Owed(m)'
  PROVE  Owed(m)'
  BY DEF OwedInv, Owed

LEMMA TimersStay ==
  ASSUME UNCHANGED <<timer, object>>
  PROVE  /\ NamedInv => NamedInv'
         /\ \A t \in Timer, m \in Meeting : Carries(t, m) => Carries(t, m)'
  BY DEF NamedInv, Carries

\* A receipt write tells on nobody else.
LEMMA WriteTells ==
  ASSUME TimerTypes, worker \in [Worker -> WorkRec], NEW pool \in [Worker -> WorkRec],
         NEW n \in Meeting, NEW state \in ReceiptState,
         WriteReceipt(n, state, pool), timer' = timer, receipt \in [Meeting -> ReceiptState]
  PROVE  /\ NamedInv => NamedInv'
         /\ receipt'[n] = state /\ \A m \in Meeting : m # n => receipt'[m] = receipt[m]
         /\ \A t \in Timer, m \in Meeting : m # n /\ Carries(t, m) => Carries(t, m)'
         /\ \A w \in Worker : /\ worker'[w].pc = pool[w].pc /\ worker'[w].m = pool[w].m
                              /\ worker'[w].err = pool[w].err
                              /\ pool[w].m # n => worker'[w] = pool[w]
<1>1. /\ receipt' = [receipt EXCEPT ![n] = state]
      /\ object' = [t \in Timer |-> IF object[t].m = n THEN [object[t] EXCEPT !.fits = FALSE] ELSE object[t]]
      /\ worker' = [w \in Worker |-> IF pool[w].m = n THEN [pool[w] EXCEPT !.fits = FALSE] ELSE pool[w]]
  BY DEF WriteReceipt
<1>2. \A t \in Timer : /\ object'[t].m = object[t].m /\ object'[t].at = object[t].at
                       /\ object[t].m # n => object'[t] = object[t]
  <2>1. \A t \in Timer : object[t] \in ObjectRec
    BY DEF TimerTypes
  <2> QED
    BY <1>1, <2>1, ObjectFields
<1>3. \A w \in Worker : /\ worker'[w].pc = pool[w].pc /\ worker'[w].m = pool[w].m
                        /\ worker'[w].err = pool[w].err
                        /\ pool[w].m # n => worker'[w] = pool[w]
  <2>1. \A w \in Worker : pool[w] \in WorkRec
    OBVIOUS
  <2>2. ASSUME NEW x \in WorkRec
        PROVE  LET y == [x EXCEPT !.fits = FALSE] IN y.pc = x.pc /\ y.m = x.m /\ y.err = x.err
    BY DEF WorkRec
  <2> QED
    BY <1>1, <2>1, <2>2
<1>4. ASSUME NamedInv PROVE NamedInv'
  <2>1. \A m \in Meeting : timer[m] # "none" => timer[m] \in Timer
    BY DEF TimerTypes
  <2> QED
    BY <1>2, <1>4, <2>1 DEF NamedInv
<1>5. \A t \in Timer, m \in Meeting : m # n /\ Carries(t, m) => Carries(t, m)'
  BY <1>2 DEF Carries
<1> QED
  BY <1>1, <1>3, <1>4, <1>5

\* A timer put down or replaced is its meeting's own.
LEMMA StopTells ==
  ASSUME TimerTypes, NamedInv, NEW n \in Meeting, NEW t \in Timer, NEW m \in Meeting, m # n,
         object[t].m = m, NEW rest, rest = Stopped(object, {timer[n]})
  PROVE  rest[t] = object[t]
<1>1. t # timer[n]
  BY QueueConstants DEF NamedInv
<1> QED
  BY <1>1 DEF Stopped

LEMMA CancelTells ==
  ASSUME TimerTypes, NamedInv, NEW n \in Meeting, CancelTimer(n)
  PROVE  /\ NamedInv'
         /\ \A t \in Timer, m \in Meeting : m # n /\ Carries(t, m) => Carries(t, m)'
<1>1. /\ timer' = [timer EXCEPT ![n] = "none"] /\ object' = Stopped(object, {timer[n]})
      /\ timer'[n] = "none" /\ \A m \in Meeting : m # n => timer'[m] = timer[m]
  BY DEF CancelTimer, TimerTypes
<1>2. \A t \in Timer, m \in Meeting : m # n /\ object[t].m = m => object'[t] = object[t]
  BY <1>1, StopTells
<1>3. NamedInv'
  <2>1. \A m \in Meeting : timer[m] # "none" => timer[m] \in Timer
    BY DEF TimerTypes
  <2> QED
    BY <1>1, <1>2, <2>1 DEF NamedInv
<1>4. \A t \in Timer, m \in Meeting : m # n /\ Carries(t, m) => Carries(t, m)'
  BY <1>1, <1>2 DEF Carries
<1> QED
  BY <1>3, <1>4

LEMMA InstallTells ==
  ASSUME TimerTypes, NamedInv, NEW n \in Meeting, NEW f \in BOOLEAN, Install(n, f)
  PROVE  /\ NamedInv'
         /\ \A t \in Timer, m \in Meeting : m # n /\ Carries(t, m) => Carries(t, m)'
         /\ f => \E t \in Timer : Carries(t, n)'
<1> DEFINE rest == Stopped(object, {timer[n]})
<1>1. PICK u \in Timer : /\ object[u].at = "off" /\ timer' = [timer EXCEPT ![n] = u]
                         /\ object' = [rest EXCEPT ![u] = [at |-> "armed", m |-> n, fits |-> f]]
  BY DEF Install
<1>2. rest \in [Timer -> ObjectRec]
  BY StoppedObjects DEF TimerTypes
<1>3. \A t \in Timer, m \in Meeting : m # n /\ object[t].m = m => rest[t] = object[t]
  BY StopTells
<1> HIDE DEF rest
<1>4. /\ object'[u] = [at |-> "armed", m |-> n, fits |-> f]
      /\ \A t \in Timer : t # u => object'[t] = rest[t]
      /\ timer'[n] = u /\ \A m \in Meeting : m # n => timer'[m] = timer[m]
  BY <1>1, <1>2 DEF TimerTypes
<1>5. \A m \in Meeting : timer[m] # "none" => timer[m] \in Timer /\ timer[m] # u
  BY <1>1 DEF TimerTypes, NamedInv
<1>6. NamedInv'
  <2>1. object'[u].m = n /\ object'[u].at = "armed"
    BY <1>4
  <2>2. ASSUME NEW m \in Meeting, timer'[m] # "none"
        PROVE  object'[timer'[m]].m = m /\ object'[timer'[m]].at \in {"armed", "fired"}
    <3>1. CASE m = n
      BY <1>4, <2>1, <3>1
    <3>2. CASE m # n
      <4>1. timer'[m] = timer[m] /\ timer[m] \in Timer /\ timer[m] # u
        BY <1>4, <1>5, <2>2, <3>2
      <4>2. object[timer[m]].m = m /\ object[timer[m]].at \in {"armed", "fired"}
        BY <2>2, <4>1 DEF NamedInv
      <4>3. object'[timer[m]] = object[timer[m]]
        BY <1>3, <1>4, <3>2, <4>1, <4>2
      <4> QED
        BY <4>1, <4>2, <4>3
    <3> QED
      BY <3>1, <3>2
  <2> QED
    BY <2>2 DEF NamedInv
<1>7. ASSUME NEW t \in Timer, NEW m \in Meeting, m # n, Carries(t, m) PROVE Carries(t, m)'
  <2>1. t # u /\ object'[t] = object[t]
    BY <1>1, <1>3, <1>4, <1>7 DEF Carries
  <2> QED
    BY <1>4, <1>7, <2>1 DEF Carries
<1>8. f => Carries(u, n)'
  BY <1>4 DEF Carries
<1> QED
  BY <1>6, <1>7, <1>8

\* One worker moves.
LEMMA WorkerTells ==
  ASSUME OwedInv, SoundInv, worker \in [Worker -> WorkRec], NEW w \in Worker, NEW y \in WorkRec,
         worker' = [worker EXCEPT ![w] = y], UNCHANGED <<receipt, stopped, boot, running>>, NamedInv',
         Sound(w)' => receipt[y.m] # "degraded",
         \A m \in Meeting : receipt[m] = "degraded" /\ ~stopped =>
           /\ \A t \in Timer : Carries(t, m) => Owed(m)'
           /\ Brings(w, m) => Owed(m)'
  PROVE  RetryInv'
<1>1. worker'[w] = y /\ \A v \in Worker : v # w => worker'[v] = worker[v]
  OBVIOUS
<1>2. ASSUME NEW m \in Meeting, receipt'[m] = "degraded", ~stopped' PROVE Owed(m)'
  <2>1. receipt[m] = "degraded" /\ ~stopped
    BY <1>2
  <2>2. m \in running \cup boot => Owed(m)'
    BY DEF Owed
  <2>3. \A v \in Worker : Brings(v, m) => Owed(m)'
    BY <1>1, <2>1 DEF Owed, Brings
  <2> QED
    BY <2>1, <2>2, <2>3, Owes
<1>3. SoundInv'
  <2>1. \A v \in Worker : v # w /\ Sound(v)' => Sound(v)
    BY <1>1 DEF Sound
  <2> QED
    BY <1>1, <2>1 DEF SoundInv
<1> QED
  BY <1>2, <1>3 DEF RetryInv, OwedInv

\* A timer, a callback or the boot moves.
LEMMA TimerTells ==
  ASSUME OwedInv, SoundInv, UNCHANGED <<worker, receipt, stopped, running>>, NamedInv',
         \A m \in Meeting : receipt[m] = "degraded" /\ ~stopped =>
           /\ \A t \in Timer : Carries(t, m) => Owed(m)'
           /\ m \in boot => Owed(m)'
  PROVE  RetryInv'
<1>1. ASSUME NEW m \in Meeting, receipt'[m] = "degraded", ~stopped' PROVE Owed(m)'
  <2>1. receipt[m] = "degraded" /\ ~stopped
    BY <1>1
  <2>2. m \in running \cup boot => Owed(m)'
    BY <2>1 DEF Owed
  <2>3. \A v \in Worker : Brings(v, m) => Owed(m)'
    BY DEF Owed, Brings
  <2> QED
    BY <2>1, <2>2, <2>3, Owes
<1>2. SoundInv'
  BY DEF SoundInv, Sound
<1> QED
  BY <1>1, <1>2 DEF RetryInv, OwedInv

\* A signal: the job it leaves behind will see to its meeting.
LEMMA SignalTells ==
  ASSUME OwedInv, SoundInv, PoolInv, worker \in [Worker -> WorkRec], NEW n \in Meeting, NEW lane, NEW isRetry,
         Enqueue(n, lane, isRetry), UNCHANGED <<receipt, stopped>>, boot \ {n} \subseteq boot',
         NamedInv', \A t \in Timer, m \in Meeting : m # n /\ Carries(t, m) => Carries(t, m)'
  PROVE  RetryInv'
<1>1. Grown(worker)
  BY Started DEF Enqueue
<1>2. running' = running \cup {n}
  BY DEF Enqueue
<1>3. ASSUME NEW m \in Meeting, receipt'[m] = "degraded", ~stopped' PROVE Owed(m)'
  <2>1. CASE m = n
    BY <1>2, <2>1 DEF Owed
  <2>2. CASE m # n
    <3>1. receipt[m] = "degraded" /\ ~stopped
      BY <1>3
    <3>2. m \in running \cup boot => Owed(m)'
      BY <1>2, <2>2 DEF Owed
    <3>3. \A t \in Timer : Carries(t, m) => Owed(m)'
      BY <2>2 DEF Owed
    <3>4. \A v \in Worker : Brings(v, m) => Brings(v, m)'
      BY <1>1 DEF Grown, Brings
    <3>5. \A v \in Worker : Brings(v, m) => Owed(m)'
      BY <3>4 DEF Owed
    <3> QED
      BY <3>1, <3>2, <3>3, <3>5, Owes
  <2> QED
    BY <2>1, <2>2
<1>4. SoundInv'
  <2>1. \A v \in Worker : Sound(v)' => Sound(v) /\ worker'[v].m = worker[v].m
    BY <1>1 DEF Grown, Sound
  <2> QED
    BY <2>1 DEF SoundInv
<1> QED
  BY <1>3, <1>4 DEF RetryInv, OwedInv

\* A receipt write: a failed run stays on its meeting, any other write leaves
\* the receipt as it is not.
LEMMA ReceiptTells ==
  ASSUME RetryInv, TimerTypes, receipt \in [Meeting -> ReceiptState], worker \in [Worker -> WorkRec],
         NEW pool \in [Worker -> WorkRec], NEW n \in Meeting, NEW state \in ReceiptState,
         WriteReceipt(n, state, pool), UNCHANGED <<timer, stopped, boot, running>>,
         state = "degraded" => n \in running,
         \A v \in Worker : pool[v].m # n => pool[v] = worker[v],
         \A v \in Worker : pool[v].m = n /\ state = "degraded" =>
           pool[v].pc \notin {"work", "cancel"} /\ (pool[v].pc = "finish" => pool[v].err),
         \A v \in Worker : pool[v].m = worker[v].m
  PROVE  RetryInv'
<1>1. /\ NamedInv'
      /\ receipt'[n] = state /\ \A m \in Meeting : m # n => receipt'[m] = receipt[m]
      /\ \A t \in Timer, m \in Meeting : m # n /\ Carries(t, m) => Carries(t, m)'
      /\ \A w \in Worker : /\ worker'[w].pc = pool[w].pc /\ worker'[w].m = pool[w].m
                           /\ worker'[w].err = pool[w].err
                           /\ pool[w].m # n => worker'[w] = pool[w]
  BY WriteTells DEF RetryInv
<1>2. ASSUME NEW m \in Meeting, receipt'[m] = "degraded", ~stopped' PROVE Owed(m)'
  <2>1. CASE m = n
    BY <1>1, <1>2, <2>1 DEF Owed
  <2>2. CASE m # n
    <3>1. receipt[m] = "degraded" /\ ~stopped
      BY <1>1, <1>2, <2>2
    <3>2. m \in running \cup boot => Owed(m)'
      BY DEF Owed
    <3>3. \A t \in Timer : Carries(t, m) => Owed(m)'
      BY <1>1, <2>2 DEF Owed
    <3>4. \A v \in Worker : Brings(v, m) => Brings(v, m)'
      BY <1>1, <2>2 DEF Brings
    <3>5. \A v \in Worker : Brings(v, m) => Owed(m)'
      BY <3>4 DEF Owed
    <3> QED
      BY <3>1, <3>2, <3>3, <3>5, Owes DEF RetryInv
  <2> QED
    BY <2>1, <2>2
<1>3. ASSUME NEW v \in Worker, Sound(v)' PROVE receipt'[worker'[v].m] # "degraded"
  <2>1. CASE pool[v].m = n
    BY <1>1, <1>3, <2>1 DEF Sound
  <2>2. CASE pool[v].m # n
    <3>1. worker'[v] = worker[v]
      BY <1>1, <2>2
    <3>2. worker[v].m # n /\ receipt[worker[v].m] # "degraded"
      BY <1>1, <1>3, <2>2, <3>1 DEF Sound, RetryInv, SoundInv
    <3>3. receipt'[worker[v].m] = receipt[worker[v].m]
      <4>1. receipt' = [receipt EXCEPT ![n] = state]
        BY DEF WriteReceipt
      <4> QED
        BY <3>2, <4>1
    <3> QED
      BY <3>1, <3>2, <3>3
  <2> QED
    BY <2>1, <2>2
<1> QED
  BY <1>1, <1>2, <1>3 DEF RetryInv, OwedInv, SoundInv

\* What the proofs below take from the state.
LEMMA RetryGround ==
  ASSUME IInv, RetryInv
  PROVE  /\ TimerTypes /\ worker \in [Worker -> WorkRec] /\ receipt \in [Meeting -> ReceiptState]
         /\ AimInv /\ PoolInv /\ OwedInv /\ SoundInv /\ NamedInv
         /\ \A w \in Worker : Busy(w) => worker[w].m \in running
<1>1. LaneInv /\ JobInv /\ worker \in [Worker -> WorkRec] /\ AimInv
  BY Parts DEF LanesAndJobs, Rest
<1>2. ASSUME NEW w \in Worker, Busy(w) PROVE worker[w].m \in running
  <2>1. worker[w].m \in Meeting /\ worker[w].lane \in Lane /\ active[worker[w].m] = worker[w].lane
    BY <1>1, <1>2, WorkFields DEF AimInv, Busy, JobInv
  <2> QED
    BY <1>1, <2>1 DEF LaneInv, Lane
<1> QED
  BY <1>1, <1>2, Parts DEF RetryInv, LanesAndJobs, Rest, Others

LEMMA TakesTell ==
  ASSUME IInv, RetryInv, NEW w \in Worker, TakeFresh(w) \/ TakeBacklog(w) \/ Leave(w)
  PROVE  RetryInv'
<1>1. worker[w].pc = "look" /\ UNCHANGED <<timer, object, receipt, stopped, boot, running>>
  BY DEF TakeFresh, TakeBacklog, Leave, timerVars, laneVars
<1>2. PICK y \in WorkRec : worker' = [worker EXCEPT ![w] = y] /\ y.pc \in {"run", "off"}
  <2>1. fresh \in Seq(Meeting) /\ backlog \in Seq(Meeting) /\ "fresh" \in Lane /\ "backlog" \in Lane
    BY Parts DEF LanesAndJobs, LaneTypes, Lane
  <2>2. CASE TakeFresh(w)
    <3>1. PICK m \in Meeting : m = Head(fresh)
      BY <2>1, <2>2 DEF TakeFresh
    <3>2. PICK y : y = [NoWork EXCEPT !.pc = "run", !.m = m, !.lane = "fresh"]
      OBVIOUS
    <3>3. y \in WorkRec /\ y.pc = "run"
      BY <2>1, <3>2 DEF NoWork, WorkRec, WorkPcs
    <3>4. worker' = [worker EXCEPT ![w] = y]
      BY <2>2, <3>1, <3>2 DEF TakeFresh
    <3> QED
      BY <3>3, <3>4
  <2>3. CASE TakeBacklog(w)
    <3>1. PICK m \in Meeting : m = Head(backlog)
      BY <2>1, <2>3 DEF TakeBacklog
    <3>2. PICK y : y = [NoWork EXCEPT !.pc = "run", !.m = m, !.lane = "backlog"]
      OBVIOUS
    <3>3. y \in WorkRec /\ y.pc = "run"
      BY <2>1, <3>2 DEF NoWork, WorkRec, WorkPcs
    <3>4. worker' = [worker EXCEPT ![w] = y]
      BY <2>3, <3>1, <3>2 DEF TakeBacklog
    <3> QED
      BY <3>3, <3>4
  <2>4. CASE Leave(w)
    BY <2>4, NewWork DEF Leave
  <2> QED
    BY <2>2, <2>3, <2>4
<1>3. ~Sound(w)'
  BY <1>2, RetryGround DEF Sound
<1>4. NamedInv' /\ \A t \in Timer, m \in Meeting : Carries(t, m) => Owed(m)'
  BY <1>1, RetryGround, TimersStay DEF Owed
<1>5. \A m : ~Brings(w, m)
  BY <1>1 DEF Brings
<1> QED
  BY <1>1, <1>2, <1>3, <1>4, <1>5, RetryGround, WorkerTells

LEMMA RunBeginTells ==
  ASSUME IInv, RetryInv, NEW w \in Worker, RunBegin(w) PROVE RetryInv'
<1>1. /\ worker[w].pc = "run" /\ worker[w].m \in Meeting
      /\ UNCHANGED <<timer, stopped, boot, running>>
  BY RetryGround DEF RunBegin, RunFrame, AimInv, laneVars
<1>2. CASE receipt[worker[w].m] = "finalized" /\ worker' = [worker EXCEPT ![w].pc = "cancel"]
           /\ UNCHANGED <<receipt, object>>
  <2>1. PICK x, y : x \in WorkRec /\ x = worker[w] /\ y = [x EXCEPT !.pc = "cancel"]
    BY RetryGround
  <2>2. y \in WorkRec /\ y.m = worker[w].m
    BY <2>1 DEF WorkRec, WorkPcs
  <2>3. worker' = [worker EXCEPT ![w] = y]
    BY <1>2, <2>1
  <2>4. NamedInv' /\ \A t \in Timer, m \in Meeting : Carries(t, m) => Owed(m)'
    BY <1>1, <1>2, RetryGround, TimersStay DEF Owed
  <2>5. \A m : ~Brings(w, m)
    BY <1>1 DEF Brings
  <2> QED
    BY <1>1, <1>2, <2>2, <2>3, <2>4, <2>5, RetryGround, WorkerTells
<1>3. CASE WriteReceipt(worker[w].m, "closing", [worker EXCEPT ![w].pc = "work"])
  <2>1. PICK pool : pool = [worker EXCEPT ![w].pc = "work"]
    OBVIOUS
  <2>2. pool \in [Worker -> WorkRec] /\ \A v \in Worker : pool[v].m = worker[v].m
    BY <2>1, RetryGround DEF WorkRec, WorkPcs
  <2>3. \A v \in Worker : pool[v].m # worker[w].m => pool[v] = worker[v]
    BY <2>1, <2>2, RetryGround
  <2>4. PICK n \in Meeting, state \in ReceiptState :
          n = worker[w].m /\ state = "closing" /\ state # "degraded"
    BY <1>1 DEF ReceiptState
  <2>5. WriteReceipt(n, state, pool)
    BY <1>3, <2>1, <2>4
  <2> QED
    BY <1>1, <2>2, <2>3, <2>4, <2>5, RetryGround, ReceiptTells
<1> QED
  BY <1>2, <1>3 DEF RunBegin

LEMMA RunEndTells ==
  ASSUME IInv, RetryInv, NEW w \in Worker, RunOk(w) \/ RunFails(w) PROVE RetryInv'
<1>1. /\ worker[w].pc = "work" /\ worker[w].m \in Meeting \cap running
      /\ UNCHANGED <<timer, stopped, boot, running>>
  <2>1. worker[w].pc = "work" /\ UNCHANGED <<timer, stopped, boot, running>>
    BY DEF RunOk, RunFails, RunFrame, laneVars
  <2> QED
    BY <2>1, RetryGround DEF AimInv, Busy
<1>2. PICK pool \in [Worker -> WorkRec], state \in ReceiptState :
        /\ WriteReceipt(worker[w].m, state, pool)
        /\ \A v \in Worker : pool[v].m = worker[v].m /\ (v # w => pool[v] = worker[v])
        /\ state = "degraded" => pool[w].pc = "finish" /\ pool[w].err
  <2>1. CASE RunOk(w)
    <3>1. PICK pool : pool = [worker EXCEPT ![w].pc = "cancel"]
      OBVIOUS
    <3>2. pool \in [Worker -> WorkRec] /\ \A v \in Worker : pool[v].m = worker[v].m
      BY <3>1, RetryGround DEF WorkRec, WorkPcs
    <3>3. \A v \in Worker : v # w => pool[v] = worker[v]
      BY <3>1, RetryGround
    <3>4. "finalized" \in ReceiptState /\ "finalized" # "degraded"
      BY DEF ReceiptState
    <3>5. WriteReceipt(worker[w].m, "finalized", pool)
      BY <2>1, <3>1 DEF RunOk
    <3> QED
      BY <3>2, <3>3, <3>4, <3>5
  <2>2. CASE RunFails(w)
    <3>1. PICK pool : pool = [worker EXCEPT ![w].pc = "finish", ![w].err = TRUE]
      OBVIOUS
    <3>2. /\ pool \in [Worker -> WorkRec] /\ \A v \in Worker : pool[v].m = worker[v].m
          /\ pool[w].pc = "finish" /\ pool[w].err
      BY <3>1, RetryGround DEF WorkRec, WorkPcs
    <3>3. \A v \in Worker : v # w => pool[v] = worker[v]
      BY <3>1, RetryGround
    <3>4. PICK state \in {"degraded", "failed"} : WriteReceipt(worker[w].m, state, pool)
      BY <2>2, <3>1 DEF RunFails
    <3>5. state \in ReceiptState
      BY DEF ReceiptState
    <3> QED
      BY <3>2, <3>3, <3>4, <3>5
  <2> QED
    BY <2>1, <2>2
<1>3. \A v \in Worker : pool[v].m # worker[w].m => pool[v] = worker[v]
  BY <1>2
<1>4. ASSUME NEW v \in Worker, pool[v].m = worker[w].m, state = "degraded"
      PROVE  pool[v].pc \notin {"work", "cancel"} /\ (pool[v].pc = "finish" => pool[v].err)
  <2>1. CASE v = w
    BY <1>2, <1>4, <2>1
  <2>2. CASE v # w
    <3>1. worker[v].m = worker[w].m /\ ~Busy(v) /\ pool[v] = worker[v]
      <4>1. JobInv /\ Busy(w)
        BY <1>1, Parts DEF LanesAndJobs, Busy
      <4> QED
        BY <1>2, <1>4, <2>2, <4>1 DEF JobInv
    <3> QED
      BY <3>1 DEF Busy
  <2> QED
    BY <2>1, <2>2
<1> QED
  BY <1>1, <1>2, <1>3, <1>4, RetryGround, ReceiptTells

LEMMA CancelRunTells ==
  ASSUME IInv, RetryInv, NEW w \in Worker, Cancel(w) PROVE RetryInv'
<1>1. /\ worker[w].pc = "cancel" /\ worker[w].m \in Meeting
      /\ UNCHANGED <<receipt, stopped, boot, running>> /\ CancelTimer(worker[w].m)
  BY RetryGround DEF Cancel, AimInv, laneVars
<1>2. receipt[worker[w].m] # "degraded"
  BY <1>1, RetryGround DEF SoundInv, Sound
<1>3. PICK x, y : x \in WorkRec /\ x = worker[w] /\ y = [x EXCEPT !.pc = "finish"]
  BY RetryGround
<1>4. y \in WorkRec /\ y.m = worker[w].m
  BY <1>3 DEF WorkRec, WorkPcs
<1>5. worker' = [worker EXCEPT ![w] = y]
  BY <1>3 DEF Cancel
<1>6. NamedInv' /\ \A t \in Timer, m \in Meeting : m # worker[w].m /\ Carries(t, m) => Owed(m)'
  BY <1>1, RetryGround, CancelTells DEF Owed
<1>7. \A m : ~Brings(w, m)
  BY <1>1 DEF Brings
<1> QED
  BY <1>1, <1>2, <1>4, <1>5, <1>6, <1>7, RetryGround, WorkerTells

LEMMA FinishTells ==
  ASSUME IInv, RetryInv, NEW w \in Worker, Finish(w) PROVE RetryInv'
<1>1. /\ worker[w].pc = "finish" /\ worker[w].m \in Meeting /\ worker[w].err \in BOOLEAN
      /\ UNCHANGED <<receipt, stopped, boot, timer, object>>
      /\ running \ {worker[w].m} \subseteq running'
  BY RetryGround, WorkFields DEF Finish, AimInv, timerVars
<1>2. receipt[worker[w].m] = "degraded" => worker[w].err
  BY <1>1, RetryGround DEF SoundInv, Sound
<1>3. PICK pool : pool = [worker EXCEPT ![w].pc = IF worker[w].err THEN "retry" ELSE "look"]
  OBVIOUS
<1>4. /\ pool \in [Worker -> WorkRec] /\ pool[w].m = worker[w].m
      /\ pool[w].pc = IF worker[w].err THEN "retry" ELSE "look"
      /\ \A v \in Worker : v # w => pool[v] = worker[v]
  BY <1>3, RetryGround DEF WorkRec, WorkPcs
<1>5. Grown(pool)
  <2>1. \A v \in Worker : pool[v].pc = "off" <=> worker[v].pc = "off"
    BY <1>1, <1>4
  <2>2. EnsureWorkers(pool)
    BY <1>3 DEF Finish
  <2> QED
    BY <1>4, <2>1, <2>2, RetryGround, Started
<1>6. NamedInv' /\ \A t \in Timer, m \in Meeting : Carries(t, m) => Owed(m)'
  BY <1>1, RetryGround, TimersStay DEF Owed
<1>7. ASSUME NEW m \in Meeting, receipt'[m] = "degraded", ~stopped' PROVE Owed(m)'
  <2>1. CASE m = worker[w].m
    <3>1. worker'[w] = pool[w] /\ pool[w].pc = "retry"
      BY <1>1, <1>2, <1>4, <1>5, <1>7, <2>1 DEF Grown
    <3>2. Brings(w, m)'
      BY <1>4, <2>1, <3>1 DEF Brings
    <3> QED
      BY <3>2 DEF Owed
  <2>2. CASE m # worker[w].m
    <3>1. m \in running \cup boot => Owed(m)'
      BY <1>1, <2>2 DEF Owed
    <3>2. ASSUME NEW v \in Worker, Brings(v, m) PROVE Owed(m)'
      <4>1. v # w /\ worker[v].pc # "off"
        BY <1>1, <3>2 DEF Brings
      <4>2. worker'[v] = worker[v]
        BY <1>4, <1>5, <4>1 DEF Grown
      <4>3. Brings(v, m)'
        BY <3>2, <4>2 DEF Brings
      <4> QED
        BY <4>3 DEF Owed
    <3> QED
      BY <1>1, <1>6, <1>7, <3>1, <3>2, RetryGround, Owes
  <2> QED
    BY <2>1, <2>2
<1>8. SoundInv'
  <2>1. ASSUME NEW v \in Worker, Sound(v)' PROVE v # w /\ worker'[v] = worker[v]
    BY <1>4, <1>5, <2>1 DEF Grown, Sound
  <2>2. \A v \in Worker : Sound(v)' => Sound(v) /\ worker'[v] = worker[v]
    BY <2>1 DEF Sound
  <2> QED
    BY <1>1, <2>2, RetryGround DEF SoundInv
<1> QED
  BY <1>6, <1>7, <1>8 DEF RetryInv, OwedInv

LEMMA RetryReadTells ==
  ASSUME IInv, RetryInv, NEW w \in Worker, RetryRead(w) PROVE RetryInv'
<1>1. worker[w].pc = "retry" /\ UNCHANGED <<timer, object, receipt, stopped, boot, running>>
  BY DEF RetryRead, timerVars, laneVars
<1>2. PICK x, y : /\ x \in WorkRec /\ x = worker[w]
                  /\ y = IF receipt[x.m] = "degraded" THEN [x EXCEPT !.pc = "arm", !.fits = TRUE]
                         ELSE [NoWork EXCEPT !.pc = "look"]
  BY RetryGround
<1>3. /\ y \in WorkRec /\ y.pc \in {"arm", "look"}
      /\ receipt[x.m] = "degraded" => y.pc = "arm" /\ y.fits /\ y.m = x.m
  <2>1. CASE receipt[x.m] = "degraded"
    <3>1. y = [x EXCEPT !.pc = "arm", !.fits = TRUE]
      BY <1>2, <2>1
    <3> QED
      BY <1>2, <3>1 DEF WorkRec, WorkPcs
  <2>2. CASE receipt[x.m] # "degraded"
    <3>1. y = [NoWork EXCEPT !.pc = "look"]
      BY <1>2, <2>2
    <3>2. y \in WorkRec /\ y.pc = "look"
      BY <3>1, NewWork DEF WorkPcs
    <3> QED
      BY <2>2, <3>2
  <2> QED
    BY <2>1, <2>2
<1>4. worker' = [worker EXCEPT ![w] = y] /\ worker'[w] = y
  BY <1>2, RetryGround DEF RetryRead
<1>5. NamedInv' /\ \A t \in Timer, m \in Meeting : Carries(t, m) => Owed(m)'
  BY <1>1, RetryGround, TimersStay DEF Owed
<1>6. ASSUME NEW m \in Meeting, receipt[m] = "degraded", Brings(w, m) PROVE Owed(m)'
  <2>1. Brings(w, m)'
    BY <1>2, <1>3, <1>4, <1>6 DEF Brings
  <2> QED
    BY <2>1 DEF Owed
<1>7. ~Sound(w)'
  BY <1>3, <1>4 DEF Sound
<1> QED
  BY <1>1, <1>3, <1>4, <1>5, <1>6, <1>7, RetryGround, WorkerTells

\* The one step that may lose a retry: a worker overtaken puts its own timer in
\* the place of one that fits.
LEMMA ArmTells ==
  ASSUME IInv, RetryInv, ~Overtaken, NEW w \in Worker, Arm(w) PROVE RetryInv'
<1>1. /\ worker[w].pc = "arm" /\ UNCHANGED <<receipt, stopped, boot, running>>
      /\ worker[w].m \in Meeting /\ worker[w].fits \in BOOLEAN
  BY RetryGround, WorkFields DEF Arm, laneVars, AimInv
<1>2. PICK n \in Meeting, f \in BOOLEAN : n = worker[w].m /\ f = worker[w].fits
  BY <1>1
<1>3. receipt[n] = "degraded" => f
  BY <1>1, <1>2 DEF Overtaken
<1>4. PICK y \in WorkRec : worker' = [worker EXCEPT ![w] = y] /\ y.pc = "look"
  BY NewWork DEF Arm, WorkPcs
<1>5. ~Sound(w)'
  BY <1>4, RetryGround DEF Sound
<1>6. CASE stopped
  <2>1. UNCHANGED <<timer, object>>
    BY <1>6 DEF Arm, timerVars
  <2>2. NamedInv'
    BY <2>1, RetryGround, TimersStay
  <2> QED
    BY <1>1, <1>4, <1>5, <1>6, <2>2, RetryGround, WorkerTells
<1>7. CASE ~stopped
  <2>1. Install(n, f)
    BY <1>2, <1>7 DEF Arm
  <2>2. /\ NamedInv' /\ \A t \in Timer, m \in Meeting : m # n /\ Carries(t, m) => Owed(m)'
        /\ f => Owed(n)'
    BY <2>1, RetryGround, InstallTells DEF Owed
  <2>3. \A m \in Meeting : Brings(w, m) => m = n
    BY <1>2 DEF Brings
  <2> QED
    BY <1>1, <1>3, <1>4, <1>5, <2>2, <2>3, RetryGround, WorkerTells
<1> QED
  BY <1>6, <1>7

LEMMA CallbackTells ==
  ASSUME IInv, RetryInv, NEW t \in Timer, Fire(t) \/ Identify(t) \/ Check(t) PROVE RetryInv'
<1>1. /\ UNCHANGED <<worker, receipt, stopped, running, boot>>
      /\ object[t].at \in {"armed", "fired", "check"} /\ object[t] \in ObjectRec
  BY RetryGround DEF Fire, Identify, Check, ObjectFrame, laneVars, poolVars, TimerTypes
<1>2. PICK n \in Meeting : n = object[t].m
  BY <1>1, RetryGround DEF AimInv
<1>3. PICK o : /\ object' = [object EXCEPT ![t] = o] /\ o = object'[t]
               /\ \/ o = NoObject
                  \/ o.m = n /\ o.fits = object[t].fits
  <2>1. CASE Fire(t)
    <3>1. PICK x, o : x \in ObjectRec /\ x = object[t] /\ o = [x EXCEPT !.at = "fired"]
      BY <1>1
    <3>2. object' = [object EXCEPT ![t] = o] /\ o.m = x.m /\ o.fits = x.fits
      BY <2>1, <3>1 DEF Fire, ObjectRec
    <3> QED
      BY <1>2, <3>1, <3>2, RetryGround DEF TimerTypes
  <2>2. CASE Identify(t)
    <3>1. PICK x, o : x \in ObjectRec /\ x = object[t] /\ o = [x EXCEPT !.at = "check"]
      BY <1>1
    <3>2. /\ o.m = x.m /\ o.fits = x.fits
          /\ object' = [object EXCEPT ![t] = o] \/ object' = [object EXCEPT ![t] = NoObject]
      BY <2>2, <3>1 DEF Identify, ObjectRec
    <3> QED
      BY <1>2, <3>1, <3>2, RetryGround DEF TimerTypes
  <2>3. CASE Check(t)
    <3>1. PICK x, o : x \in ObjectRec /\ x = object[t] /\ o = [x EXCEPT !.at = "schedule"]
      BY <1>1
    <3>2. /\ o.m = x.m /\ o.fits = x.fits
          /\ object' = [object EXCEPT ![t] = o] \/ object' = [object EXCEPT ![t] = NoObject]
      BY <2>3, <3>1 DEF Check, ObjectRec
    <3> QED
      BY <1>2, <3>1, <3>2, RetryGround DEF TimerTypes
  <2> QED
    BY <2>1, <2>2, <2>3
<1>4. \A u \in Timer : u # t => object'[u] = object[u]
  BY <1>3, RetryGround DEF TimerTypes
<1>5. /\ \A m \in Meeting : timer[m] # "none" => timer[m] \in Timer
      /\ \A m \in Meeting : m # n => timer'[m] = timer[m] /\ timer[m] # t
      /\ timer'[n] # "none" \/ timer[n] # t => timer'[n] = timer[n]
  <2>1. timer \in [Meeting -> Timer \cup {"none"}] /\ NamedInv
    BY RetryGround DEF TimerTypes
  <2>2. \A m \in Meeting : timer[m] = t => m = n
    BY <1>2, <2>1, QueueConstants DEF NamedInv
  <2>3. timer' = timer \/ (timer[n] = t /\ timer' = [timer EXCEPT ![n] = "none"])
    BY <1>2 DEF Fire, Identify, Check
  <2> QED
    BY <2>1, <2>2, <2>3
<1>6. timer'[n] = t => object'[t].m = n /\ object'[t].at \in {"armed", "fired"}
  <2>1. CASE Fire(t)
    <3>1. PICK x, o1 : x \in ObjectRec /\ x = object[t] /\ o1 = [x EXCEPT !.at = "fired"]
      BY <1>1
    <3>2. o1.m = n /\ o1.at = "fired"
      BY <1>2, <3>1 DEF ObjectRec
    <3>3. object'[t] = o1
      BY <2>1, <3>1, RetryGround DEF Fire, TimerTypes
    <3> QED
      BY <3>2, <3>3
  <2>2. CASE Identify(t)
    BY <1>2, <2>2, RetryGround, QueueConstants DEF Identify, TimerTypes
  <2>3. CASE Check(t)
    <3>1. timer' = timer /\ object[t].at = "check"
      BY <2>3 DEF Check
    <3>2. timer[n] # t
      BY <3>1, RetryGround, QueueConstants DEF NamedInv
    <3> QED
      BY <3>1, <3>2
  <2> QED
    BY <2>1, <2>2, <2>3
<1>7. NamedInv'
  <2>1. ASSUME NEW m \in Meeting, timer'[m] # "none"
        PROVE  object'[timer'[m]].m = m /\ object'[timer'[m]].at \in {"armed", "fired"}
    <3>1. CASE timer'[m] = t
      BY <1>5, <1>6, <3>1
    <3>2. CASE timer'[m] # t
      <4>1. timer'[m] = timer[m] /\ timer[m] # "none" /\ object'[timer[m]] = object[timer[m]]
        BY <1>4, <1>5, <2>1, <3>2
      <4> QED
        BY <4>1, RetryGround DEF NamedInv
    <3> QED
      BY <3>1, <3>2
  <2> QED
    BY <2>1 DEF NamedInv
<1>8. ASSUME NEW m \in Meeting, receipt[m] = "degraded", NEW u \in Timer, Carries(u, m)
      PROVE  Carries(u, m)'
  <2>1. CASE u # t
    <3>1. object'[u] = object[u]
      BY <1>4, <2>1
    <3>2. object[u].at \in {"armed", "fired"} => timer'[m] = u
      BY <1>5, <1>8, <2>1 DEF Carries
    <3> QED
      BY <1>8, <3>1, <3>2 DEF Carries
  <2>2. CASE u = t
    <3>0. m = n /\ object[t].fits
      BY <1>2, <1>8, <2>2 DEF Carries
    <3>1. CASE Fire(t)
      <4>1. timer'[n] = t
        BY <1>8, <2>2, <3>0, <3>1 DEF Fire, Carries
      <4>2. o # NoObject /\ o.m = n
        BY <1>3, <1>6, <4>1, QueueConstants DEF NoObject
      <4>3. object'[t].m = n /\ object'[t].fits /\ object'[t].at \in {"armed", "fired"}
        BY <1>3, <1>6, <3>0, <4>1, <4>2
      <4> QED
        BY <2>2, <3>0, <4>1, <4>3 DEF Carries
    <3>2. CASE Identify(t)
      <4>1. timer[n] = t
        BY <1>8, <2>2, <3>0, <3>2 DEF Identify, Carries
      <4>2. PICK x, o1 : x \in ObjectRec /\ x = object[t] /\ o1 = [x EXCEPT !.at = "check"]
        BY <1>1
      <4>3. object'[t] = o1
        BY <1>2, <3>2, <4>1, <4>2, RetryGround DEF Identify, TimerTypes
      <4>4. o1.m = n /\ o1.fits /\ o1.at = "check"
        BY <1>2, <3>0, <4>2 DEF ObjectRec
      <4> QED
        BY <2>2, <3>0, <4>3, <4>4 DEF Carries
    <3>3. CASE Check(t)
      <4>2. PICK x, o1 : x \in ObjectRec /\ x = object[t] /\ o1 = [x EXCEPT !.at = "schedule"]
        BY <1>1
      <4>3. object'[t] = o1
        BY <1>2, <1>8, <3>0, <3>3, <4>2, RetryGround DEF Check, TimerTypes
      <4>4. o1.m = n /\ o1.fits /\ o1.at = "schedule"
        BY <1>2, <3>0, <4>2 DEF ObjectRec
      <4> QED
        BY <2>2, <3>0, <4>3, <4>4 DEF Carries
    <3> QED
      BY <3>1, <3>2, <3>3
  <2> QED
    BY <2>1, <2>2
<1>9. \A m \in Meeting : receipt[m] = "degraded" =>
        (\A u \in Timer : Carries(u, m) => Owed(m)') /\ (m \in boot => Owed(m)')
  BY <1>1, <1>8 DEF Owed
<1> QED
  BY <1>1, <1>7, <1>9, RetryGround, TimerTells

LEMMA BootTimerTells ==
  ASSUME IInv, RetryInv, NEW n \in Meeting, BootTimer(n) PROVE RetryInv'
<1>1. /\ UNCHANGED <<worker, receipt, stopped, running>> /\ boot' = boot \ {n}
      /\ Install(n, TRUE) /\ TRUE \in BOOLEAN
  BY DEF BootTimer, laneVars, poolVars
<1>2. /\ NamedInv' /\ \A t \in Timer, m \in Meeting : m # n /\ Carries(t, m) => Owed(m)'
      /\ Owed(n)'
  BY <1>1, RetryGround, InstallTells DEF Owed
<1>3. \A m \in Meeting : m \in boot => Owed(m)'
  BY <1>1, <1>2 DEF Owed
<1> QED
  BY <1>1, <1>2, <1>3, RetryGround, TimerTells

LEMMA StopTellsAll ==
  ASSUME IInv, RetryInv, Stop PROVE RetryInv'
<1>1. stopped' = TRUE /\ timer' = [m \in Meeting |-> "none"] /\ UNCHANGED <<worker, receipt>>
  BY DEF Stop, poolVars
<1> QED
  BY <1>1, RetryGround DEF RetryInv, OwedInv, NamedInv, SoundInv, Sound

LEMMA SignalsTell ==
  ASSUME IInv, RetryInv, NEW n \in Meeting, SignalClose(n) \/ Hook(n) \/ BootBacklog(n)
  PROVE  RetryInv'
<1>1. CASE SignalClose(n) \/ Hook(n)
  <2>1. /\ UNCHANGED <<receipt, stopped, boot>> /\ CancelTimer(n) /\ Enqueue(n, "fresh", FALSE)
    BY <1>1 DEF SignalClose, Hook, ScheduleFresh
  <2>2. /\ NamedInv'
        /\ \A t \in Timer, m \in Meeting : m # n /\ Carries(t, m) => Carries(t, m)'
    BY <2>1, RetryGround, CancelTells
  <2> QED
    BY <2>1, <2>2, RetryGround, SignalTells
<1>2. CASE BootBacklog(n)
  <2>1. /\ UNCHANGED <<receipt, stopped, timer, object>> /\ boot' = boot \ {n}
        /\ Enqueue(n, "backlog", FALSE)
    BY <1>2 DEF BootBacklog, ScheduleBacklog, timerVars
  <2>2. /\ NamedInv'
        /\ \A t \in Timer, m \in Meeting : m # n /\ Carries(t, m) => Carries(t, m)'
    BY <2>1, RetryGround, TimersStay
  <2> QED
    BY <2>1, <2>2, RetryGround, SignalTells
<1> QED
  BY <1>1, <1>2

LEMMA RetrySignalTells ==
  ASSUME IInv, RetryInv, NEW t \in Timer, RetrySignal(t) PROVE RetryInv'
<1>1. /\ UNCHANGED <<receipt, stopped, boot, timer>> /\ object[t].at = "schedule"
      /\ object' = [object EXCEPT ![t] = NoObject] /\ Enqueue(object[t].m, "backlog", TRUE)
  BY DEF RetrySignal, ObjectFrame
<1>2. PICK n \in Meeting : n = object[t].m
  BY <1>1, RetryGround DEF AimInv
<1>3. \A u \in Timer : u # t => object'[u] = object[u]
  BY <1>1, RetryGround DEF TimerTypes
<1>4. NamedInv'
  <2>1. \A m \in Meeting : timer[m] # "none" => timer[m] \in Timer /\ timer[m] # t
    BY <1>1, RetryGround DEF TimerTypes, NamedInv
  <2> QED
    BY <1>1, <1>3, <2>1, RetryGround DEF NamedInv
<1>5. \A u \in Timer, m \in Meeting : m # n /\ Carries(u, m) => Carries(u, m)'
  BY <1>1, <1>2, <1>3 DEF Carries
<1> QED
  BY <1>1, <1>2, <1>4, <1>5, RetryGround, SignalTells

LEMMA ReopensTell ==
  ASSUME IInv, RetryInv, NEW n \in Meeting, End(n) \/ Late(n) PROVE RetryInv'
<1>1. UNCHANGED <<timer, stopped, boot, running>>
  BY DEF End, Late, laneVars
<1>2. PICK state \in ReceiptState : state # "degraded" /\ WriteReceipt(n, state, worker)
  BY DEF End, Late, ReceiptState
<1> QED
  BY <1>1, <1>2, RetryGround, ReceiptTells

LEMMA QuietTells ==
  ASSUME IInv, RetryInv, UNCHANGED <<worker, receipt, stopped, running, boot, timer, object>>
  PROVE  RetryInv'
<1>1. NamedInv' /\ \A t \in Timer, m \in Meeting : Carries(t, m) => Owed(m)'
  BY RetryGround, TimersStay DEF Owed
<1>2. \A m \in Meeting : m \in boot => Owed(m)'
  BY DEF Owed
<1> QED
  BY <1>1, <1>2, RetryGround, TimerTells

LEMMA RetryNext == IInv /\ RetryInv /\ ~Overtaken /\ [Next]_vars => RetryInv'
<1> SUFFICES ASSUME IInv, RetryInv, ~Overtaken, [Next]_vars PROVE RetryInv'
  OBVIOUS
<1>1. ASSUME NEW w \in Worker, WorkerStep(w) PROVE RetryInv'
  BY <1>1, TakesTell, RunBeginTells, RunEndTells, CancelRunTells, FinishTells, RetryReadTells,
     ArmTells DEF WorkerStep
<1>2. ASSUME NEW t \in Timer, TimerStep(t) PROVE RetryInv'
  BY <1>2, CallbackTells, RetrySignalTells DEF TimerStep
<1>3. ASSUME BootStep PROVE RetryInv'
  BY <1>3, SignalsTell, BootTimerTells DEF BootStep
<1>4. ASSUME NEW m \in Meeting, Publish(m) \/ CloseStep(m) \/ Late(m) \/ Hook(m) PROVE RetryInv'
  <2>1. CASE Publish(m) \/ Unpublish(m)
    <3>1. UNCHANGED <<worker, receipt, stopped, running, boot, timer, object>>
      BY <2>1 DEF Publish, Unpublish, laneVars, poolVars, timerVars
    <3> QED
      BY <3>1, QuietTells
  <2>2. CASE End(m) \/ Late(m) \/ SignalClose(m) \/ Hook(m)
    BY <2>2, ReopensTell, SignalsTell
  <2> QED
    BY <1>4, <2>1, <2>2 DEF CloseStep
<1>5. CASE UNCHANGED vars
  <2>1. UNCHANGED <<worker, receipt, stopped, running, boot, timer, object>>
    BY <1>5 DEF vars
  <2> QED
    BY <2>1, QuietTells
<1> QED
  BY <1>1, <1>2, <1>3, <1>4, <1>5, StopTellsAll DEF Next

\* A degraded receipt that is due for a retry gets one without another boot, as
\* long as no worker is overtaken between its read of the receipt and its timer
\* (meeting_finalization.go:1367-1382): that is the one way to lose a retry.
THEOREM RetriesLostOnlyOvertaken == Spec /\ []~Overtaken => []RetryIsOwed
<1>1. Init => RetryInv
  <2> SUFFICES ASSUME Init PROVE RetryInv
    OBVIOUS
  <2>1. /\ boot = Historic /\ timer = [m \in Meeting |-> "none"]
        /\ worker = [w \in Worker |-> NoWork]
        /\ \A m \in Meeting : receipt[m] = "open" <=> m \notin Historic
    BY DEF Init
  <2>2. OwedInv
    BY <2>1 DEF OwedInv, Owed
  <2>3. NamedInv /\ SoundInv
    BY <2>1, NewWork DEF NamedInv, SoundInv, Sound
  <2> QED
    BY <2>2, <2>3 DEF RetryInv
<1>2. IInv /\ RetryInv => RetryIsOwed
  <2> SUFFICES ASSUME RetryInv, NEW m \in Meeting, receipt[m] = "degraded", ~stopped
               PROVE  \/ m \in running \/ m \in boot
                      \/ \E t \in Timer : object[t].m = m /\ object[t].fits
                      \/ \E w \in Worker : worker[w].m = m /\ worker[w].pc \in {"retry", "arm"}
                                              /\ (worker[w].pc = "arm" => worker[w].fits)
    BY DEF RetryIsOwed
  <2>1. Owed(m)
    BY DEF RetryInv, OwedInv
  <2> QED
    BY <2>1 DEF Owed, Carries, Brings
<1>3. IInv /\ RetryInv /\ ~Overtaken /\ [Next]_vars => RetryInv'
  BY RetryNext
<1> QED
  BY <1>1, <1>2, <1>3, QueueInvariant, PTL DEF Spec
=============================================================================
