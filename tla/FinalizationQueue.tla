-------------------------- MODULE FinalizationQueue --------------------------
(***************************************************************************)
(* The close queue over all meetings (meeting_finalization.go:1257-1618):  *)
(* a fresh lane for closes and late transcripts, one serial backlog lane   *)
(* for historical repairs and retries, at most two workers, and one retry  *)
(* timer per meeting.  Every region under meetingFinalizationRunMu is one  *)
(* action; a run of finalizeMeetingCore is abstracted to what it does to   *)
(* the state of the meeting's receipt (MeetingFinalization models the run  *)
(* of one meeting in full).                                                *)
(***************************************************************************)
EXTENDS Naturals, FiniteSets, SequencesExt

CONSTANTS
  Meeting,
  Historic,      \* meetings that ended before this boot; the others are open
  Worker,        \* slots for worker goroutines
  Timer,         \* slots for time.Timer objects; their number is a bound
  MaxLate,       \* bound: transcripts that reach an ended meeting
  MaxFails,      \* bound: failed runs
  MayStop        \* whether the app may be closed (stopMeetingFinalizationRetries)

ASSUME QueueConstants ==
  /\ IsFiniteSet(Worker) /\ Historic \subseteq Meeting
  /\ "none" \notin Meeting \cup Timer
  /\ MaxLate \in Nat /\ MaxFails \in Nat /\ MayStop \in BOOLEAN

VARIABLES
  fresh, backlog,            \* meetingFinalizationQueue, meetingFinalizationBacklog
  queued,                    \* meetingFinalizationQueuedPriority: "no" when absent
  running,                   \* meetingFinalizationRunning
  active,                    \* meetingFinalizationActive: the lane, "no" when absent
  again,                     \* meetingFinalizationAgain
  retryQueued, retryActive,  \* meetingFinalizationRetryQueued, ...RetryActive
  backlogActive,             \* meetingFinalizationBacklogActive
  workers,                   \* meetingFinalizationWorkers
  worker,                    \* the worker goroutines
  timer,                     \* meetingFinalizationRetryTimers: a Timer or "none"
  object,                    \* the time.Timer objects and their callbacks
  stopped,                   \* meetingFinalizationRetriesStopped
  receipt,                   \* the durable receipt's state; "open" before the close
  phase,                     \* the close path of each meeting
  hook,                      \* commit hooks of late transcripts not yet run
  boot,                      \* historic receipts resumeMeetingFinalizationsAtBoot has not reached
  lates, fails

laneVars  == <<fresh, backlog, queued, running, again, retryQueued>>
doneVars  == <<active, retryActive, backlogActive>>
poolVars  == <<workers, worker>>
timerVars == <<timer, object>>
bndVars   == <<lates, fails>>
vars == <<fresh, backlog, queued, running, again, retryQueued, active, retryActive,
          backlogActive, workers, worker, timer, object, stopped, receipt, phase, hook, boot,
          lates, fails>>

Lane == {"fresh", "backlog"}

\* fits: the receipt still has the RetryAfter and RetryAttempt the goroutine or
\* the callback was given.
NoWork == [pc |-> "off", m |-> "none", lane |-> "fresh", err |-> FALSE, fits |-> FALSE]
NoObject == [at |-> "off", m |-> "none", fits |-> FALSE]

ReceiptState == {"open", "closing", "finalized", "degraded", "failed"}

TypeOK ==
  /\ fresh \in Seq(Meeting) /\ backlog \in Seq(Meeting)
  /\ queued \in [Meeting -> Lane \cup {"no"}] /\ active \in [Meeting -> Lane \cup {"no"}]
  /\ running \subseteq Meeting /\ again \subseteq Meeting
  /\ retryQueued \subseteq Meeting /\ retryActive \subseteq Meeting
  /\ backlogActive \in BOOLEAN /\ workers \in Nat
  /\ worker \in [Worker -> [pc : {"off", "look", "run", "work", "cancel", "finish", "retry", "arm"},
                            m : Meeting \cup {"none"}, lane : Lane, err : BOOLEAN, fits : BOOLEAN]]
  /\ timer \in [Meeting -> Timer \cup {"none"}]
  /\ object \in [Timer -> [at : {"off", "armed", "fired", "check", "schedule"},
                           m : Meeting \cup {"none"}, fits : BOOLEAN]]
  /\ stopped \in BOOLEAN
  /\ receipt \in [Meeting -> ReceiptState]
  /\ phase \in [Meeting -> {"open", "publishing", "ended", "signalled", "closed"}]
  /\ hook \subseteq Meeting /\ boot \subseteq Historic
  /\ lates \in Nat /\ fails \in Nat

Init ==
  /\ fresh = <<>> /\ backlog = <<>> /\ running = {} /\ again = {}
  /\ queued = [m \in Meeting |-> "no"] /\ active = [m \in Meeting |-> "no"]
  /\ retryQueued = {} /\ retryActive = {} /\ backlogActive = FALSE
  /\ workers = 0 /\ worker = [w \in Worker |-> NoWork]
  /\ timer = [m \in Meeting |-> "none"] /\ object = [t \in Timer |-> NoObject]
  /\ stopped = FALSE
  /\ receipt \in [Meeting -> {"open", "closing", "degraded", "failed"}]
  /\ \A m \in Meeting : receipt[m] = "open" <=> m \notin Historic
  /\ phase = [m \in Meeting |-> IF m \in Historic THEN "closed" ELSE "open"]
  /\ hook = {} /\ boot = Historic /\ lates = 0 /\ fails = 0

-----------------------------------------------------------------------------
(* Workers and lanes.                                                       *)

\* Wrong variant: a second worker is not reserved for the fresh lane.
ToStartOne(n) ==
  IF n = 0 /\ (fresh' # <<>> \/ (backlog' # <<>> /\ ~backlogActive')) THEN 1 ELSE 0

\* Wrong variant: a worker for every queued meeting.
ToStartMany(n) == IF fresh' # <<>> \/ backlog' # <<>> THEN 1 ELSE 0

\* ensureMeetingFinalizationWorkersLocked, on the queues as they are now.
ToStart(n) ==
  LET first == IF n = 0 /\ (fresh' # <<>> \/ (backlog' # <<>> /\ ~backlogActive')) THEN 1 ELSE 0
  IN  IF fresh' # <<>> /\ n + first < 2 THEN first + 1 ELSE first

\* The new goroutines take free slots; the others go on as in pool.
EnsureWorkers(pool) ==
  \E started \in SUBSET {w \in Worker : pool[w].pc = "off"} :
    /\ Cardinality(started) = ToStart(workers)
    /\ workers' = workers + ToStart(workers)
    /\ worker' = [w \in Worker |-> IF w \in started THEN [NoWork EXCEPT !.pc = "look"] ELSE pool[w]]

\* timer.Stop: a callback that has started is not stopped.
Stopped(objects, ts) ==
  [t \in Timer |-> IF t \in ts /\ objects[t].at = "armed" THEN NoObject ELSE objects[t]]

CancelTimer(m) ==
  /\ timer' = [timer EXCEPT ![m] = "none"]
  /\ object' = Stopped(object, {timer[m]})

\* Wrong variant: a queued backlog job is not promoted.
EnqueueInPlace(m, lane, isRetry) ==
  LET new == m \notin running
  IN  /\ running' = running \cup {m}
      /\ again' = IF lane = "fresh" /\ active[m] # "no" THEN again \cup {m} ELSE again
      /\ retryActive' = IF isRetry /\ active[m] # "no" THEN retryActive \cup {m} ELSE retryActive
      /\ retryQueued' = IF isRetry /\ active[m] = "no" THEN retryQueued \cup {m} ELSE retryQueued
      /\ queued' = IF new THEN [queued EXCEPT ![m] = lane] ELSE queued
      /\ fresh' = IF lane = "fresh" /\ new THEN Append(fresh, m) ELSE fresh
      /\ backlog' = IF lane = "backlog" /\ new THEN Append(backlog, m) ELSE backlog
      /\ UNCHANGED <<active, backlogActive>>
      /\ EnsureWorkers(worker)

\* Wrong variant: a promoted job stays in the backlog lane as well.
EnqueueTwice(m, lane, isRetry) ==
  LET new      == m \notin running
      promoted == lane = "fresh" /\ queued[m] = "backlog"
  IN  /\ running' = running \cup {m}
      /\ again' = IF lane = "fresh" /\ active[m] # "no" THEN again \cup {m} ELSE again
      /\ retryActive' = IF isRetry /\ active[m] # "no" THEN retryActive \cup {m} ELSE retryActive
      /\ retryQueued' = IF isRetry /\ active[m] = "no" THEN retryQueued \cup {m} ELSE retryQueued
      /\ queued' = IF new \/ promoted THEN [queued EXCEPT ![m] = lane] ELSE queued
      /\ fresh' = IF lane = "fresh" /\ (new \/ promoted) THEN Append(fresh, m) ELSE fresh
      /\ backlog' = IF lane = "backlog" /\ new THEN Append(backlog, m) ELSE backlog
      /\ UNCHANGED <<active, backlogActive>>
      /\ EnsureWorkers(worker)

\* removeMeetingFinalizationQueueID: the first m goes.
Removed(queue, m) ==
  LET at == {i \in DOMAIN queue : queue[i] = m}
  IN  IF at = {} THEN queue ELSE RemoveAt(queue, CHOOSE i \in at : \A j \in at : i <= j)

(***************************************************************************)
(* scheduleMeetingCoreFinalizationPriority under its lock.  A job is new,  *)
(* is promoted from the backlog lane by a fresh signal, or is active and   *)
(* asked to run again; a retry marks the job it meets.                     *)
(***************************************************************************)
Enqueue(m, lane, isRetry) ==
  LET new      == m \notin running
      promoted == lane = "fresh" /\ queued[m] = "backlog"
  IN  /\ running' = running \cup {m}
      /\ again' = IF lane = "fresh" /\ active[m] # "no" THEN again \cup {m} ELSE again
      /\ retryActive' = IF isRetry /\ active[m] # "no" THEN retryActive \cup {m} ELSE retryActive
      /\ retryQueued' = IF isRetry /\ active[m] = "no" THEN retryQueued \cup {m} ELSE retryQueued
      /\ queued' = IF new \/ promoted THEN [queued EXCEPT ![m] = lane] ELSE queued
      /\ fresh' = IF lane = "fresh" /\ (new \/ promoted) THEN Append(fresh, m) ELSE fresh
      /\ backlog' = IF promoted THEN Removed(backlog, m)
                    ELSE IF lane = "backlog" /\ new THEN Append(backlog, m) ELSE backlog
      /\ UNCHANGED <<active, backlogActive>>
      /\ EnsureWorkers(worker)

ScheduleFresh(m)   == CancelTimer(m) /\ Enqueue(m, "fresh", FALSE)
ScheduleBacklog(m) == Enqueue(m, "backlog", FALSE) /\ UNCHANGED timerVars

\* nextMeetingFinalizationLocked: the fresh lane first, then the backlog if no
\* backlog job is active.
TakeFresh(w) ==
  /\ worker[w].pc = "look" /\ fresh # <<>>
  /\ LET m == Head(fresh)
     IN  /\ fresh' = Tail(fresh)
         /\ queued' = [queued EXCEPT ![m] = "no"]
         /\ retryQueued' = retryQueued \ {m}
         /\ active' = [active EXCEPT ![m] = "fresh"]
         /\ worker' = [worker EXCEPT ![w] = [NoWork EXCEPT !.pc = "run", !.m = m, !.lane = "fresh"]]
  /\ UNCHANGED <<backlog, running, again, retryActive, backlogActive, workers, timerVars,
                 stopped, receipt, phase, hook, boot, bndVars>>

\* Wrong variant: the job that runs is not marked as a retry.
TakeBacklogUnmarked(w) ==
  /\ worker[w].pc = "look" /\ fresh = <<>> /\ backlog # <<>> /\ ~backlogActive
  /\ LET m == Head(backlog)
     IN  /\ backlog' = Tail(backlog)
         /\ queued' = [queued EXCEPT ![m] = "no"]
         /\ retryQueued' = retryQueued \ {m}
         /\ active' = [active EXCEPT ![m] = "backlog"]
         /\ worker' = [worker EXCEPT ![w] = [NoWork EXCEPT !.pc = "run", !.m = m, !.lane = "backlog"]]
  /\ backlogActive' = TRUE
  /\ UNCHANGED <<fresh, running, again, retryActive, workers, timerVars, stopped, receipt,
                 phase, hook, boot, bndVars>>

TakeBacklog(w) ==
  /\ worker[w].pc = "look" /\ fresh = <<>> /\ backlog # <<>> /\ ~backlogActive
  /\ LET m == Head(backlog)
     IN  /\ backlog' = Tail(backlog)
         /\ queued' = [queued EXCEPT ![m] = "no"]
         /\ retryActive' = IF m \in retryQueued THEN retryActive \cup {m} ELSE retryActive
         /\ retryQueued' = retryQueued \ {m}
         /\ active' = [active EXCEPT ![m] = "backlog"]
         /\ worker' = [worker EXCEPT ![w] = [NoWork EXCEPT !.pc = "run", !.m = m, !.lane = "backlog"]]
  /\ backlogActive' = TRUE
  /\ UNCHANGED <<fresh, running, again, workers, timerVars, stopped, receipt, phase, hook,
                 boot, bndVars>>

\* Wrong variant: the counter goes down twice.
LeaveTwice(w) ==
  /\ worker[w].pc = "look" /\ fresh = <<>>
  /\ backlog = <<>> \/ backlogActive
  /\ workers' = workers - 2
  /\ worker' = [worker EXCEPT ![w] = NoWork]
  /\ UNCHANGED <<laneVars, doneVars, timerVars, stopped, receipt, phase, hook, boot, bndVars>>

\* Nothing to do: the goroutine ends under the same lock.
Leave(w) ==
  /\ worker[w].pc = "look" /\ fresh = <<>>
  /\ backlog = <<>> \/ backlogActive
  /\ workers' = workers - 1
  /\ worker' = [worker EXCEPT ![w] = NoWork]
  /\ UNCHANGED <<laneVars, doneVars, timerVars, stopped, receipt, phase, hook, boot, bndVars>>

-----------------------------------------------------------------------------
(* One run of finalizeMeetingCore, as its receipt shows it.                 *)

\* Every receipt write changes RetryAfter or RetryAttempt.
WriteReceipt(m, state, pool) ==
  /\ receipt' = [receipt EXCEPT ![m] = state]
  /\ object' = [t \in Timer |-> IF object[t].m = m THEN [object[t] EXCEPT !.fits = FALSE] ELSE object[t]]
  /\ worker' = [w \in Worker |-> IF pool[w].m = m THEN [pool[w] EXCEPT !.fits = FALSE] ELSE pool[w]]

RunFrame == UNCHANGED <<laneVars, doneVars, workers, timer, stopped, phase, hook, boot, lates>>

\* beginFinalizationAtRevision: a settled receipt whose outputs are ready is
\* left alone, any other is closing from here on.
RunBegin(w) ==
  /\ worker[w].pc = "run"
  /\ LET m == worker[w].m
     IN  \/ /\ receipt[m] = "finalized"
            /\ worker' = [worker EXCEPT ![w].pc = "cancel"]
            /\ UNCHANGED <<receipt, object>>
         \/ WriteReceipt(m, "closing", [worker EXCEPT ![w].pc = "work"])
  /\ RunFrame /\ UNCHANGED fails

\* A late transcript keeps the receipt closing and costs the run another pass,
\* which waits for the mutation to let go of memory.mu.
RunOk(w) ==
  /\ worker[w].pc = "work" /\ worker[w].m \notin hook
  /\ WriteReceipt(worker[w].m, "finalized", [worker EXCEPT ![w].pc = "cancel"])
  /\ RunFrame /\ UNCHANGED fails

\* Degraded: with a retry due, or by an error no retry can mend.
RunFails(w) ==
  /\ worker[w].pc = "work" /\ fails < MaxFails
  /\ \E state \in {"degraded", "failed"} :
       WriteReceipt(worker[w].m, state, [worker EXCEPT ![w].pc = "finish", ![w].err = TRUE])
  /\ fails' = fails + 1
  /\ RunFrame

\* cancelMeetingFinalizationRetry.
Cancel(w) ==
  /\ worker[w].pc = "cancel"
  /\ CancelTimer(worker[w].m)
  /\ worker' = [worker EXCEPT ![w].pc = "finish"]
  /\ UNCHANGED <<laneVars, doneVars, workers, stopped, receipt, phase, hook, boot, bndVars>>

\* Wrong variant: the mark of an active retry is left behind.
FinishLeaky(w) ==
  /\ worker[w].pc = "finish"
  /\ LET m == worker[w].m
         rerun == m \in again
     IN  /\ active' = [active EXCEPT ![m] = "no"]
         /\ backlogActive' = (backlogActive /\ worker[w].lane = "fresh")
         /\ again' = again \ {m}
         /\ running' = IF rerun THEN running ELSE running \ {m}
         /\ fresh' = IF rerun THEN Append(fresh, m) ELSE fresh
         /\ queued' = IF rerun THEN [queued EXCEPT ![m] = "fresh"] ELSE queued
         /\ UNCHANGED <<backlog, retryQueued, retryActive>>
  /\ EnsureWorkers([worker EXCEPT ![w].pc = IF worker[w].err THEN "retry" ELSE "look"])
  /\ UNCHANGED <<timerVars, stopped, receipt, phase, hook, boot, bndVars>>

\* Wrong variant: the serial lane stays taken.
FinishHoldsLane(w) ==
  /\ worker[w].pc = "finish"
  /\ LET m == worker[w].m
         rerun == m \in again
     IN  /\ active' = [active EXCEPT ![m] = "no"]
         /\ retryActive' = retryActive \ {m}
         /\ again' = again \ {m}
         /\ running' = IF rerun THEN running ELSE running \ {m}
         /\ fresh' = IF rerun THEN Append(fresh, m) ELSE fresh
         /\ queued' = IF rerun THEN [queued EXCEPT ![m] = "fresh"] ELSE queued
         /\ UNCHANGED <<backlog, retryQueued, backlogActive>>
  /\ EnsureWorkers([worker EXCEPT ![w].pc = IF worker[w].err THEN "retry" ELSE "look"])
  /\ UNCHANGED <<timerVars, stopped, receipt, phase, hook, boot, bndVars>>

\* Wrong variant: the meeting that asked to run again is put down first.
FinishForgetsAgain(w) ==
  /\ worker[w].pc = "finish"
  /\ LET m == worker[w].m
     IN  /\ active' = [active EXCEPT ![m] = "no"]
         /\ retryActive' = retryActive \ {m}
         /\ backlogActive' = (backlogActive /\ worker[w].lane = "fresh")
         /\ again' = again \ {m}
         /\ running' = running \ {m}
         /\ UNCHANGED <<fresh, queued, backlog, retryQueued>>
  /\ EnsureWorkers([worker EXCEPT ![w].pc = IF worker[w].err THEN "retry" ELSE "look"])
  /\ UNCHANGED <<timerVars, stopped, receipt, phase, hook, boot, bndVars>>

Finish(w) ==
  /\ worker[w].pc = "finish"
  /\ LET m == worker[w].m
         rerun == m \in again
     IN  /\ active' = [active EXCEPT ![m] = "no"]
         /\ retryActive' = retryActive \ {m}
         /\ backlogActive' = (backlogActive /\ worker[w].lane = "fresh")
         /\ again' = again \ {m}
         /\ running' = IF rerun THEN running ELSE running \ {m}
         /\ fresh' = IF rerun THEN Append(fresh, m) ELSE fresh
         /\ queued' = IF rerun THEN [queued EXCEPT ![m] = "fresh"] ELSE queued
         /\ UNCHANGED <<backlog, retryQueued>>
  /\ EnsureWorkers([worker EXCEPT ![w].pc = IF worker[w].err THEN "retry" ELSE "look"])
  /\ UNCHANGED <<timerVars, stopped, receipt, phase, hook, boot, bndVars>>

-----------------------------------------------------------------------------
(* Retry timers (scheduleMeetingFinalizationRetry).                         *)

\* The receipt is read again, after the queue lock and before it is taken anew.
RetryRead(w) ==
  /\ worker[w].pc = "retry"
  /\ worker' = [worker EXCEPT ![w] = IF receipt[worker[w].m] = "degraded"
                                     THEN [@ EXCEPT !.pc = "arm", !.fits = TRUE]
                                     ELSE [NoWork EXCEPT !.pc = "look"]]
  /\ UNCHANGED <<laneVars, doneVars, workers, timerVars, stopped, receipt, phase, hook, boot, bndVars>>

\* A new timer replaces the installed one.
Install(m, fits) ==
  \E t \in {u \in Timer : object[u].at = "off"} :
    /\ timer' = [timer EXCEPT ![m] = t]
    /\ object' = [Stopped(object, {timer[m]}) EXCEPT ![t] = [at |-> "armed", m |-> m, fits |-> fits]]

\* Wrong variant: the shutdown is not looked at.
ArmAlways(w) ==
  /\ worker[w].pc = "arm"
  /\ Install(worker[w].m, worker[w].fits)
  /\ worker' = [worker EXCEPT ![w] = [NoWork EXCEPT !.pc = "look"]]
  /\ UNCHANGED <<laneVars, doneVars, workers, stopped, receipt, phase, hook, boot, bndVars>>

Arm(w) ==
  /\ worker[w].pc = "arm"
  /\ IF stopped THEN UNCHANGED timerVars ELSE Install(worker[w].m, worker[w].fits)
  /\ worker' = [worker EXCEPT ![w] = [NoWork EXCEPT !.pc = "look"]]
  /\ UNCHANGED <<laneVars, doneVars, workers, stopped, receipt, phase, hook, boot, bndVars>>

ObjectFrame == UNCHANGED <<stopped, receipt, phase, hook, boot, bndVars>>

Fire(t) ==
  /\ object[t].at = "armed"
  /\ object' = [object EXCEPT ![t].at = "fired"]
  /\ ObjectFrame /\ UNCHANGED <<laneVars, doneVars, poolVars, timer>>

\* A callback that is no longer the meeting's timer has nothing to say.
Identify(t) ==
  /\ object[t].at = "fired"
  /\ IF timer[object[t].m] = t
     THEN /\ timer' = [timer EXCEPT ![object[t].m] = "none"]
          /\ object' = [object EXCEPT ![t].at = "check"]
     ELSE object' = [object EXCEPT ![t] = NoObject] /\ UNCHANGED timer
  /\ ObjectFrame /\ UNCHANGED <<laneVars, doneVars, poolVars>>

Check(t) ==
  /\ object[t].at = "check"
  /\ object' = [object EXCEPT ![t] = IF receipt[object[t].m] = "degraded" /\ object[t].fits
                                     THEN [@ EXCEPT !.at = "schedule"] ELSE NoObject]
  /\ ObjectFrame /\ UNCHANGED <<laneVars, doneVars, poolVars, timer>>

\* scheduleMeetingCoreFinalizationRetry: the callback ends with it.
RetrySignal(t) ==
  /\ object[t].at = "schedule"
  /\ object' = [object EXCEPT ![t] = NoObject] /\ UNCHANGED timer
  /\ Enqueue(object[t].m, "backlog", TRUE)
  /\ ObjectFrame

Stop ==
  /\ MayStop /\ ~stopped /\ stopped' = TRUE
  /\ timer' = [m \in Meeting |-> "none"]
  /\ object' = Stopped(object, {timer[m] : m \in Meeting})
  /\ UNCHANGED <<laneVars, doneVars, poolVars, receipt, phase, hook, boot, bndVars>>

-----------------------------------------------------------------------------
(* Who signals: the boot, the close of a live meeting, a late transcript.   *)

BootBacklog(m) ==
  /\ m \in boot /\ (receipt[m] # "degraded" \/ stopped)
  /\ boot' = boot \ {m}
  /\ ScheduleBacklog(m)
  /\ UNCHANGED <<stopped, receipt, phase, hook, bndVars>>

BootTimer(m) ==
  /\ m \in boot /\ receipt[m] = "degraded" /\ ~stopped
  /\ boot' = boot \ {m}
  /\ Install(m, TRUE)
  /\ UNCHANGED <<laneVars, doneVars, poolVars, stopped, receipt, phase, hook, bndVars>>

To(m, p) == phase' = [phase EXCEPT ![m] = p]

\* The idle close holds meetingLifecycleMu for writing, a mutation for reading.
NoCloseInProgress == \A m \in Meeting : phase[m] \notin {"publishing", "ended", "signalled"}

\* beginMeetingArchivePublication, then the write that ends the meeting.
Publish(m) ==
  /\ phase[m] = "open" /\ boot = {} /\ hook = {} /\ NoCloseInProgress
  /\ To(m, "publishing")
  /\ UNCHANGED <<laneVars, doneVars, poolVars, timerVars, stopped, receipt, hook, boot, bndVars>>

End(m) ==
  /\ phase[m] = "publishing"
  /\ WriteReceipt(m, "closing", worker)
  /\ To(m, "ended")
  /\ UNCHANGED <<laneVars, doneVars, workers, timer, stopped, hook, boot, bndVars>>

\* endMeetingArchivePublication(true): schedule, then lower the flag.
SignalClose(m) ==
  /\ phase[m] = "ended"
  /\ ScheduleFresh(m)
  /\ To(m, "signalled")
  /\ UNCHANGED <<stopped, receipt, hook, boot, bndVars>>

Unpublish(m) ==
  /\ phase[m] = "signalled"
  /\ To(m, "closed")
  /\ UNCHANGED <<laneVars, doneVars, poolVars, timerVars, stopped, receipt, hook, boot, bndVars>>

\* The write-ahead half of a late transcript, and its commit hook, which finds
\* no publication in progress.
Late(m) ==
  /\ phase[m] = "closed" /\ m \notin boot /\ hook = {} /\ lates < MaxLate
  /\ NoCloseInProgress
  /\ WriteReceipt(m, "closing", worker)
  /\ hook' = {m} /\ lates' = lates + 1
  /\ UNCHANGED <<laneVars, doneVars, workers, timer, stopped, phase, boot, fails>>

Hook(m) ==
  /\ m \in hook /\ hook' = {}
  /\ ScheduleFresh(m)
  /\ UNCHANGED <<stopped, receipt, phase, boot, bndVars>>

-----------------------------------------------------------------------------
WorkerStep(w) == \/ TakeFresh(w) \/ TakeBacklog(w) \/ Leave(w)
                 \/ RunBegin(w) \/ RunOk(w) \/ RunFails(w) \/ Cancel(w) \/ Finish(w)
                 \/ RetryRead(w) \/ Arm(w)
TimerStep(t)  == Fire(t) \/ Identify(t) \/ Check(t) \/ RetrySignal(t)
BootStep      == \E m \in Meeting : BootBacklog(m) \/ BootTimer(m)
CloseStep(m)  == End(m) \/ SignalClose(m) \/ Unpublish(m)

Next == \/ \E w \in Worker : WorkerStep(w)
        \/ \E t \in Timer : TimerStep(t)
        \/ BootStep \/ Stop
        \/ \E m \in Meeting : Publish(m) \/ CloseStep(m) \/ Late(m) \/ Hook(m)

Spec == Init /\ [][Next]_vars

\* Goroutines and expired timers are run; nobody has to close a room, to speak
\* late or to shut the app down.
Fairness ==
  /\ \A w \in Worker : WF_vars(WorkerStep(w))
  /\ \A t \in Timer : WF_vars(TimerStep(t))
  /\ WF_vars(BootStep)
  /\ \A m \in Meeting : WF_vars(CloseStep(m)) /\ WF_vars(Hook(m))

FairSpec == Spec /\ Fairness

-----------------------------------------------------------------------------
(* Properties.                                                              *)

Busy(w) == worker[w].pc \in {"run", "work", "cancel", "finish"}

Places(m) ==
  Cardinality({i \in DOMAIN fresh : fresh[i] = m})
  + Cardinality({i \in DOMAIN backlog : backlog[i] = m})
  + Cardinality({w \in Worker : Busy(w) /\ worker[w].m = m})

\* A tracked meeting is in exactly one place: one lane, or one worker.  In
\* particular no two workers finalize the same meeting, and no meeting is
\* tracked that nobody will run (meeting_finalization.go:1325-1364, 1573-1588).
TrackedOnce == \A m \in Meeting : Places(m) = IF m \in running THEN 1 ELSE 0

\* Boot cannot fan years of history out: two workers, one of them at most on a
\* historical job (meeting_finalization.go:1501-1517).
BoundedFanOut ==
  /\ workers = Cardinality({w \in Worker : worker[w].pc # "off"}) /\ workers <= 2
  /\ Cardinality({w \in Worker : Busy(w) /\ worker[w].lane = "backlog"}) <= 1

\* Fresh work never waits behind history alone: some worker is not on a
\* historical job (meeting_finalization.go:1502-1512).
FreshLaneOpen ==
  fresh # <<>> => \E w \in Worker : /\ worker[w].pc # "off"
                                    /\ ~(Busy(w) /\ worker[w].lane = "backlog")

\* canonicalReconcileDeferred.
Deferred ==
  \/ \E m \in Meeting : phase[m] \in {"open", "publishing", "ended", "signalled"}
  \/ again # {} \/ retryQueued # {} \/ retryActive # {}
  \/ \E m \in Meeting : queued[m] = "fresh" \/ active[m] = "fresh"

\* Whole-history parity work stays off while a meeting closed since the boot is
\* being finalized, in whatever lane (meeting_finalization.go:1462-1490).
LiveCloseDefersReconcile ==
  \A m \in Meeting \ (Historic \cup hook) : receipt[m] = "closing" => Deferred

\* A mark never outlives the job it belongs to, or parity work would be put off
\* for good (meeting_finalization.go:1475-1489, 1573-1585).
MarksFollowJobs ==
  /\ again \cup retryQueued \cup retryActive \subseteq running
  /\ again \cup retryActive \subseteq {m \in Meeting : active[m] # "no"}
  /\ backlogActive <=> \E m \in Meeting : active[m] = "backlog"

\* A timer that can still fire is the one its meeting's entry names, so that a
\* fresh signal or the shutdown can stop it (meeting_finalization.go:1403-1460).
ArmedIsListed ==
  \A t \in Timer : object[t].at = "armed" => ~stopped /\ timer[object[t].m] = t

\* A closing receipt has somebody who will settle it
\* (meeting_finalization.go:1325-1340, 1579-1585).
ClosingIsQueued ==
  \A m \in Meeting : receipt[m] = "closing" =>
    m \in running \/ m \in boot \/ m \in hook \/ phase[m] = "ended"

\* A degraded receipt that is due for a retry gets one without another boot: a
\* job, a timer or a goroutine on its way to one of them has the receipt as it
\* is (meeting_finalization.go:1367-1382).
RetryIsOwed ==
  \A m \in Meeting : receipt[m] = "degraded" /\ ~stopped =>
    \/ m \in running \/ m \in boot
    \/ \E t \in Timer : object[t].m = m /\ object[t].fits
    \/ \E w \in Worker : worker[w].m = m /\ worker[w].pc \in {"retry", "arm"}
                            /\ (worker[w].pc = "arm" => worker[w].fits)

\* A close and a late transcript each get a run in the fresh lane, whatever the
\* meeting's job is doing (meeting_finalization.go:1333-1348, 1519-1527).
FreshServed ==
  \A m \in Meeting : (phase[m] = "ended" \/ m \in hook) ~> active[m] = "fresh"

\* Every job ends, the historical ones included (meeting_finalization.go:1543-1592).
JobsEnd == \A m \in Meeting : m \in running ~> m \notin running

-----------------------------------------------------------------------------
(* The queue as one meeting sees it.                                        *)

JobOf(m) == IF active[m] # "no" THEN "active" ELSE IF queued[m] # "no" THEN queued[m] ELSE "none"

\* A close and a late transcript ask until they have been heard.
AskedOf(m) == {a \in {"close", "late"} : IF a = "close" THEN phase[m] = "ended" ELSE m \in hook}

Job(m) == INSTANCE MeetingJob WITH
  Asker <- {"close", "late"}, Restarts <- FALSE,
  asked <- AskedOf(m), job <- JobOf(m), again <- (m \in again)

\* For each meeting the queue implements MeetingJob: no signal is lost, whatever
\* the meeting's job is doing, none is heard without being given, no meeting is
\* run twice at a time, and no job disappears but through its run
\* (meeting_finalization.go:1325-1364, 1543-1592).
JobsAsPromised ==
  /\ \A m \in Meeting : Job(m)!Init
  /\ [][\A m \in Meeting : [Job(m)!Next]_(Job(m)!vars)]_vars
=============================================================================
