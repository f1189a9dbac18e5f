------------------------------ MODULE MeetingJob ------------------------------
(***************************************************************************)
(* What the close queue promises one meeting: whoever asks for a fresh run *)
(* is answered by one signal, a signal that finds a run under way is kept   *)
(* until that run ends, runs follow one another, and a job ends only        *)
(* through its run.  FinalizationQueue implements it for each of its        *)
(* meetings, and MeetingFinalization is built on it.                        *)
(***************************************************************************)
CONSTANTS
  Asker,      \* who may ask for a fresh run
  Restarts    \* BOOLEAN: whether the process may be restarted

VARIABLES
  asked,      \* the askers who have not been answered
  job,        \* "none", "fresh" or "backlog" in a lane, "active" in a run
  again       \* whether the run under way has to be followed by another

vars == <<asked, job, again>>

Init == asked = {} /\ job = "none" /\ again = FALSE

Ask ==
  /\ asked \subseteq asked' /\ asked' \subseteq Asker
  /\ UNCHANGED <<job, again>>

FreshSignal ==
  /\ \E a \in Asker : asked' = asked \ {a}
  /\ job' = IF job = "active" THEN "active" ELSE "fresh"
  /\ again' = (again \/ job = "active")

BacklogSignal ==
  /\ job = "none" /\ job' = "backlog"
  /\ UNCHANGED <<asked, again>>

Start ==
  /\ job \in {"fresh", "backlog"} /\ job' = "active"
  /\ UNCHANGED <<asked, again>>

Finish ==
  /\ job = "active"
  /\ job' = IF again THEN "fresh" ELSE "none"
  /\ again' = FALSE
  /\ UNCHANGED asked

\* Queue and askers are gone; the boot may queue the meeting.
Restart ==
  /\ Restarts
  /\ asked' = {} /\ job' \in {"none", "backlog"} /\ again' = FALSE

Next == Ask \/ FreshSignal \/ BacklogSignal \/ Start \/ Finish \/ Restart

Spec == Init /\ [][Next]_vars
=============================================================================
