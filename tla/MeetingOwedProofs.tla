-------------------------- MODULE MeetingOwedProofs --------------------------
(***************************************************************************)
(* Nobody is left waiting: where the code keeps ClosingIsOwed, it keeps it  *)
(* for every set of rows and any number of passes and failures.  OwedInv is *)
(* about a pass and its place in the queue; two theorems use it, one for a  *)
(* process that is never restarted, one for any number of crashes.  A third *)
(* says of the archive what these say of the receipt.                       *)
(***************************************************************************)
EXTENDS MeetingFinalizationProofs

\* The receipt has the stage's output.
Stored(n) == receipt.stage[n].st = "complete"

\* From its begin to its claim a pass works on the receipt's source, and what
\* it has marked stays marked: markFinalizationComplete never refuses it.
Working == {"verify", "force", "brain", "callBrain", "markBrain", "digest", "callDigest",
            "markDigest", "markActions", "reobserve", "resnapshot", "complete"}

PassInv ==
  /\ fz.pc \in Working => receipt.src = fz.src
  /\ fz.pc \in {"digest", "callDigest", "markDigest", "markActions", "reobserve", "resnapshot",
                "complete"} => Stored("brain")
  /\ fz.pc \in {"markActions", "reobserve", "resnapshot", "complete"} => Stored("digest")
  /\ fz.pc \in {"reobserve", "resnapshot", "complete"} => Stored("actions")

\* A receipt that is closing has a place in the queue or a mutation whose hook
\* is still to come; if the pass that holds the place is about to give it back,
\* it has been asked to run again.
Closing == ended /\ receipt.state = "closing"

OwedInv ==
  /\ fz.pc # "off" => job = "active"
  /\ Closing /\ closer.pc \in {"off", "clear"} =>
       job # "none" \/ mut.pc # "off" \/ audit.pc = "schedule"
  /\ Closing /\ fz.pc \in {"verify", "cancel", "refresh"} => again \/ mut.pc # "off"
  /\ PassInv

-----------------------------------------------------------------------------
(* Everybody but the finalizer and the close paths.                         *)

\* What a step may do to a receipt it does not reopen.
SameStages == receipt'.src = receipt.src /\ receipt'.stage = receipt.stage

\* Nobody gives up the meeting's place; a mutation that ends, and one that
\* reopens the receipt, leaves somebody behind.
Aside ==
  /\ UNCHANGED <<ended, fz, audit, closer, publishing>>
  /\ SameStages
  /\ receipt'.state = "closing" => receipt.state = "closing" \/ mut'.pc # "off"
  /\ job # "none" => job' # "none"
  /\ job = "active" => job' = "active"
  /\ again => again'
  /\ mut.pc # "off" => mut'.pc # "off" \/ (ended => job' # "none" /\ (fz.pc # "off" => again'))

LEMMA AsideKeeps ==
  ASSUME OwedInv, Aside
  PROVE  OwedInv'
<1>1. fz'.pc # "off" => job' = "active"
  BY DEF OwedInv, Aside
<1>2. Closing' /\ closer'.pc \in {"off", "clear"} =>
        job' # "none" \/ mut'.pc # "off" \/ audit'.pc = "schedule"
  BY DEF OwedInv, Aside, Closing
<1>3. Closing' /\ fz'.pc \in {"verify", "cancel", "refresh"} => again' \/ mut'.pc # "off"
  BY DEF OwedInv, Aside, Closing
<1>4. PassInv' BY DEF OwedInv, PassInv, Aside, SameStages, Stored
<1> QED BY <1>1, <1>2, <1>3, <1>4 DEF OwedInv

\* What an open meeting does to its transcript leaves nobody waiting.
LEMMA OpenOwed ==
  ASSUME IInv, ~ended, ~ended', UNCHANGED fz
  PROVE  OwedInv'
BY DEF IInv, OpenInv, NoFz, OwedInv, PassInv, Working, Closing

\* A signal keeps the place and, when the meeting is being run, the run after.
LEMMA Signals ==
  ASSUME ScheduleFresh \/ ScheduleBacklog
  PROVE  /\ job' # "none" /\ (job = "active" => job' = "active") /\ (again => again')
         /\ (ScheduleFresh /\ job = "active" => again')
<1>1. job' # "none" /\ (job = "active" => job' = "active") BY DEF ScheduleFresh, ScheduleBacklog
<1>2. again => again' BY Zenon DEF ScheduleFresh, ScheduleBacklog
<1>3. ScheduleFresh /\ job = "active" => again' BY Zenon DEF ScheduleFresh
<1> QED BY <1>1, <1>2, <1>3

LEMMA RetryAside ==
  ASSUME RetryStep
  PROVE  Aside
<1>1. /\ UNCHANGED <<ended, fz, audit, closer, publishing, receipt, mut>>
      /\ ScheduleBacklog \/ UNCHANGED <<job, again>>
  BY DEF RetryStep, RetryRead, RetryArm, RetryFire, RetryCheck, endVars, jobVars
<1> QED BY <1>1, Signals DEF Aside, SameStages

LEMMA WrAside ==
  ASSUME TypeOK, NEW p \in Writers, WrStep(p)
  PROVE  Aside
<1>1. UNCHANGED <<ended, fz, audit, closer, publishing, mut, job, again>>
  BY DEF WrStep, WrFrame, endVars, jobVars, WrRead, WrSnap, WrLock, WrWrite, WrMark, WrTruthLock, WrTruthWrite
<1>2. receipt' = receipt \/ receipt' = Synced(receipt)
  BY DEF WrStep, recVars, Stamp, WrRead, WrSnap, WrLock, WrWrite, WrMark, WrTruthLock, WrTruthWrite
<1>3. /\ Synced(receipt).src = receipt.src /\ Synced(receipt).stage = receipt.stage
      /\ Synced(receipt).state = receipt.state
  BY DEF Synced, TypeOK, Receipt
<1>4. SameStages /\ receipt'.state = receipt.state BY <1>2, <1>3 DEF SameStages
<1> QED BY <1>1, <1>4 DEF Aside

-----------------------------------------------------------------------------
(* The close paths, with their one signal before the flag is lowered.       *)

LEMMA CloseOwed ==
  ASSUME TypeOK, IInv, OwedInv, CloseStart \/ CloseStep
  PROVE  OwedInv'
<1>a. closer \in CloserState BY DEF TypeOK
<1>b. UNCHANGED <<mut, fz, audit>>
  BY DEF CloseStart, CloseBegin, CloseStep, CloseFrame, CloseSnap, ClosePrewrite, CloseEnd, CloseArchive,
         CloseStamp, CloseTruth, CloseMarked, ClosePublish, CloseClear
<1>1. CASE CloseStart \/ CloseSnap \/ ClosePrewrite
  <2>1. ~ended /\ ended' = ended
    BY <1>1 DEF CloseStart, CloseBegin, CloseSnap, ClosePrewrite, endVars, IInv, LifecycleInv
  <2> QED BY <1>b, <2>1, OpenOwed
\* The receipt is created once, when nobody works on the meeting yet.
<1>2. CASE CloseEnd
  <2>1. ~ended BY <1>2 DEF CloseEnd, IInv, LifecycleInv
  <2>2. fz.pc = "off" BY <2>1 DEF IInv, OpenInv, NoFz
  <2>3. closer'.pc \in {"archive", "truth"} \/ ~ended'
    BY <1>2, <1>a, <2>1 DEF CloseEnd, CloserTo, CloserState, endVars
  <2> QED BY <1>b, <2>2, <2>3 DEF OwedInv, PassInv, Working, Closing
<1>3. CASE CloseArchive \/ CloseStamp \/ CloseTruth \/ CloseMarked \/ CloseClear
  <2>1. UNCHANGED <<ended, receipt, job, again>>
    BY <1>3 DEF CloseArchive, CloseStamp, CloseTruth, CloseMarked, CloseClear, recVars, endVars, jobVars
  <2>2. closer'.pc \in {"stamp", "marked", "publish"} \/ closer.pc = "clear"
    BY <1>3, <1>a DEF CloseArchive, CloseStamp, CloseTruth, CloseMarked, CloseClear, CloserTo, CloserState
  <2>3. PassInv' BY <1>b, <2>1 DEF OwedInv, PassInv, Stored, Working
  <2> QED BY <1>b, <2>1, <2>2, <2>3 DEF OwedInv, Closing
<1>4. CASE ClosePublish
  <2>1. /\ UNCHANGED <<ended, receipt>>
        /\ job' # "none" /\ (job = "active" => job' = "active") /\ (again => again')
    BY <1>4, Signals DEF ClosePublish, endVars
  <2>2. PassInv' BY <1>b, <2>1 DEF OwedInv, PassInv, Stored, Working
  <2> QED BY <1>b, <2>1, <2>2 DEF OwedInv, Closing
<1> QED BY <1>1, <1>2, <1>3, <1>4 DEF CloseStep

-----------------------------------------------------------------------------
(* The finalizer.                                                           *)

\* The step of a pass that keeps the meeting's place: what is left to show.
InPass == /\ UNCHANGED <<mut, ended, closer, audit, job, again>>
          /\ fz.pc # "off"

LEMMA InPassKeeps ==
  ASSUME OwedInv, InPass, PassInv',
         receipt'.state = "closing" /\ fz'.pc \in {"verify", "cancel", "refresh"} =>
           receipt.state = "closing" /\ fz.pc \in {"verify", "cancel", "refresh"}
  PROVE  OwedInv'
<1>1. job' = "active" BY DEF OwedInv, InPass
<1>2. Closing' /\ fz'.pc \in {"verify", "cancel", "refresh"} => again' \/ mut'.pc # "off"
  BY DEF OwedInv, InPass, Closing
<1>3. Closing' => job' # "none" BY <1>1
<1> QED BY <1>1, <1>2, <1>3 DEF OwedInv

\* Between passes nothing is claimed of the receipt.
LEMMA Elsewhere ==
  ASSUME OwedInv, InPass,
         \/ fz'.pc \in {"observe", "snapshot", "begin", "exhausted", "rebegin"}
         \/ fz'.pc = "refresh" /\ receipt'.state # "closing"
  PROVE  OwedInv'
<1>1. PassInv' BY DEF PassInv, Working
<1> QED BY <1>1, InPassKeeps

LEMMA PassEnds ==
  ASSUME OwedInv, InPass, NextPass
  PROVE  OwedInv'
<1>1. fz'.pc \in {"observe", "exhausted"} BY DEF NextPass, NoFz
<1> QED BY <1>1, Elsewhere

\* No write of the record fails.
LEMMA Persists ==
  ASSUME "receipt" \notin Faults
  PROVE  \A r : ~PersistFails(r)
BY DEF PersistFails, Fault

LEMMA DegradeOwed ==
  ASSUME "receipt" \notin Faults, TypeOK, OwedInv, InPass, NEW n \in StageName, NEW f \in BOOLEAN, Degrade(n, f)
  PROVE  OwedInv'
<1>1. ~PersistFails(Degraded(receipt, n, f)) BY Persists
<1>2. receipt' = Degraded(receipt, n, f) BY <1>1 DEF Degrade, Persist, Stamp
<1>3. receipt'.state = "degraded" BY <1>2, MarkFacts DEF TypeOK
<1>4. fz'.pc = "refresh" BY DEF Degrade, ExitErr, NoFz
<1> QED BY <1>3, <1>4, Elsewhere

\* A begin that goes through leaves the receipt on the pass's source.
LEMMA BeginOwed ==
  ASSUME TypeOK, NEW f \in BOOLEAN, receipt.obs = fz.rev,
         IF receipt.src # fz.src \/ NeedsReopen(receipt, fz.rev, f)
         THEN Persist(Begun(receipt, fz.src, fz.rev, f))
         ELSE UNCHANGED <<recVars, faults>>
  PROVE  receipt'.src = fz.src
<1>a. fz.src \in Source /\ receipt \in Receipt BY DEF TypeOK, FzState
<1>1. Begun(receipt, fz.src, receipt.obs, f).src = fz.src BY <1>a, BegunFacts
<1>2. \/ receipt' = Begun(receipt, fz.src, fz.rev, f)
      \/ receipt' = receipt /\ receipt.src = fz.src
  BY DEF Persist, Stamp, recVars
<1> QED BY <1>1, <1>2

\* A mark goes through, adds its stage and takes none away.
LEMMA MarkOwed ==
  ASSUME "receipt" \notin Faults, TypeOK, NEW n \in StageName, NEW next, FzMark(n, fz.out, To(next))
  PROVE  /\ fz' = [fz EXCEPT !.pc = next]
         /\ receipt'.src = receipt.src /\ Stored(n)'
         /\ \A m \in StageName : Stored(m) => Stored(m)'
<1>1. ~PersistFails(Completed(receipt, n, fz.out)) BY Persists
<1>2. fz' = [fz EXCEPT !.pc = next] /\ receipt' = Completed(receipt, n, fz.out)
  BY <1>1 DEF FzMark, Persist, Stamp, To
<1>3. receipt \in Receipt BY DEF TypeOK
<1>4. /\ Completed(receipt, n, fz.out).src = receipt.src
      /\ Completed(receipt, n, fz.out).stage
           = [receipt.stage EXCEPT ![n] = [st |-> "complete", out |-> fz.out]]
  BY <1>3 DEF Completed, Receipt
<1>5. receipt.stage \in [StageName -> Stage] BY <1>3 DEF Receipt
<1>6. Stored(n)' BY <1>2, <1>4, <1>5 DEF Stored
<1>7. \A m \in StageName : Stored(m) => Stored(m)' BY <1>2, <1>4, <1>5 DEF Stored
<1> QED BY <1>2, <1>4, <1>6, <1>7

\* A step that leaves the receipt alone and stays with the pass's source.
LEMMA SamePass ==
  ASSUME OwedInv, InPass, receipt' = receipt, fz'.src = fz.src,
         \/ fz.pc = "reobserve" /\ fz'.pc = "resnapshot"
         \/ fz.pc = "resnapshot" /\ fz'.pc = "complete"
         \/ fz.pc = "verify" /\ fz'.pc = "force"
         \/ fz.pc = "brain" /\ fz'.pc \in {"callBrain", "markBrain"}
         \/ fz.pc = "digest" /\ fz'.pc \in {"callDigest", "markDigest"}
  PROVE  OwedInv'
<1>1. PassInv' BY DEF OwedInv, PassInv, Stored, Working
<1> QED BY <1>1, InPassKeeps

LEMMA FzOwed ==
  ASSUME "receipt" \notin Faults, TypeOK, IInv, OwedInv, FzStep
  PROVE  OwedInv'
<1>a. fz \in FzState /\ "brain" \in StageName /\ "digest" \in StageName /\ "actions" \in StageName
  BY DEF TypeOK, StageName
<1>b. InPass \/ FzStart \/ FzFinish
  BY DEF FzStep, FzFrame, endVars, jobVars, InPass, FzObserve, FzSnapshot, FzBegin, FzVerify, FzForce, FzBrain,
         FzCallBrain, FzMarkBrain, FzDigest, FzCallDigest, FzMarkDigest, FzMarkActions, FzResnapshot,
         FzRebegin, FzComplete, FzExhausted, FzCancel
<1>c. ASSUME NEW pc, fz' = [fz EXCEPT !.pc = pc] PROVE fz'.pc = pc /\ fz'.src = fz.src
  BY <1>a, <1>c DEF FzState
<1>d. UNCHANGED <<mut, ended, closer, audit>> BY FzFrames
<1>1. CASE FzStart
  <2>1. fz'.pc = "observe" /\ job' = "active"
    BY <1>1 DEF FzStart, NoFz
  <2>2. PassInv' BY <2>1 DEF PassInv, Working
  <2> QED BY <1>d, <2>1, <2>2 DEF OwedInv
<1>2. CASE FzFinish
  <2>1. /\ fz'.pc = "off" /\ fz.pc = "refresh" /\ job' = (IF again THEN "fresh" ELSE "none")
        /\ UNCHANGED receipt
    BY <1>2 DEF FzFinish, NoFz
  <2>2. PassInv' BY <2>1 DEF PassInv, Working
  <2>3. Closing' => job' # "none" \/ mut'.pc # "off"
    <3>1. Closing' => again \/ mut.pc # "off" BY <1>d, <2>1 DEF OwedInv, Closing
    <3> QED BY <1>d, <2>1, <3>1
  <2> QED BY <1>d, <2>1, <2>2, <2>3 DEF OwedInv
<1>3. CASE InPass
  <2>a. ASSUME NEW n \in StageName, NEW f \in BOOLEAN, Degrade(n, f) PROVE OwedInv'
    BY <1>3, <2>a, DegradeOwed
  <2>1. CASE FzObserve
    <3>1. /\ receipt' = receipt /\ fz'.src = fz.src
          /\ fz'.pc = IF fz.pc = "observe" THEN "snapshot" ELSE "resnapshot"
          /\ fz.pc \in {"observe", "reobserve"}
      BY <1>a, <2>1 DEF FzObserve, FzState, recVars
    <3> QED BY <1>3, <3>1, Elsewhere, SamePass
  <2>2. CASE FzSnapshot
    <3>1. fz'.pc = "begin" BY <1>a, <2>2 DEF FzSnapshot, FzState
    <3> QED BY <1>3, <3>1, Elsewhere
  <2>3. CASE FzBegin
    <3>1. \/ NextPass
          \/ /\ receipt'.src = fz.src
             /\ fz' = IF receipt'.state = "finalized"
                      THEN [fz EXCEPT !.pc = "verify",
                                      !.outs = [n \in StageName |-> receipt.stage[n].out]]
                      ELSE [fz EXCEPT !.pc = "brain"]
      BY <2>3, BeginOwed, Persists DEF FzBegin, FzBeginAt
    <3>2. CASE ~NextPass
      <4>1. /\ fz'.src = fz.src /\ receipt'.src = fz.src
            /\ fz'.pc = IF receipt'.state = "finalized" THEN "verify" ELSE "brain"
        BY <1>a, <3>1, <3>2 DEF FzState
      <4>2. PassInv' BY <4>1 DEF PassInv, Working
      <4> QED BY <1>3, <4>1, <4>2, InPassKeeps
    <3> QED BY <1>3, <3>2, PassEnds
  <2>4. CASE FzVerify
    <3>1. fz.pc = "verify" /\ receipt' = receipt BY <2>4 DEF FzVerify, recVars
    <3>2. CASE ExitOk
      <4>1. fz'.pc = "cancel" BY <3>2 DEF ExitOk, NoFz
      <4>2. PassInv' BY <4>1 DEF PassInv, Working
      <4> QED BY <1>3, <3>1, <4>1, <4>2, InPassKeeps
    <3>3. CASE To("force")
      <4>1. fz'.pc = "force" /\ fz'.src = fz.src BY <1>c, <3>3 DEF To
      <4> QED BY <1>3, <3>1, <4>1, SamePass
    <3> QED BY <2>4, <3>2, <3>3 DEF FzVerify
  <2>5. CASE FzForce
    <3>1. NextPass \/ (To("brain") /\ receipt'.src = fz.src)
      BY <2>5, BeginOwed, Persists DEF FzForce, FzBeginAt
    <3>2. CASE ~NextPass
      <4>1. fz'.pc = "brain" /\ fz'.src = fz.src /\ receipt'.src = fz.src BY <1>c, <3>1, <3>2 DEF To
      <4>2. PassInv' BY <4>1 DEF PassInv, Working
      <4> QED BY <1>3, <4>1, <4>2, InPassKeeps
    <3> QED BY <1>3, <3>2, PassEnds
  <2>6. CASE FzBrain
    <3>1. CASE ~Degrade("brain", FALSE)
      <4>1. /\ fz.pc = "brain" /\ receipt' = receipt
            /\ \/ \E k : fz' = [fz EXCEPT !.pc = "markBrain", !.out = k]
               \/ fz' = [fz EXCEPT !.pc = "callBrain"]
        BY <2>6, <3>1 DEF FzBrain, To, recVars
      <4>2. fz'.pc \in {"markBrain", "callBrain"} /\ fz'.src = fz.src BY <1>a, <4>1 DEF FzState
      <4> QED BY <1>3, <4>1, <4>2, SamePass
    <3> QED BY <1>a, <2>a, <3>1
  <2>7. CASE FzCallBrain \/ FzCallDigest \/ FzExhausted
    BY <1>a, <1>3, <2>a, <2>7, PassEnds DEF FzCallBrain, FzCallDigest, FzExhausted
  <2>8. CASE FzMarkBrain
    <3>1. /\ \E pc \in {"markDigest", "digest"} : fz' = [fz EXCEPT !.pc = pc]
          /\ receipt'.src = receipt.src /\ Stored("brain")'
      BY <1>a, <2>8, MarkOwed DEF FzMarkBrain
    <3>2. fz'.pc \in {"markDigest", "digest"} /\ fz'.src = fz.src BY <1>c, <3>1
    <3>3. receipt.src = fz.src BY <2>8 DEF FzMarkBrain, OwedInv, PassInv, Working
    <3>4. PassInv' BY <3>1, <3>2, <3>3 DEF PassInv, Working
    <3> QED BY <1>3, <3>2, <3>4, InPassKeeps
  <2>9. CASE FzDigest
    <3>1. CASE ~Degrade("digest", TRUE)
      <4>1. /\ fz.pc = "digest" /\ receipt' = receipt
            /\ \E k : \/ fz' = [fz EXCEPT !.pc = "markDigest", !.out = k]
                     \/ fz' = [fz EXCEPT !.pc = "callDigest", !.out = k]
        BY <2>9, <3>1 DEF FzDigest, recVars
      <4>2. fz'.pc \in {"markDigest", "callDigest"} /\ fz'.src = fz.src BY <1>a, <4>1 DEF FzState
      <4> QED BY <1>3, <4>1, <4>2, SamePass
    <3> QED BY <1>a, <2>a, <3>1
  <2>10. CASE FzMarkDigest
    <3>1. /\ fz' = [fz EXCEPT !.pc = "markActions"] /\ receipt'.src = receipt.src /\ Stored("digest")'
          /\ Stored("brain") => Stored("brain")'
      BY <1>a, <2>10, MarkOwed DEF FzMarkDigest
    <3>2. fz'.pc = "markActions" /\ fz'.src = fz.src BY <1>c, <3>1
    <3>3. receipt.src = fz.src /\ Stored("brain")
      BY <2>10 DEF FzMarkDigest, OwedInv, PassInv, Working
    <3>4. PassInv' BY <3>1, <3>2, <3>3 DEF PassInv, Working
    <3> QED BY <1>3, <3>2, <3>4, InPassKeeps
  <2>11. CASE FzMarkActions
    <3>1. CASE ~Degrade("actions", TRUE)
      <4>1. /\ \E pc \in {"complete", "reobserve"} : fz' = [fz EXCEPT !.pc = pc]
            /\ receipt'.src = receipt.src /\ Stored("actions")'
            /\ (Stored("brain") => Stored("brain")') /\ (Stored("digest") => Stored("digest")')
        BY <1>a, <2>11, <3>1, MarkOwed DEF FzMarkActions
      <4>2. fz'.pc \in {"complete", "reobserve"} /\ fz'.src = fz.src BY <1>c, <4>1
      <4>3. receipt.src = fz.src /\ Stored("brain") /\ Stored("digest")
        BY <2>11 DEF FzMarkActions, OwedInv, PassInv, Working
      <4>4. PassInv' BY <4>1, <4>2, <4>3 DEF PassInv, Working
      <4> QED BY <1>3, <4>2, <4>4, InPassKeeps
    <3> QED BY <1>a, <2>a, <3>1
  <2>12. CASE FzResnapshot
    <3>1. /\ fz.pc = "resnapshot" /\ receipt' = receipt
          /\ \/ fz'.pc = "complete" /\ fz'.src = fz.src
             \/ fz'.pc = "rebegin"
      BY <1>a, <2>12 DEF FzResnapshot, FzState, recVars
    <3> QED BY <1>3, <3>1, SamePass, Elsewhere
  <2>13. CASE FzRebegin
    <3>1. NextPass BY <2>13, Persists DEF FzRebegin, FzBeginAt
    <3> QED BY <1>3, <3>1, PassEnds
\* Everything is marked and the source is the receipt's: it can only be that
\* the source has advanced, or the claim is made.
  <2>14. CASE FzComplete
    <3>1. ~StagesIncomplete(receipt, fz.src)
      BY <2>14 DEF FzComplete, StagesIncomplete, OwedInv, PassInv, Working, Stored, StageName
    <3>2. ~PersistFails(Finalized(receipt)) BY Persists
    <3>3. NextPass \/ (receipt' = Finalized(receipt) /\ ExitOk)
      BY <2>14, <3>1, <3>2 DEF FzComplete, Persist, Stamp
    <3>4. CASE ~NextPass
      <4>1. receipt'.state = "finalized" BY <1>a, <3>3, <3>4, MarkFacts DEF TypeOK
      <4>2. fz'.pc = "cancel" BY <3>3, <3>4 DEF ExitOk, NoFz
      <4>3. PassInv' BY <4>2 DEF PassInv, Working
      <4> QED BY <1>3, <4>1, <4>3, InPassKeeps
    <3> QED BY <1>3, <3>4, PassEnds
  <2>15. CASE FzCancel
    <3>1. fz.pc = "cancel" /\ receipt' = receipt /\ fz'.pc = "refresh"
      BY <1>c, <2>15 DEF FzCancel, To
    <3>2. PassInv' BY <3>1 DEF PassInv, Working
    <3> QED BY <1>3, <3>1, <3>2, InPassKeeps
  <2> QED BY <1>1, <1>2, <2>1, <2>2, <2>3, <2>4, <2>5, <2>6, <2>7, <2>8, <2>9, <2>10, <2>11, <2>12,
             <2>13, <2>14, <2>15 DEF FzStep
<1> QED BY <1>b, <1>1, <1>2, <1>3

-----------------------------------------------------------------------------
(* A calm server: mutations and edits at any time, but no crash.            *)

\* No failed write of the record or of the archive, no restart and so no boot
\* audit, and no manual close: outside of this the promise is broken.
Calm ==
  /\ "receipt" \notin Faults /\ "archive" \notin Faults
  /\ MaxCrashes = 0
  /\ CloseModes \subseteq {"idle"}

\* An idle close in a process that is never restarted.
CalmInv ==
  /\ audit = NoAudit
  /\ publishing => closer.pc # "off"
  /\ closer.pc # "off" => closer.mode = "idle"

LEMMA MutAside ==
  ASSUME Calm, TypeOK, IInv, CalmInv, OwedInv, MutStart \/ MutStep \/ Tamper
  PROVE  Aside
<1>a. mut \in MutState /\ receipt \in Receipt BY DEF TypeOK
<1>b. UNCHANGED receipt => SameStages /\ receipt'.state = receipt.state BY DEF SameStages
<1>1. CASE MutStart
  <2>1. PICK kind \in {"append", "correct", "delete"}, del \in SUBSET Row, add \in SUBSET Row :
          MutBegin(kind, del, add)
    BY <1>1 DEF MutStart
  <2>2. mut'.pc = "fence" BY <2>1 DEF MutBegin, NoMut
  <2>3. UNCHANGED <<ended, fz, audit, closer, publishing, receipt, job, again>>
    BY <2>1 DEF MutBegin, recVars, endVars, jobVars
  <2> QED BY <1>b, <2>2, <2>3 DEF Aside
<1>2. CASE Tamper
  <2>1. /\ UNCHANGED <<ended, fz, audit, closer, publishing, receipt, mut>>
        /\ ScheduleFresh \/ UNCHANGED <<job, again>>
    BY <1>2 DEF Tamper, TamperBrain, TamperDigest, endVars, jobVars
  <2> QED BY <1>b, <2>1, Signals DEF Aside
<1>3. CASE MutFence
  <2>1. ~PersistFails(Observed(receipt)) BY DEF Calm, PersistFails, Fault
  <2>2. mut'.pc \in {"commit", "lock"} BY <1>3, <1>a, <2>1 DEF MutFence, MutState
  <2>3. UNCHANGED <<ended, fz, audit, closer, publishing, job, again>>
    BY <1>3 DEF MutFence, endVars, jobVars
  <2>4. receipt' = receipt \/ receipt' = Observed(receipt)
    BY <1>3, <2>1 DEF MutFence, Persist, Stamp, recVars
  <2>5. Observed(receipt).src = receipt.src /\ Observed(receipt).stage = receipt.stage
    BY <1>a DEF Observed, Receipt
  <2>6. SameStages BY <2>4, <2>5 DEF SameStages
  <2> QED BY <2>2, <2>3, <2>6 DEF Aside
<1>4. CASE MutLock \/ MutWrite \/ MutCommit
  <2>1. UNCHANGED <<ended, fz, audit, closer, publishing, receipt, job, again>>
    BY <1>4 DEF MutLock, MutWrite, MutCommit, recVars, endVars, jobVars
  <2>2. \A file : ~ArchiveFails(file) BY DEF Calm, ArchiveFails, Fault
  <2>3. mut'.pc \in {"write", "commit", "hook"}
    BY <1>4, <1>a, <2>2 DEF MutLock, MutWrite, MutCommit, MutState
  <2> QED BY <1>b, <2>1, <2>3 DEF Aside
\* An idle close excludes mutations while its flag is up, so the hook signals.
<1>5. CASE MutHook
  <2>1. UNCHANGED <<ended, fz, audit, closer, publishing, receipt>> BY <1>5 DEF MutHook, endVars
  <2>2. ~publishing BY <1>5 DEF MutHook, IInv, CalmInv, LifecycleInv, LifecycleFree
  <2>3. CASE ended
    <3>1. ScheduleFresh BY <1>5, <2>2, <2>3 DEF MutHook
    <3>2. fz.pc # "off" => job = "active" BY DEF OwedInv
    <3> QED BY <1>b, <2>1, <3>1, <3>2, Signals DEF Aside
  <2>4. CASE ~ended
    <3>1. UNCHANGED <<job, again>> BY <1>5, <2>4 DEF MutHook, jobVars
    <3> QED BY <1>b, <2>1, <2>4, <3>1 DEF Aside
  <2> QED BY <2>3, <2>4
<1> QED BY <1>1, <1>2, <1>3, <1>4, <1>5 DEF MutStep

LEMMA CloseCalm ==
  ASSUME Calm, TypeOK, IInv, CalmInv, CloseStart \/ CloseStep
  PROVE  CalmInv'
<1>a. closer \in CloserState BY DEF TypeOK
<1>b. audit' = NoAudit
  BY DEF CalmInv, CloseStart, CloseBegin, CloseStep, CloseFrame, CloseSnap, ClosePrewrite, CloseEnd,
         CloseArchive, CloseStamp, CloseTruth, CloseMarked, ClosePublish, CloseClear
<1>c. ~Fault("receipt") /\ \A file : ~ArchiveFails(file) BY DEF Calm, ArchiveFails, Fault
<1>d. ~CloseTruth /\ ~CloseMarked
  BY DEF CloseTruth, CloseMarked, IInv, LifecycleInv, CalmInv
<1>1. CASE CloseStart
  <2>1. closer'.pc = "snap" /\ closer'.mode = "idle"
    BY <1>1 DEF CloseStart, CloseBegin, NoCloser, Calm
  <2> QED BY <1>b, <2>1 DEF CalmInv
<1>2. CASE CloseSnap
  <2>1. closer.pc = "snap" /\ closer'.mode = closer.mode /\ closer'.pc \in {"end", "prewrite"}
    BY <1>a, <1>2 DEF CloseSnap, CloserState
  <2> QED BY <1>b, <2>1 DEF CalmInv
<1>3. CASE ClosePrewrite \/ CloseEnd \/ CloseArchive \/ CloseStamp \/ ClosePublish
  <2>1. \E pc \in {"end", "archive", "truth", "stamp", "publish", "clear"} : CloserTo(pc)
    BY <1>c, <1>3 DEF ClosePrewrite, CloseEnd, CloseArchive, CloseStamp, ClosePublish
  <2>2. closer'.pc # "off" /\ closer'.mode = closer.mode
    BY <1>a, <2>1 DEF CloserTo, CloserState
  <2>3. closer.pc # "off"
    BY <1>3 DEF ClosePrewrite, CloseEnd, CloseArchive, CloseStamp, ClosePublish
  <2> QED BY <1>b, <2>2, <2>3 DEF CalmInv
<1>4. CASE CloseClear
  BY <1>b, <1>4 DEF CloseClear, NoCloser, CalmInv
<1> QED BY <1>d, <1>1, <1>2, <1>3, <1>4 DEF CloseStep

LEMMA OwedInit == Init => OwedInv
BY DEF Init, NoFz, NoMut, NoCloser, OwedInv, PassInv, Working, Closing

LEMMA CalmStep ==
  ASSUME Calm, TypeOK, IInv, CalmInv, OwedInv, [Next]_vars
  PROVE  CalmInv' /\ OwedInv'
<1>a. ASSUME Aside PROVE CalmInv' /\ OwedInv'
  BY <1>a, AsideKeeps DEF Aside, CalmInv
<1>1. CASE MutStart \/ MutStep \/ Tamper BY <1>1, <1>a, MutAside
<1>2. CASE FzStep
  <2>1. UNCHANGED <<audit, closer, publishing>>
    BY <1>2 DEF FzStep, FzFrame, FzStart, FzObserve, FzSnapshot, FzBegin, FzVerify, FzForce, FzBrain,
       FzCallBrain, FzMarkBrain, FzDigest, FzCallDigest, FzMarkDigest, FzMarkActions,
       FzResnapshot, FzRebegin, FzComplete, FzExhausted, FzCancel, FzFinish
  <2> QED BY <1>2, <2>1, FzOwed DEF Calm, CalmInv
<1>3. CASE RetryStep BY <1>3, <1>a, RetryAside
<1>4. CASE \E p \in Writers : WrStep(p) BY <1>4, <1>a, WrAside
<1>5. CASE AuditStep
  BY <1>5 DEF AuditStep, AuditObserve, AuditSnapshot, AuditCheck, AuditRefreshed, AuditBegin,
         AuditSchedule, CalmInv, NoAudit
<1>6. CASE CloseStart \/ CloseStep BY <1>6, CloseOwed, CloseCalm
<1>7. CASE Restart BY <1>7 DEF Restart, Calm, TypeOK
<1>8. CASE UNCHANGED vars
  <2>1. Aside BY <1>8 DEF vars, Aside, SameStages
  <2> QED BY <2>1, <1>a
<1> QED BY <1>1, <1>2, <1>3, <1>4, <1>5, <1>6, <1>7, <1>8 DEF Next

\* While the receipt says closing somebody owes it a pass: no late mutation,
\* edited output, exhausted budget or failed provider call strands it, as long
\* as no write of the record or the archive fails, nobody restarts the process
\* and the room closes itself (memory.go:460-462, 2274-2276).
THEOREM NobodyWaits ==
  ASSUME Calm
  PROVE  Spec => []ClosingIsOwed
<1>1. Init => CalmInv BY DEF Init, CalmInv, NoCloser
<1>2. TypeOK /\ IInv /\ CalmInv /\ OwedInv /\ [Next]_vars => CalmInv' /\ OwedInv' BY CalmStep
<1>3. OwedInv => ClosingIsOwed BY DEF OwedInv, Closing, ClosingIsOwed
<1> QED BY <1>1, <1>2, <1>3, OwedInit, TypeCorrect, InvariantHolds, PTL DEF Spec

-----------------------------------------------------------------------------
(* A server that crashes, while nobody touches a meeting that has ended.    *)

\* No failed write of the record, no transcript mutation after the end and no
\* edited output.  The process may be restarted at any step, in either close,
\* and writes of the archive and of memory and calls to the provider may fail.
Untouched == "receipt" \notin Faults /\ MaxObserved = 0 /\ MaxTampers = 0

\* The boot audit has the meeting to itself, and until it reopens the receipt
\* there is nothing to owe.
AloneInv ==
  /\ gen # 0
  /\ ended => mut.pc = "off"
  /\ audit.pc # "off" =>
       job = "none" /\ closer.pc = "off" /\ \A c \in RetryCell : retry[c] = "off"
  /\ audit.pc \notin {"off", "schedule"} => receipt.state # "closing"

\* An open meeting has no audit.
LEMMA OpenAlone ==
  ASSUME IInv, AloneInv, ~ended, ~ended', UNCHANGED <<gen, audit>>
  PROVE  AloneInv'
BY DEF IInv, OpenInv, NoAudit, AloneInv

\* Only an open meeting is touched.
LEMMA MutOpen ==
  ASSUME Untouched, TypeOK, IInv, AloneInv, MutStart \/ MutStep \/ Tamper
  PROVE  ~ended /\ ~ended'
<1>1. ~Tamper
  BY DEF Untouched, AloneInv, TypeOK, Tamper, TamperDigest, TamperBrain
<1>2. ~ended
  <2>1. CASE MutStart
    <3>1. PICK kind \in {"append", "correct", "delete"}, del \in SUBSET Row, add \in SUBSET Row :
            MutBegin(kind, del, add)
      BY <2>1 DEF MutStart
    <3> QED BY <3>1 DEF MutBegin, Untouched, TypeOK, Receipt
  <2>2. CASE MutStep
    BY <2>2 DEF MutStep, MutFence, MutLock, MutWrite, MutCommit, MutHook, AloneInv
  <2> QED BY <1>1, <2>1, <2>2
<1>3. UNCHANGED ended
  BY <1>1 DEF MutStart, MutBegin, MutStep, MutFence, MutLock, MutWrite, MutCommit, MutHook, endVars
<1> QED BY <1>2, <1>3

LEMMA MutUntouched ==
  ASSUME Untouched, TypeOK, IInv, AloneInv, MutStart \/ MutStep \/ Tamper
  PROVE  AloneInv' /\ OwedInv'
<1>1. ~ended /\ ~ended' BY MutOpen
<1>2. ~Tamper
  BY DEF Untouched, AloneInv, TypeOK, Tamper, TamperDigest, TamperBrain
<1>3. UNCHANGED <<fz, gen, audit>>
  BY <1>2 DEF MutStart, MutBegin, MutStep, MutFence, MutLock, MutWrite, MutCommit, MutHook, memVars
<1> QED BY <1>1, <1>3, OpenAlone, OpenOwed

\* Whoever works for the queue or the timer does so without an audit.
LEMMA WorkersAlone ==
  ASSUME TypeOK, IInv, OwedInv, AloneInv,
         FzStep \/ RetryStep \/ \E p \in Writers : WrStep(p)
  PROVE  AloneInv'
<1>1. UNCHANGED <<gen, ended, mut, audit, closer>>
  BY FzFrames DEF FzStep, FzFrame, memVars, endVars, FzStart, FzObserve, FzSnapshot, FzBegin, FzVerify,
     FzForce, FzBrain, FzCallBrain, FzMarkBrain, FzDigest, FzCallDigest, FzMarkDigest, FzMarkActions,
     FzResnapshot, FzRebegin, FzComplete, FzExhausted, FzCancel, FzFinish,
     RetryStep, RetryRead, RetryArm, RetryFire, RetryCheck,
     WrStep, WrFrame, WrRead, WrSnap, WrLock, WrWrite, WrMark, WrTruthLock, WrTruthWrite
<1>2. CASE FzStep
  <2>1. fz.pc # "off" \/ job \in {"fresh", "backlog"}
    BY <1>2 DEF FzStep, FzStart, FzObserve, FzSnapshot, FzBegin, FzVerify, FzForce, FzBrain,
       FzCallBrain, FzMarkBrain, FzDigest, FzCallDigest, FzMarkDigest, FzMarkActions,
       FzResnapshot, FzRebegin, FzComplete, FzExhausted, FzCancel, FzFinish
  <2>2. job # "none" BY <2>1 DEF OwedInv
  <2> QED BY <1>1, <2>2 DEF AloneInv
<1>3. CASE RetryStep
  <2>1. \E c \in RetryCell : retry[c] # "off"
    BY <1>3 DEF RetryStep, RetryRead, RetryArm, RetryFire, RetryCheck, RetryCell
  <2> QED BY <1>1, <2>1 DEF AloneInv
<1>4. ASSUME NEW p \in Writers, WrStep(p) PROVE AloneInv'
  <2>1. UNCHANGED <<job, retry>>
    BY <1>4 DEF WrStep, WrFrame, recVars, jobVars, WrRead, WrSnap, WrLock, WrWrite, WrMark,
       WrTruthLock, WrTruthWrite
  <2>2. receipt'.state = receipt.state
    <3>1. receipt' = receipt \/ receipt' = Synced(receipt)
      BY <1>4 DEF WrStep, recVars, Stamp, WrRead, WrSnap, WrLock, WrWrite, WrMark, WrTruthLock, WrTruthWrite
    <3> QED BY <3>1 DEF Synced, TypeOK, Receipt
  <2> QED BY <1>1, <2>1, <2>2 DEF AloneInv
<1> QED BY <1>2, <1>3, <1>4

LEMMA AuditAlone ==
  ASSUME Untouched, TypeOK, OwedInv, AloneInv, AuditStep
  PROVE  AloneInv' /\ OwedInv'
<1>1. /\ UNCHANGED <<gen, ended, mut, fz, closer>> /\ audit.pc # "off"
      /\ job = "none" /\ closer.pc = "off" /\ \A c \in RetryCell : retry[c] = "off"
  BY DEF AloneInv, AuditStep, AuditFrame, memVars, endVars, AuditObserve, AuditSnapshot, AuditCheck,
         AuditRefreshed, AuditBegin, AuditSchedule
<1>2. fz.pc = "off" BY <1>1 DEF OwedInv
<1>3. CASE AuditSchedule
  <2>1. job' # "none" /\ audit' = NoAudit /\ UNCHANGED receipt
    BY <1>3, Signals DEF AuditSchedule, recVars
  <2> QED BY <1>1, <1>2, <2>1 DEF AloneInv, NoAudit, OwedInv, PassInv, Working
<1>4. CASE ~AuditSchedule
  <2>1. audit.pc \notin {"off", "schedule"} /\ receipt.state # "closing" /\ UNCHANGED job
    BY <1>4 DEF AloneInv, AuditStep, AuditObserve, AuditSnapshot, AuditCheck, AuditRefreshed, AuditBegin,
                jobVars
  <2>2. \A c \in RetryCell : retry'[c] = "off"
    BY <1>1, <1>4 DEF AuditStep, AuditObserve, AuditSnapshot, AuditCheck, AuditRefreshed, AuditBegin,
                recVars, Persist, PersistFails, Aged
  <2>3. audit'.pc = "schedule" \/ receipt' = receipt
    <3>1. \A r : ~PersistFails(r) BY Persists DEF Untouched
    <3>2. audit \in AuditState BY DEF TypeOK
    <3> QED BY <1>4, <3>1, <3>2 DEF AuditStep, AuditObserve, AuditSnapshot, AuditCheck, AuditRefreshed,
                AuditBegin, AuditTo, AuditState, recVars
  <2> QED BY <1>1, <1>2, <2>1, <2>2, <2>3 DEF AloneInv, OwedInv, PassInv, Working, Closing
<1> QED BY <1>3, <1>4

LEMMA CloseAlone ==
  ASSUME TypeOK, IInv, AloneInv, CloseStart \/ CloseStep
  PROVE  AloneInv'
<1>1. UNCHANGED <<gen, mut, audit>>
  BY DEF CloseStart, CloseBegin, CloseStep, CloseFrame, memVars, CloseSnap, ClosePrewrite, CloseEnd,
         CloseArchive, CloseStamp, CloseTruth, CloseMarked, ClosePublish, CloseClear
<1>2. audit.pc = "off"
  <2>1. CASE CloseStart
    <3>1. ~ended BY <2>1 DEF CloseStart, CloseBegin
    <3> QED BY <3>1 DEF IInv, OpenInv, NoAudit
  <2>2. CASE CloseStep
    BY <2>2 DEF AloneInv, CloseStep, CloseSnap, ClosePrewrite, CloseEnd, CloseArchive,
       CloseStamp, CloseTruth, CloseMarked, ClosePublish, CloseClear
  <2> QED BY <2>1, <2>2
<1>3. ended' => mut.pc = "off"
  <2>1. CASE CloseEnd BY <2>1 DEF CloseEnd, IInv, LifecycleInv, LifecycleFree
  <2>2. CASE ~CloseEnd
    <3>1. ended' = ended
      BY <2>2 DEF CloseStart, CloseBegin, CloseStep, endVars, CloseSnap, ClosePrewrite, CloseArchive,
         CloseStamp, CloseTruth, CloseMarked, ClosePublish, CloseClear
    <3> QED BY <3>1 DEF AloneInv
  <2> QED BY <2>1, <2>2
<1> QED BY <1>1, <1>2, <1>3 DEF AloneInv

\* The boot queues a closing receipt, and audits a finalized one only.
LEMMA RestartAlone ==
  ASSUME AloneInv, Restart
  PROVE  AloneInv' /\ OwedInv'
<1>1. /\ mut' = NoMut /\ fz' = NoFz /\ closer' = NoCloser /\ UNCHANGED gen /\ Resume(receipt')
  BY DEF Restart, memVars
<1>2. AloneInv'
  BY <1>1 DEF AloneInv, Resume, NoMut, NoCloser, NoAudit, NoRetry
<1>3. Closing' => job' # "none"
  BY <1>1 DEF Resume, Closing
<1> QED BY <1>1, <1>2, <1>3 DEF OwedInv, PassInv, Working, NoFz

LEMMA UntouchedStep ==
  ASSUME Untouched, TypeOK, IInv, AloneInv, OwedInv, [Next]_vars
  PROVE  AloneInv' /\ OwedInv'
<1>1. CASE MutStart \/ MutStep \/ Tamper BY <1>1, MutUntouched
<1>2. CASE FzStep BY <1>2, WorkersAlone, FzOwed DEF Untouched
<1>3. CASE RetryStep BY <1>3, WorkersAlone, RetryAside, AsideKeeps
<1>4. CASE \E p \in Writers : WrStep(p) BY <1>4, WorkersAlone, WrAside, AsideKeeps
<1>5. CASE AuditStep BY <1>5, AuditAlone
<1>6. CASE CloseStart \/ CloseStep BY <1>6, CloseOwed, CloseAlone
<1>7. CASE Restart BY <1>7, RestartAlone
<1>8. CASE UNCHANGED vars
  <2>1. Aside BY <1>8 DEF vars, Aside, SameStages
  <2>2. AloneInv' BY <1>8 DEF vars, AloneInv
  <2> QED BY <2>1, <2>2, AsideKeeps
<1> QED BY <1>1, <1>2, <1>3, <1>4, <1>5, <1>6, <1>7, <1>8 DEF Next

\* No crash, no failed write of the archive or of memory and no failed provider
\* call leaves a closing receipt behind, in either close path, as long as nobody
\* touches the meeting once it has ended and the record can be written
\* (resumeMeetingFinalizationsAtBoot, meeting_finalization.go:1594-1616).
THEOREM CrashesLeaveNobodyWaiting ==
  ASSUME Untouched
  PROVE  Spec => []ClosingIsOwed
<1>1. Init => AloneInv BY DEF Init, AloneInv, NoMut, NoAudit
<1>2. TypeOK /\ IInv /\ AloneInv /\ OwedInv /\ [Next]_vars => AloneInv' /\ OwedInv' BY UntouchedStep
<1>3. OwedInv => ClosingIsOwed BY DEF OwedInv, Closing, ClosingIsOwed
<1> QED BY <1>1, <1>2, <1>3, OwedInit, TypeCorrect, InvariantHolds, PTL DEF Spec

-----------------------------------------------------------------------------
(* The archive of a meeting that has settled.                               *)

\* The owned archive still holds an older receipt than the settled one.
Behind == ended /\ archived /\ Settled(receipt) /\ ~receipt.synced

\* Somebody is going to refresh it: a run, the boot audit, or a timer that
\* will be honoured.
ArchiveIsOwed ==
  Behind => \/ job # "none" \/ audit.pc \notin {"off", "schedule"}
            \/ \E c \in {"timer", "fired"} : retry[c] = "current"

\* Whom the writer works for.
Refreshing(p) ==
  \/ p = "worker" /\ fz.pc = "refresh"
  \/ p = "audit" /\ audit.pc = "refresh"
  \/ p = "manual" /\ closer.pc = "marked"

Copying(p) == wr[p].pc \in {"snap", "lock", "write", "mark"}

\* A refresh keeps the stored version of a settled receipt from its read to its
\* mark, and gives up only when there is nothing to do.
WriterInv ==
  \A p \in Writers :
    /\ wr[p].pc # "off" => Refreshing(p)
    /\ p # "manual" /\ Copying(p) => p \in holders /\ Settled(receipt)
    /\ p # "manual" /\ Refreshing(p) =>
         Copying(p) \/ wr[p].pc = "read" \/ (wr[p].pc = "off" /\ ~Behind)

\* Until a close has published the meeting nobody else works on it; the audit
\* holds the stored receipt.
CatchUpInv ==
  /\ WriterInv
  /\ closer.pc \in {"archive", "stamp", "truth", "marked", "publish"} =>
       job = "none" /\ receipt.state = "closing" /\ \A c \in RetryCell : retry[c] = "off"
  /\ audit.pc \in {"observe", "snapshot", "check", "begin"} => receipt = audit.rec
  /\ audit.pc \in {"snapshot", "check", "begin"} => receipt.obs = audit.rev
  /\ audit.pc = "schedule" => receipt.state = "closing"
  /\ Behind /\ job = "none" /\ audit.pc = "off" =>
       retry["arming"] = "off" /\ \E c \in {"timer", "fired"} : retry[c] = "current"

\* The case in which nobody is with the archive: the meeting is open.
LEMMA OpenCaught ==
  ASSUME IInv, CatchUpInv, ~ended, ~ended', UNCHANGED <<wr, fz, audit>>,
         closer'.pc \notin {"archive", "stamp", "truth", "marked", "publish"}
  PROVE  CatchUpInv'
<1>1. fz.pc = "off" /\ audit.pc = "off" BY DEF IInv, OpenInv, NoFz, NoAudit
<1>2. closer.pc # "marked" BY DEF IInv, LifecycleInv
<1>3. \A p \in Writers : wr[p].pc = "off" BY <1>1, <1>2 DEF CatchUpInv, WriterInv, Refreshing
<1>4. WriterInv' BY <1>1, <1>3 DEF WriterInv, Refreshing, Copying
<1> QED BY <1>1, <1>4 DEF CatchUpInv, Behind

\* The worker's writer and the audit's are never out together, and neither with
\* that of the close.
LEMMA OneWriter ==
  ASSUME AloneInv, OwedInv, CatchUpInv
  PROVE  /\ fz.pc = "refresh" => \A p \in Writers \ {"worker"} : wr[p].pc = "off" /\ ~Refreshing(p)
         /\ audit.pc = "refresh" => \A p \in Writers \ {"audit"} : wr[p].pc = "off" /\ ~Refreshing(p)
         /\ closer.pc = "marked" => \A p \in Writers \ {"manual"} : wr[p].pc = "off" /\ ~Refreshing(p)
         /\ fz.pc # "off" => audit.pc = "off"
                             /\ closer.pc \notin {"archive", "stamp", "truth", "marked", "publish"}
<1>1. fz.pc # "off" => /\ job = "active" /\ audit.pc = "off"
                       /\ closer.pc \notin {"archive", "stamp", "truth", "marked", "publish"}
  BY DEF OwedInv, AloneInv, CatchUpInv
<1>2. audit.pc # "off" => fz.pc = "off" /\ closer.pc = "off" BY <1>1 DEF AloneInv
<1> QED BY <1>1, <1>2 DEF CatchUpInv, WriterInv, Refreshing

\* A pass that returns asks its writer to look; the others leave it alone.
LEMMA FzWriters ==
  ASSUME TypeOK, FzStep, ~FzFinish
  PROVE  \/ fz'.pc # "refresh" /\ wr' = wr
         \/ fz'.pc = "refresh" /\ wr' = [wr EXCEPT !["worker"].pc = "read"]
<1> DEFINE Quietly == fz'.pc # "refresh" /\ wr' = wr
           Leaving == fz'.pc = "refresh" /\ wr' = [wr EXCEPT !["worker"].pc = "read"]
<1>a. fz \in FzState BY DEF TypeOK
<1>b. ASSUME NEW pc, pc # "refresh", To(pc), UNCHANGED wr PROVE Quietly
  BY <1>a, <1>b DEF To, FzState
<1>c. NextPass /\ UNCHANGED wr => Quietly BY DEF NextPass, NoFz
<1>d. ExitOk => Quietly BY <1>a DEF ExitOk, NoFz
<1>e. ExitErr => Leaving BY DEF ExitErr, NoFz
<1>f. ASSUME NEW n, NEW f, Degrade(n, f) PROVE Leaving BY <1>e, <1>f DEF Degrade
<1> SUFFICES Quietly \/ Leaving OBVIOUS
<1> HIDE DEF Quietly, Leaving
<1>1. CASE FzStart \/ FzObserve \/ FzSnapshot \/ FzResnapshot
  BY <1>1, <1>a DEF FzStart, FzObserve, FzSnapshot, FzResnapshot, NoFz, FzState, Quietly
<1>2. CASE FzBegin
  BY <1>2, <1>a, <1>c, <1>e DEF FzBegin, FzBeginAt, FzState, Quietly
<1>3. CASE FzVerify BY <1>3, <1>b, <1>d DEF FzVerify
<1>4. CASE FzForce BY <1>4, <1>b, <1>c, <1>e DEF FzForce, FzBeginAt
<1>5. CASE FzBrain
  BY <1>5, <1>a, <1>b, <1>f DEF FzBrain, FzState, Quietly
<1>6. CASE FzCallBrain \/ FzCallDigest BY <1>6, <1>c, <1>f DEF FzCallBrain, FzCallDigest
<1>7. CASE FzMarkBrain \/ FzMarkDigest \/ FzMarkActions
  BY <1>7, <1>b, <1>e, <1>f DEF FzMarkBrain, FzMarkDigest, FzMarkActions, FzMark
<1>8. CASE FzDigest
  BY <1>8, <1>a, <1>f DEF FzDigest, FzState, Quietly
<1>9. CASE FzRebegin BY <1>9, <1>c, <1>e DEF FzRebegin, FzBeginAt
<1>10. CASE FzComplete BY <1>10, <1>c, <1>d, <1>e DEF FzComplete
<1>11. CASE FzExhausted BY <1>11, <1>f DEF FzExhausted
<1>12. CASE FzCancel BY <1>12, <1>a DEF FzCancel, To, FzState, Leaving
<1> QED
  BY <1>1, <1>2, <1>3, <1>4, <1>5, <1>6, <1>7, <1>8, <1>9, <1>10, <1>11, <1>12
  DEF FzStep

LEMMA FzCatchesUp ==
  ASSUME TypeOK, AloneInv, OwedInv, CatchUpInv, FzStep
  PROVE  CatchUpInv'
<1>a. fz \in FzState /\ wr \in [Writers -> WrState] BY DEF TypeOK
<1>b. UNCHANGED <<audit, closer, ended, archived>>
  BY FzFrames DEF FzStep, FzFrame, endVars, FzStart, FzObserve, FzSnapshot, FzBegin, FzVerify,
     FzForce, FzBrain, FzCallBrain, FzMarkBrain, FzDigest, FzCallDigest, FzMarkDigest, FzMarkActions,
     FzResnapshot, FzRebegin, FzComplete, FzExhausted, FzCancel, FzFinish
<1>c. fz.pc # "off" \/ job \in {"fresh", "backlog"}
  BY DEF FzStep, FzStart, FzObserve, FzSnapshot, FzBegin, FzVerify, FzForce, FzBrain,
     FzCallBrain, FzMarkBrain, FzDigest, FzCallDigest, FzMarkDigest, FzMarkActions,
     FzResnapshot, FzRebegin, FzComplete, FzExhausted, FzCancel, FzFinish
<1>d. /\ job # "none" /\ audit.pc = "off"
      /\ closer.pc \notin {"archive", "stamp", "truth", "marked", "publish"}
  BY <1>c DEF OwedInv, AloneInv, CatchUpInv
<1>1. CASE FzFinish
  <2>1. /\ fz.pc = "refresh" /\ wr["worker"].pc = "off" /\ fz' = NoFz
        /\ UNCHANGED <<receipt, wr>>
    BY <1>1 DEF FzFinish
  <2>2. ~Behind' BY <1>b, <2>1 DEF CatchUpInv, WriterInv, Refreshing, Copying, Behind, Writers
  <2>3. \A p \in Writers : wr[p].pc = "off" BY <2>1, OneWriter
  <2>4. WriterInv' BY <1>b, <1>d, <2>1, <2>2, <2>3 DEF WriterInv, Refreshing, Copying, NoFz
  <2> QED BY <1>b, <1>d, <2>2, <2>4 DEF CatchUpInv
<1>2. CASE ~FzFinish
  <2>1. fz.pc # "refresh"
    BY <1>2 DEF FzStep, FzStart, FzObserve, FzSnapshot, FzBegin, FzVerify, FzForce, FzBrain,
       FzCallBrain, FzMarkBrain, FzDigest, FzCallDigest, FzMarkDigest, FzMarkActions,
       FzResnapshot, FzRebegin, FzComplete, FzExhausted, FzCancel
  <2>2. job' # "none"
    BY <1>2, <1>d, FzFrames DEF FzStep, FzFrame, jobVars, FzStart, FzObserve, FzSnapshot, FzBegin, FzVerify,
       FzForce, FzBrain, FzCallBrain, FzMarkBrain, FzDigest, FzCallDigest, FzMarkDigest, FzMarkActions,
       FzResnapshot, FzRebegin, FzComplete, FzExhausted, FzCancel
  <2>3. \A p \in Writers : wr[p].pc = "off" /\ ~Refreshing(p)
    BY <1>d, <2>1 DEF CatchUpInv, WriterInv, Refreshing
  <2>4. \/ fz'.pc # "refresh" /\ wr' = wr
        \/ fz'.pc = "refresh" /\ wr' = [wr EXCEPT !["worker"].pc = "read"]
    BY <1>2, <1>a, <2>1, FzWriters
  <2>5. \A p \in Writers : wr'[p].pc = IF p = "worker" /\ fz'.pc = "refresh" THEN "read" ELSE "off"
    BY <1>a, <2>3, <2>4 DEF Writers, WrState
  <2>6. WriterInv' BY <1>b, <1>d, <2>5 DEF WriterInv, Refreshing, Copying
  <2> QED BY <1>b, <1>d, <2>2, <2>6 DEF CatchUpInv
<1> QED BY <1>1, <1>2

\* A timer that will be honoured is not lost: it fires, is found current, and
\* queues the meeting.
LEMMA RetryCatchesUp ==
  ASSUME TypeOK, AloneInv, CatchUpInv, RetryStep
  PROVE  CatchUpInv'
<1>a. retry \in RetryState BY DEF TypeOK
<1>b. UNCHANGED <<receipt, holders, ended, archived, fz, wr, audit, closer>>
  BY DEF RetryStep, RetryRead, RetryArm, RetryFire, RetryCheck, endVars
<1>c. \E c \in RetryCell : retry[c] # "off"
  BY DEF RetryStep, RetryRead, RetryArm, RetryFire, RetryCheck, RetryCell
<1>d. audit.pc = "off" /\ closer.pc \notin {"archive", "stamp", "truth", "marked", "publish"}
  BY <1>c DEF AloneInv, CatchUpInv
<1>1. WriterInv' BY <1>b DEF CatchUpInv, WriterInv, Refreshing, Copying, Behind
<1>2. Behind' /\ job' = "none" =>
        retry'["arming"] = "off" /\ \E c \in {"timer", "fired"} : retry'[c] = "current"
  <2> SUFFICES ASSUME Behind', job' = "none"
               PROVE  retry'["arming"] = "off" /\ \E c \in {"timer", "fired"} : retry'[c] = "current"
    OBVIOUS
  <2>1. Behind BY <1>b DEF Behind
  <2>2. job = "none" /\ (RetryCheck => retry["fired"] # "current")
    BY DEF RetryStep, RetryRead, RetryArm, RetryFire, RetryCheck, ScheduleBacklog, jobVars
  <2>3. retry["arming"] = "off" /\ \E c \in {"timer", "fired"} : retry[c] = "current"
    BY <1>d, <2>1, <2>2 DEF CatchUpInv
  <2>4. CASE RetryFire BY <1>a, <2>3, <2>4 DEF RetryFire, RetryState, RetryCell
  <2>5. CASE RetryCheck BY <1>a, <2>2, <2>3, <2>5 DEF RetryCheck, RetryState, RetryCell
  <2> QED BY <2>3, <2>4, <2>5 DEF RetryStep, RetryRead, RetryArm
<1> QED BY <1>b, <1>d, <1>1, <1>2 DEF CatchUpInv

\* The conditions: those of Untouched, and a file that can be written.
CatchingUp == Untouched /\ "archive" \notin Faults

\* A writer that works for a run or for the audit either goes on, with the
\* version it has read, or has synced the receipt.
LEMMA RefreshStep ==
  ASSUME CatchingUp, TypeOK, CatchUpInv, NEW p \in Writers, p # "manual", Refreshing(p), WrStep(p)
  PROVE  /\ Copying(p)' => p \in holders' /\ Settled(receipt)'
         /\ Copying(p)' \/ wr'[p].pc = "read" \/ (wr'[p].pc = "off" /\ ~Behind')
         /\ receipt' = receipt \/ ~Behind'
         /\ \A q \in Writers : q # p => wr'[q] = wr[q]
<1>a. wr \in [Writers -> WrState] /\ receipt \in Receipt BY DEF TypeOK
<1>b. ~Fault("receipt") /\ \A file : ~ArchiveFails(file)
  BY DEF CatchingUp, Untouched, ArchiveFails, Fault
<1>c. UNCHANGED <<ended, archived>> BY DEF WrStep, WrFrame, endVars, WrRead, WrSnap, WrLock, WrWrite, WrMark,
       WrTruthLock, WrTruthWrite
<1>d. \A q \in Writers : q # p => wr'[q] = wr[q]
  BY <1>a DEF WrStep, WrTo, WrRepair, WrRead, WrSnap, WrLock, WrWrite, WrMark, WrTruthLock, WrTruthWrite
<1>e. /\ Copying(p) => p \in holders /\ Settled(receipt)
      /\ Copying(p) \/ wr[p].pc = "read" \/ (wr[p].pc = "off" /\ ~Behind)
  BY DEF CatchUpInv, WriterInv
<1>1. CASE WrRead(p)
  BY <1>1, <1>a, <1>c, <1>d DEF WrRead, WrTo, WrState, Copying, Behind
<1>2. CASE WrSnap(p)
  <2>1. /\ wr[p].pc = "snap" /\ wr' = [wr EXCEPT ![p].mem = transcripts, ![p].pc = "lock"]
        /\ UNCHANGED <<receipt, holders>>
    BY <1>2 DEF WrSnap, recVars
  <2> QED BY <2>1, <1>a, <1>d, <1>e DEF WrState, Copying, Settled
<1>3. CASE WrLock(p)
  <2>1. /\ wr[p].pc = "lock" /\ UNCHANGED <<receipt, holders>>
        /\ wr' = [wr EXCEPT ![p] = IF p \in holders
                             THEN [@ EXCEPT !.pc = "write", !.emb = EmbedNow]
                             ELSE NoWr]
    BY <1>3 DEF WrLock, recVars
  <2>2. p \in holders BY <1>e, <2>1 DEF Copying
  <2> QED BY <2>1, <2>2, <1>a, <1>d, <1>e DEF WrState, Copying, Settled
<1>4. CASE WrWrite(p)
  <2>1. wr[p].pc = "write" /\ wr' = [wr EXCEPT ![p].pc = "mark"] /\ UNCHANGED <<receipt, holders>>
    BY <1>4, <1>b DEF WrWrite, WrTo, recVars
  <2> QED BY <2>1, <1>a, <1>d, <1>e DEF WrState, Copying, Settled
<1>5. CASE WrMark(p)
  <2>1. p \in holders /\ Settled(receipt) BY <1>5, <1>e DEF WrMark, Copying
  <2>2. receipt' = Synced(receipt) /\ wr' = [wr EXCEPT ![p] = NoWr]
    BY <1>5, <1>b, <2>1 DEF WrMark, Stamp
  <2>3. ~Behind' BY <1>a, <2>2 DEF Synced, Receipt, Behind
  <2>4. wr'[p].pc = "off" BY <1>a, <2>2 DEF NoWr
  <2> QED BY <1>d, <2>3, <2>4 DEF Copying
<1>6. CASE WrTruthLock(p) \/ WrTruthWrite(p)
  BY <1>e, <1>6 DEF WrTruthLock, WrTruthWrite, Copying
<1> QED BY <1>1, <1>2, <1>3, <1>4, <1>5, <1>6 DEF WrStep

\* The manual close writes while the receipt is closing: it leaves it alone.
LEMMA PublicationStep ==
  ASSUME TypeOK, CatchUpInv, WrStep("manual")
  PROVE  /\ UNCHANGED receipt /\ receipt.state = "closing" /\ closer.pc = "marked"
         /\ \A q \in Writers : q # "manual" => wr'[q] = wr[q]
<1>1. wr["manual"].pc # "off"
  BY DEF WrStep, WrRead, WrSnap, WrLock, WrWrite, WrMark, WrTruthLock, WrTruthWrite
<1>2. closer.pc = "marked" /\ receipt.state = "closing"
  BY <1>1 DEF CatchUpInv, WriterInv, Refreshing, Writers
<1>3. UNCHANGED receipt
  BY <1>2 DEF WrStep, recVars, Settled, WrRead, WrSnap, WrLock, WrWrite, WrMark, WrTruthLock, WrTruthWrite
<1>4. \A q \in Writers : q # "manual" => wr'[q] = wr[q]
  BY DEF TypeOK, WrStep, WrTo, WrRepair, WrRead, WrSnap, WrLock, WrWrite, WrMark, WrTruthLock, WrTruthWrite
<1> QED BY <1>2, <1>3, <1>4

LEMMA WrCatchesUp ==
  ASSUME CatchingUp, TypeOK, AloneInv, OwedInv, CatchUpInv, NEW p \in Writers, WrStep(p)
  PROVE  CatchUpInv'
<1>a. UNCHANGED <<ended, archived, fz, audit, closer, job>>
  BY DEF WrStep, WrFrame, endVars, jobVars, WrRead, WrSnap, WrLock, WrWrite, WrMark, WrTruthLock, WrTruthWrite
<1>b. UNCHANGED retry
  BY DEF WrStep, recVars, WrRead, WrSnap, WrLock, WrWrite, WrMark, WrTruthLock, WrTruthWrite
<1>c. Refreshing(p)
  BY DEF CatchUpInv, WriterInv, WrStep, WrRead, WrSnap, WrLock, WrWrite, WrMark, WrTruthLock, WrTruthWrite
<1>d. \A q \in Writers : Refreshing(q)' <=> Refreshing(q) BY <1>a DEF Refreshing
<1>e. \A q \in Writers \ {p} : wr[q].pc = "off" /\ ~Refreshing(q)
  BY <1>c, OneWriter DEF Refreshing
<1>1. CASE p = "manual"
  <2>1. /\ UNCHANGED receipt /\ receipt.state = "closing" /\ closer.pc = "marked"
        /\ \A q \in Writers : q # "manual" => wr'[q] = wr[q]
    BY <1>1, PublicationStep
  <2>2. ~Behind' BY <2>1 DEF Behind, Settled
  <2>3. WriterInv'
    <3> SUFFICES ASSUME NEW q \in Writers
                 PROVE  /\ wr'[q].pc # "off" => Refreshing(q)'
                        /\ q # "manual" => ~Copying(q)' /\ ~Refreshing(q)'
      BY DEF WriterInv
    <3>1. CASE q = p BY <1>1, <1>c, <1>d, <3>1
    <3>2. CASE q # p BY <1>1, <1>d, <1>e, <2>1, <3>2 DEF Copying
    <3> QED BY <3>1, <3>2
  <2>4. audit.pc = "off" BY <2>1 DEF AloneInv
  <2> QED BY <1>a, <1>b, <2>1, <2>2, <2>3, <2>4 DEF CatchUpInv
<1>2. CASE p # "manual"
  <2>1. /\ Copying(p)' => p \in holders' /\ Settled(receipt)'
        /\ Copying(p)' \/ wr'[p].pc = "read" \/ (wr'[p].pc = "off" /\ ~Behind')
        /\ receipt' = receipt \/ ~Behind'
        /\ \A q \in Writers : q # p => wr'[q] = wr[q]
    BY <1>2, <1>c, RefreshStep
  <2>2. WriterInv'
    <3> SUFFICES ASSUME NEW q \in Writers
                 PROVE  /\ wr'[q].pc # "off" => Refreshing(q)'
                        /\ q # "manual" /\ Copying(q)' => q \in holders' /\ Settled(receipt)'
                        /\ q # "manual" /\ Refreshing(q)' =>
                             Copying(q)' \/ wr'[q].pc = "read" \/ (wr'[q].pc = "off" /\ ~Behind')
      BY DEF WriterInv
    <3>1. CASE q = p BY <1>c, <1>d, <2>1, <3>1
    <3>2. CASE q # p BY <1>d, <1>e, <2>1, <3>2 DEF Copying
    <3> QED BY <3>1, <3>2
  <2>3. fz.pc = "refresh" \/ audit.pc = "refresh" BY <1>2, <1>c DEF Refreshing
  <2>4. closer.pc \notin {"archive", "stamp", "truth", "marked", "publish"}
        /\ audit.pc \in {"off", "refresh"}
    BY <2>3, OneWriter DEF AloneInv
  <2>5. Behind' => Behind BY <1>a, <2>1 DEF Behind
  <2> QED BY <1>a, <1>b, <2>2, <2>4, <2>5 DEF CatchUpInv
<1> QED BY <1>1, <1>2

\* The audit, alone with the meeting, reopens the receipt, has its archive
\* refreshed, or finds it in order.
LEMMA AuditCatchesUp ==
  ASSUME CatchingUp, TypeOK, AloneInv, OwedInv, CatchUpInv, AuditStep
  PROVE  CatchUpInv'
<1>a. audit \in AuditState /\ wr \in [Writers -> WrState] /\ receipt \in Receipt BY DEF TypeOK
<1>b. /\ UNCHANGED <<ended, archived, fz, closer>> /\ audit.pc # "off"
      /\ closer.pc = "off" /\ fz.pc = "off"
  BY DEF AloneInv, OwedInv, AuditStep, AuditFrame, endVars, AuditObserve, AuditSnapshot, AuditCheck,
         AuditRefreshed, AuditBegin, AuditSchedule
<1>c. \A p \in Writers : p # "audit" => wr[p].pc = "off" /\ ~Refreshing(p) /\ ~Refreshing(p)'
  BY <1>b DEF CatchUpInv, WriterInv, Refreshing
<1>d. closer'.pc = "off" BY <1>b
<1> DEFINE AuditOK ==
      /\ audit'.pc \in {"observe", "snapshot", "check", "begin"} => receipt' = audit'.rec
      /\ audit'.pc \in {"snapshot", "check", "begin"} => receipt'.obs = audit'.rev
      /\ audit'.pc = "schedule" => receipt'.state = "closing"
      /\ Behind' /\ job' = "none" => audit'.pc # "off"
           WriterOK ==
      /\ wr'["audit"].pc # "off" => audit'.pc = "refresh"
      /\ ~Copying("audit")'
      /\ audit'.pc = "refresh" => wr'["audit"].pc = "read"
      /\ \A p \in Writers : p # "audit" => wr'[p] = wr[p]
<1>e. AuditOK /\ WriterOK => CatchUpInv'
  <2> HAVE AuditOK /\ WriterOK
  <2>1. WriterInv' BY <1>c DEF WriterInv, Refreshing, Copying
  <2> QED BY <1>d, <2>1 DEF CatchUpInv
<1>1. CASE AuditObserve \/ AuditSnapshot
  <2>1. UNCHANGED <<receipt, job, wr>> /\ audit.pc \in {"observe", "snapshot"}
    BY <1>1 DEF AuditObserve, AuditSnapshot, recVars, jobVars
  <2>2. wr["audit"].pc = "off" BY <2>1 DEF CatchUpInv, WriterInv, Refreshing, Writers
  <2>3. AuditOK BY <1>1, <1>a, <2>1 DEF AuditObserve, AuditSnapshot, AuditState, CatchUpInv
  <2>4. WriterOK BY <1>1, <1>a, <2>1, <2>2 DEF AuditObserve, AuditSnapshot, AuditState, Copying
  <2> QED BY <1>e, <2>3, <2>4
<1>2. CASE AuditCheck
  <2>1. /\ audit.pc = "check" /\ UNCHANGED <<receipt, job>>
        /\ receipt = audit.rec /\ receipt.obs = audit.rev
    BY <1>2 DEF AuditCheck, recVars, jobVars, CatchUpInv
  <2>2. wr["audit"].pc = "off" BY <2>1 DEF CatchUpInv, WriterInv, Refreshing, Writers
  <2>3. \/ audit' = [audit EXCEPT !.pc = "begin"] /\ UNCHANGED wr
        \/ audit' = [audit EXCEPT !.pc = "refresh"] /\ wr' = [wr EXCEPT !["audit"].pc = "read"]
        \/ audit' = NoAudit /\ UNCHANGED wr /\ (archived => audit.rec.synced)
    BY <1>2 DEF AuditCheck, AuditTo
  <2>4. AuditOK BY <1>a, <1>b, <2>1, <2>3 DEF AuditState, NoAudit, Behind
  <2>5. WriterOK BY <1>a, <2>1, <2>2, <2>3 DEF AuditState, NoAudit, Copying, WrState, Writers
  <2> QED BY <1>e, <2>4, <2>5
<1>3. CASE AuditRefreshed
  <2>1. /\ audit.pc = "refresh" /\ wr["audit"].pc = "off" /\ audit' = NoAudit
        /\ UNCHANGED <<receipt, job, wr>>
    BY <1>3 DEF AuditRefreshed, recVars, jobVars
  <2>2. ~Behind BY <2>1 DEF CatchUpInv, WriterInv, Refreshing, Copying, Writers
  <2>3. ~Behind' BY <1>b, <2>1, <2>2 DEF Behind
  <2> QED BY <1>e, <2>1, <2>3 DEF NoAudit, Copying
<1>4. CASE AuditBegin
  <2>1. /\ audit.pc = "begin" /\ UNCHANGED <<job, wr>>
        /\ receipt.obs = audit.rev
    BY <1>4 DEF AuditBegin, jobVars, CatchUpInv
  <2>2. wr["audit"].pc = "off" BY <2>1 DEF CatchUpInv, WriterInv, Refreshing, Writers
  <2>3. \A r : ~PersistFails(r) BY Persists DEF CatchingUp, Untouched
  <2>4. receipt' = Begun(receipt, audit.src, audit.rev, TRUE) /\ audit'.pc = "schedule"
    BY <1>4, <1>a, <2>1, <2>3 DEF AuditBegin, AuditTo, AuditState, Persist, Stamp
  <2>5. receipt'.state = "closing"
    BY <1>a, <2>4 DEF Begun, NewReceipt, NeedsReopen, Reopened, Receipt
  <2> QED BY <1>e, <2>1, <2>2, <2>4, <2>5 DEF Copying
<1>5. CASE AuditSchedule
  <2>1. /\ audit.pc = "schedule" /\ audit' = NoAudit /\ UNCHANGED <<receipt, wr>> /\ job' # "none"
    BY <1>5, Signals DEF AuditSchedule, recVars
  <2>2. wr["audit"].pc = "off" BY <2>1 DEF CatchUpInv, WriterInv, Refreshing, Writers
  <2> QED BY <1>e, <2>1, <2>2 DEF NoAudit, Copying
<1> QED BY <1>1, <1>2, <1>3, <1>4, <1>5 DEF AuditStep

LEMMA CloseCatchesUp ==
  ASSUME CatchingUp, TypeOK, IInv, AloneInv, OwedInv, CatchUpInv, CloseStart \/ CloseStep
  PROVE  CatchUpInv'
<1>a. closer \in CloserState /\ wr \in [Writers -> WrState] BY DEF TypeOK
<1>b. UNCHANGED <<fz, audit>>
  BY DEF CloseStart, CloseBegin, CloseStep, CloseFrame, CloseSnap, ClosePrewrite, CloseEnd,
         CloseArchive, CloseStamp, CloseTruth, CloseMarked, ClosePublish, CloseClear
<1>1. CASE CloseStart \/ CloseSnap \/ ClosePrewrite
  <2>1. ~ended /\ ended' = ended /\ UNCHANGED wr
    BY <1>1 DEF CloseStart, CloseBegin, CloseSnap, ClosePrewrite, endVars, IInv, LifecycleInv
  <2>2. closer'.pc \in {"off", "snap", "prewrite", "end"}
    <3>1. CASE CloseStart
      <4>1. PICK mode \in CloseModes : CloseBegin(mode) BY <3>1 DEF CloseStart
      <4> QED BY <4>1 DEF CloseBegin, NoCloser
    <3>2. CASE CloseSnap BY <3>2, <1>a DEF CloseSnap, CloserState
    <3>3. CASE ClosePrewrite BY <3>3, <1>a DEF ClosePrewrite, CloserTo, NoCloser, CloserState
    <3> QED BY <1>1, <3>1, <3>2, <3>3
  <2> QED BY <1>b, <2>1, <2>2, OpenCaught
<1>2. CASE CloseEnd
  <2>1. closer.pc = "end" /\ ~ended BY <1>2 DEF CloseEnd, IInv, LifecycleInv
  <2>2. fz.pc = "off" /\ audit.pc = "off" /\ job = "none" /\ \A c \in RetryCell : retry[c] = "off"
    BY <2>1 DEF IInv, OpenInv, NoFz, NoAudit
  <2>3. \A p \in Writers : wr[p].pc = "off" BY <2>1, <2>2 DEF CatchUpInv, WriterInv, Refreshing
  <2>4. UNCHANGED <<wr, job>> BY <1>2 DEF CloseEnd, jobVars
  <2>5. /\ closer'.pc \in {"archive", "truth"} /\ receipt'.state = "closing"
        /\ \A c \in RetryCell : retry'[c] = "off"
    BY <1>2, <1>a, <2>2 DEF CloseEnd, CatchingUp, Untouched, Fault, Persist, Stamp, Aged, NewReceipt,
       CloserTo, CloserState
  <2>6. WriterInv' BY <1>b, <2>2, <2>3, <2>4, <2>5 DEF WriterInv, Refreshing, Copying
  <2> QED BY <1>b, <2>2, <2>4, <2>5, <2>6 DEF CatchUpInv, Behind, Settled
<1>3. CASE CloseArchive \/ CloseStamp \/ CloseTruth \/ CloseMarked
  <2>1. closer.pc \in {"archive", "stamp", "truth", "marked"} /\ UNCHANGED <<receipt, retry, job>>
    BY <1>3 DEF CloseArchive, CloseStamp, CloseTruth, CloseMarked, recVars, jobVars
  <2>2. /\ job = "none" /\ receipt.state = "closing" /\ \A c \in RetryCell : retry[c] = "off"
    BY <2>1 DEF CatchUpInv
  <2>3. fz.pc = "off" /\ audit.pc = "off" BY <2>1, <2>2 DEF OwedInv, AloneInv
  <2>4. \A p \in Writers : wr[p].pc # "off" => p = "manual" /\ closer.pc = "marked"
    BY <2>3 DEF CatchUpInv, WriterInv, Refreshing
  <2>5. \A p \in Writers : wr'[p].pc # "off" => p = "manual" /\ closer'.pc = "marked"
    BY <1>3, <1>a, <2>4 DEF CloseArchive, CloseStamp, CloseTruth, CloseMarked, CloserTo, CloserState, Writers
  <2>6. WriterInv' BY <1>b, <2>3, <2>5 DEF WriterInv, Refreshing, Copying
  <2> QED BY <1>b, <2>1, <2>2, <2>3, <2>6 DEF CatchUpInv, Behind, Settled
<1>4. CASE ClosePublish \/ CloseClear
  <2>1. /\ closer.pc \in {"publish", "clear"} /\ UNCHANGED <<receipt, holders, ended, archived, wr>>
        /\ closer'.pc \in {"clear", "off"}
    BY <1>4, <1>a DEF ClosePublish, CloseClear, recVars, endVars, CloserTo, NoCloser, CloserState
  <2>2. WriterInv' BY <1>b, <2>1 DEF CatchUpInv, WriterInv, Refreshing, Copying, Behind
  <2>3. \/ job' # "none"
        \/ UNCHANGED <<job, retry>>
    BY <1>4, Signals DEF ClosePublish, CloseClear, recVars, jobVars
  <2>4. audit.pc = "off" BY <2>1 DEF AloneInv
  <2> QED BY <1>b, <2>1, <2>2, <2>3, <2>4 DEF CatchUpInv, Behind
<1> QED BY <1>1, <1>2, <1>3, <1>4 DEF CloseStep

\* The boot arms, audits or queues every settled receipt.
LEMMA RestartCatchesUp ==
  ASSUME TypeOK, Restart
  PROVE  CatchUpInv'
<1>1. /\ fz' = NoFz /\ closer' = NoCloser /\ wr' = [p \in Writers |-> NoWr] /\ Resume(receipt')
  BY DEF Restart
<1>2. WriterInv' BY <1>1 DEF WriterInv, Refreshing, Copying, NoFz, NoCloser, NoWr, Resume, NoAudit
<1>3. /\ audit'.pc \in {"off", "observe"} /\ (audit'.pc = "observe" => audit'.rec = receipt')
      /\ (ended' /\ receipt'.state = "finalized" => audit'.pc = "observe")
  BY <1>1 DEF Resume, NoAudit
<1>4. ended' /\ receipt'.state = "degraded" /\ job' = "none" =>
        retry'["arming"] = "off" /\ retry'["timer"] = "current"
  BY <1>1 DEF Resume, NoRetry, RetryCell
<1> QED BY <1>1, <1>2, <1>3, <1>4 DEF CatchUpInv, Behind, Settled, NoCloser

LEMMA CatchUpStep ==
  ASSUME CatchingUp, TypeOK, IInv, AloneInv, OwedInv, CatchUpInv, [Next]_vars
  PROVE  CatchUpInv'
<1>1. CASE MutStart \/ MutStep \/ Tamper
  <2>1. ~ended /\ ~ended' BY <1>1, MutOpen DEF CatchingUp
  <2>2. UNCHANGED <<wr, fz, audit, closer>>
    BY <1>1 DEF MutStart, MutBegin, MutStep, MutFence, MutLock, MutWrite, MutCommit, MutHook,
       Tamper, TamperBrain, TamperDigest
  <2>3. closer.pc \notin {"archive", "stamp", "truth", "marked", "publish"}
    BY <2>1 DEF IInv, LifecycleInv
  <2> QED BY <2>1, <2>2, <2>3, OpenCaught
<1>2. CASE FzStep BY <1>2, FzCatchesUp
<1>3. CASE RetryStep BY <1>3, RetryCatchesUp
<1>4. CASE \E p \in Writers : WrStep(p) BY <1>4, WrCatchesUp
<1>5. CASE AuditStep BY <1>5, AuditCatchesUp
<1>6. CASE CloseStart \/ CloseStep BY <1>6, CloseCatchesUp
<1>7. CASE Restart BY <1>7, RestartCatchesUp
<1>8. CASE UNCHANGED vars
  BY <1>8 DEF vars, CatchUpInv, WriterInv, Refreshing, Copying, Behind
<1> QED BY <1>1, <1>2, <1>3, <1>4, <1>5, <1>6, <1>7, <1>8 DEF Next

\* No crash and no failure of memory or of the provider leaves a settled meeting
\* with an archive that still holds an older receipt and nobody to refresh it,
\* as long as nobody touches the meeting once it has ended and both files can
\* be written (refreshMeetingArchiveFinalization, the retry timer and the boot,
\* meeting_finalization.go:1039-1068, 1594-1634).
THEOREM CrashesLeaveNoArchiveBehind ==
  ASSUME CatchingUp
  PROVE  Spec => []ArchiveIsOwed
<1>1. Init => AloneInv BY DEF Init, AloneInv, NoMut, NoAudit
<1>2. Init => CatchUpInv
  BY DEF Init, CatchUpInv, WriterInv, Refreshing, Copying, Behind, NoFz, NoAudit, NoCloser, NoWr
<1>3. TypeOK /\ IInv /\ AloneInv /\ OwedInv /\ [Next]_vars => AloneInv' /\ OwedInv'
  BY UntouchedStep DEF CatchingUp
<1>4. TypeOK /\ IInv /\ AloneInv /\ OwedInv /\ CatchUpInv /\ [Next]_vars => CatchUpInv' BY CatchUpStep
<1>5. AloneInv /\ CatchUpInv => ArchiveIsOwed
  BY DEF AloneInv, CatchUpInv, ArchiveIsOwed, Behind, Settled
<1> QED BY <1>1, <1>2, <1>3, <1>4, <1>5, OwedInit, TypeCorrect, InvariantHolds, PTL DEF Spec
=============================================================================
