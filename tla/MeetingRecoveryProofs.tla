------------------------ MODULE MeetingRecoveryProofs ------------------------
(***************************************************************************)
(* Broken outputs are noticed: for every set of rows, any number of edited  *)
(* outputs, restarts and provider failures, and both close paths.           *)
(***************************************************************************)
EXTENDS MeetingFinalizationProofs

\* The transcript has settled and the record can be written; what may go wrong
\* is with the outputs, the archive, the provider and the process.
Quiet == MaxObserved = 0 /\ "receipt" \notin Faults

Stored(n) == receipt.stage[n].st = "complete"
Bound(n) == receipt.stage[n].out

\* What BrokenOutputsAreOwed is about.
Broken ==
  /\ ended /\ receipt.state = "finalized"
  /\ ~OutputsReady(receipt.src, [n \in StageName |-> Bound(n)])

\* From its begin to its claim a pass works on what memory holds; while it
\* makes outputs nothing is claimed.
Making == {"brain", "callBrain", "markBrain", "digest", "callDigest", "markDigest", "markActions",
           "reobserve", "resnapshot", "complete"}
Working == Making \cup {"verify", "force"}

SourceInv ==
  /\ ended => (mut.pc = "off" /\ receipt.obs = 0)
  /\ fz.pc # "off" => job = "active"
  /\ fz.pc \in Working => fz.src = transcripts
  /\ fz.pc \in {"digest", "callDigest"} => fz.src # {}
  /\ fz.pc \in Making => receipt.state # "finalized"

\* The pass's output number is the one memory holds for its source.
BrainIs(k)  == IF fz.src = {} THEN k = 0 ELSE [src |-> fz.src, id |-> k] \in brains
DigestIs(k) == IF fz.src = {} THEN k = 0
               ELSE digest.src = fz.src /\ digest.id # 0 /\ digest.id = k

\* What a pass has marked, and nobody has reset since, is in memory, unless
\* somebody has edited an output and so asked for another run.
MarksInv ==
  ~again =>
  /\ fz.pc = "markBrain" => BrainIs(fz.out)
  /\ (fz.pc \in {"digest", "callDigest", "markDigest", "markActions", "reobserve", "resnapshot",
                 "complete"} /\ Stored("brain")) => BrainIs(Bound("brain"))
  /\ fz.pc \in {"markDigest", "markActions"} => DigestIs(fz.out)
  /\ (fz.pc \in {"markActions", "reobserve", "resnapshot", "complete"} /\ Stored("digest"))
       => DigestIs(Bound("digest"))
  /\ (fz.pc \in {"reobserve", "resnapshot", "complete"} /\ Stored("actions"))
       => DigestIs(Bound("actions"))

\* A broken claim meets a job, or the boot audit before its check, with a
\* snapshot of that claim; a pass about to end on it runs once more.
NoticeInv ==
  /\ (Broken /\ job = "none") =>
       (audit.pc \in {"observe", "snapshot", "check", "begin"} /\ audit.rec.stage = receipt.stage)
  /\ (Broken /\ fz.pc \in {"cancel", "refresh"}) => again
  /\ (fz.pc = "verify" /\ receipt.state = "finalized") =>
       fz.outs = [n \in StageName |-> Bound(n)]

RecoveryInv == SourceInv /\ MarksInv /\ NoticeInv

-----------------------------------------------------------------------------
(* Everybody but the finalizer, the audit and those who edit outputs.       *)

\* With no transcript mutation after the end every source is the present one.
LEMMA OneSource ==
  ASSUME TypeOK, IInv, RecoveryInv, ended
  PROVE  /\ receipt.src = transcripts /\ receipt.obs = 0 /\ mut.pc = "off"
         /\ FzHolds => (fz.src = transcripts /\ fz.rev = 0)
         /\ AuditHolds => (audit.src = transcripts /\ audit.rev = 0)
<1>1. receipt.obs = 0 /\ mut.pc = "off" BY DEF RecoveryInv, SourceInv
<1>2. receipt.srcObs \in Nat /\ fz.rev \in Nat /\ audit.rev \in Nat
  BY DEF TypeOK, Receipt, FzState, AuditState
<1>3. receipt.srcObs = 0 /\ fz.rev = 0 /\ audit.rev = 0
  BY <1>1, <1>2 DEF IInv, ReceiptInv, FzInv, AuditInv
<1> QED BY <1>1, <1>3 DEF IInv, ReceiptInv, FzInv, AuditInv

\* The write keeps everything the claim is about.
SameClaim == /\ receipt'.src = receipt.src /\ receipt'.stage = receipt.stage
             /\ receipt'.state = receipt.state /\ receipt'.obs = receipt.obs

\* Neither the outputs nor the claim about them move, and nobody gives up the
\* meeting's place.
Beside ==
  /\ UNCHANGED <<transcripts, brains, digest, fz, audit, ended, mut>>
  /\ SameClaim
  /\ job # "none" => job' # "none"
  /\ job = "active" => job' = "active"
  /\ again => again'

\* Whoever stays beside the claim keeps the invariant.
LEMMA BesideKeeps ==
  ASSUME RecoveryInv, Beside
  PROVE  RecoveryInv'
<1>1. SourceInv' BY DEF RecoveryInv, SourceInv, Beside, SameClaim
<1>2. UNCHANGED <<fz, brains, digest>> /\ receipt'.stage = receipt.stage /\ (~again' => ~again)
  BY DEF Beside, SameClaim
<1>3. MarksInv' BY <1>2 DEF RecoveryInv, MarksInv, BrainIs, DigestIs, Stored, Bound
<1>4. Broken' <=> Broken BY DEF Beside, SameClaim, Broken, Bound, OutputsReady
<1>5. (Broken /\ job = "none")' =>
        (audit'.pc \in {"observe", "snapshot", "check", "begin"} /\ audit'.rec.stage = receipt'.stage)
  BY <1>4 DEF RecoveryInv, NoticeInv, Beside, SameClaim
<1>6. (Broken /\ fz.pc \in {"cancel", "refresh"})' => again'
  BY <1>4 DEF RecoveryInv, NoticeInv, Beside
<1>7. (fz.pc = "verify" /\ receipt.state = "finalized")' =>
        fz'.outs = [n \in StageName |-> Bound(n)']
  BY DEF RecoveryInv, NoticeInv, Beside, SameClaim, Bound
<1>8. NoticeInv' BY <1>5, <1>6, <1>7 DEF NoticeInv
<1> QED BY <1>1, <1>3, <1>8 DEF RecoveryInv

\* A signal keeps the place and, when the meeting is being run, the run after.
LEMMA Signals ==
  ASSUME ScheduleFresh \/ ScheduleBacklog
  PROVE  /\ job' # "none" /\ (job = "active" => job' = "active") /\ (again => again')
         /\ (ScheduleFresh /\ job = "active" => again')
<1>1. job' # "none" /\ (job = "active" => job' = "active") BY DEF ScheduleFresh, ScheduleBacklog
<1>2. again => again' BY Zenon DEF ScheduleFresh, ScheduleBacklog
<1>3. ScheduleFresh /\ job = "active" => again' BY Zenon DEF ScheduleFresh
<1> QED BY <1>1, <1>2, <1>3

\* The retry timer only signals.
LEMMA RetryBeside ==
  ASSUME RetryStep
  PROVE  Beside
<1>1. /\ UNCHANGED <<transcripts, brains, digest, ended, fz, audit, receipt, mut>>
      /\ ScheduleBacklog \/ UNCHANGED <<job, again>>
  BY DEF RetryStep, RetryRead, RetryArm, RetryFire, RetryCheck, memVars, endVars, jobVars
<1> QED BY <1>1, Signals DEF Beside, SameClaim

\* An archive writer only marks the receipt synced.
LEMMA WrBeside ==
  ASSUME TypeOK, NEW p \in Writers, WrStep(p)
  PROVE  Beside
<1>1. UNCHANGED <<transcripts, brains, digest, ended, fz, audit, mut, job, again>>
  BY DEF WrStep, WrFrame, memVars, endVars, jobVars, WrRead, WrSnap, WrLock, WrWrite, WrMark,
         WrTruthLock, WrTruthWrite
<1>2. receipt' = receipt \/ receipt' = Synced(receipt)
  BY DEF WrStep, recVars, Stamp, WrRead, WrSnap, WrLock, WrWrite, WrMark, WrTruthLock, WrTruthWrite
<1>3. /\ Synced(receipt).src = receipt.src /\ Synced(receipt).stage = receipt.stage
      /\ Synced(receipt).state = receipt.state /\ Synced(receipt).obs = receipt.obs
  BY DEF Synced, TypeOK, Receipt
<1>4. SameClaim BY <1>2, <1>3 DEF SameClaim
<1> QED BY <1>1, <1>4 DEF Beside

\* Once the meeting has ended a close path only writes the archive and signals.
LEMMA CloseBeside ==
  ASSUME IInv, ended, CloseStart \/ CloseStep
  PROVE  Beside
<1>1. closer.pc \notin {"snap", "prewrite", "end"} BY DEF IInv, LifecycleInv
<1>2. /\ UNCHANGED <<transcripts, brains, digest, ended, fz, audit, receipt, mut>>
      /\ ScheduleFresh \/ UNCHANGED <<job, again>>
  BY <1>1 DEF CloseStart, CloseBegin, CloseStep, CloseFrame, CloseSnap, ClosePrewrite, CloseEnd,
         CloseArchive, CloseStamp, CloseTruth, CloseMarked, ClosePublish, CloseClear, memVars,
         recVars, endVars, jobVars
<1> QED BY <1>2, Signals DEF Beside, SameClaim

-----------------------------------------------------------------------------
(* An edited output: the repair signal outlives the run that missed it.     *)

\* A run that was already past its look at the outputs is asked to run again.
LEMMA TamperKeeps ==
  ASSUME RecoveryInv, ended, Tamper
  PROVE  RecoveryInv'
<1>1. /\ UNCHANGED <<transcripts, receipt, ended, fz, audit, mut>> /\ ScheduleFresh
  BY DEF Tamper, TamperBrain, TamperDigest, endVars
<1>2. job' # "none" /\ (job = "active" => job' = "active" /\ again') BY <1>1, Signals
<1>3. fz'.pc # "off" => again' BY <1>1, <1>2 DEF RecoveryInv, SourceInv
<1>4. SourceInv' BY <1>1, <1>2 DEF RecoveryInv, SourceInv
<1>5. MarksInv'
  <2>1. CASE fz'.pc = "off" BY <2>1 DEF MarksInv
  <2>2. CASE again' BY <2>2 DEF MarksInv
  <2> QED BY <1>3, <2>1, <2>2
<1>6. (fz.pc = "verify" /\ receipt.state = "finalized")' =>
        fz'.outs = [n \in StageName |-> Bound(n)']
  BY <1>1 DEF RecoveryInv, NoticeInv, Bound
<1>7. NoticeInv'
  BY <1>2, <1>3, <1>6 DEF NoticeInv
<1> QED BY <1>4, <1>5, <1>7 DEF RecoveryInv

-----------------------------------------------------------------------------
(* The boot audit.                                                          *)

\* A forced begin withdraws the claim and forgets every output.
LEMMA ForcedFacts ==
  ASSUME NEW r \in Receipt, NEW s \in Source, NEW k \in Nat
  PROVE  LET b == Begun(r, s, k, TRUE)
         IN  b.state = "closing" /\ \A n \in StageName : b.stage[n] = Pending
<1>1. CASE r.src # s
  BY <1>1 DEF Begun, NewReceipt
<1>2. CASE r.src = s
  <2>1. Begun(r, s, k, TRUE) = Reopened(r, k, TRUE) BY <1>2 DEF Begun, NeedsReopen
  <2>2. Reopened(r, k, TRUE).state = "closing" BY DEF Reopened, Receipt
  <2>3. \A n \in StageName : Reopened(r, k, TRUE).stage[n] = Pending BY DEF Reopened, Receipt
  <2>4. Begun(r, s, k, TRUE).state = "closing" BY <2>1, <2>2
  <2>5. \A n \in StageName : Begun(r, s, k, TRUE).stage[n] = Pending BY <2>1, <2>3
  <2> QED BY <2>4, <2>5
<1> QED BY <1>1, <1>2

\* A claim the audit finds sound is not broken.
LEMMA SoundIsReady ==
  ASSUME TypeOK, IInv, RecoveryInv, ended, audit.pc = "check", audit.rec.stage = receipt.stage,
         OutputsReady(audit.src, [n \in StageName |-> audit.rec.stage[n].out])
  PROVE  ~Broken
<1>1. audit.src = receipt.src BY OneSource DEF AuditHolds
<1>2. [n \in StageName |-> audit.rec.stage[n].out] = [n \in StageName |-> Bound(n)]
  BY DEF Bound
<1>3. OutputsReady(receipt.src, [n \in StageName |-> Bound(n)]) BY <1>1, <1>2
<1> QED BY <1>3 DEF Broken

\* The audit keeps its eye on the claim until it has reopened the receipt.
LEMMA AuditKeeps ==
  ASSUME Quiet, TypeOK, IInv, RecoveryInv, ended, AuditStep
  PROVE  RecoveryInv'
<1>a. audit \in AuditState /\ receipt \in Receipt /\ transcripts \in Source BY DEF TypeOK
<1>b. UNCHANGED <<transcripts, brains, digest, ended, fz, mut>>
  BY DEF AuditStep, AuditFrame, AuditObserve, AuditSnapshot, AuditCheck, AuditRefreshed, AuditBegin,
         AuditSchedule, memVars, endVars
\* A step that leaves the receipt alone has only to keep its eye on the claim.
<1>c. ASSUME UNCHANGED receipt, job # "none" => job' # "none", job = "active" => job' = "active",
             again => again',
             (Broken /\ job' = "none") =>
               (audit'.pc \in {"observe", "snapshot", "check", "begin"}
                /\ audit'.rec.stage = receipt.stage)
      PROVE  RecoveryInv'
  <2>1. SourceInv' BY <1>b, <1>c DEF RecoveryInv, SourceInv
  <2>2. ~again' => ~again BY <1>c
  <2>3. MarksInv' BY <1>b, <1>c, <2>2 DEF RecoveryInv, MarksInv, BrainIs, DigestIs, Stored, Bound
  <2>4. Broken' <=> Broken BY <1>b, <1>c DEF Broken, Bound, OutputsReady
  <2>5. (Broken /\ fz.pc \in {"cancel", "refresh"})' => again'
    BY <1>b, <1>c, <2>4 DEF RecoveryInv, NoticeInv
  <2>6. (fz.pc = "verify" /\ receipt.state = "finalized")' =>
          fz'.outs = [n \in StageName |-> Bound(n)']
    BY <1>b, <1>c DEF RecoveryInv, NoticeInv, Bound
  <2>7. NoticeInv' BY <1>c, <2>4, <2>5, <2>6 DEF NoticeInv
  <2> QED BY <2>1, <2>3, <2>7 DEF RecoveryInv
<1>d. (Broken /\ job = "none") =>
        (audit.pc \in {"observe", "snapshot", "check", "begin"} /\ audit.rec.stage = receipt.stage)
  BY DEF RecoveryInv, NoticeInv
<1>1. CASE AuditObserve \/ AuditSnapshot
  <2>1. audit'.pc \in {"snapshot", "check"} /\ audit'.rec = audit.rec
    BY <1>a, <1>1 DEF AuditObserve, AuditSnapshot, AuditState
  <2>2. UNCHANGED <<receipt, job, again>>
    BY <1>1 DEF AuditObserve, AuditSnapshot, recVars, jobVars
  <2> QED BY <1>c, <1>d, <2>1, <2>2
<1>2. CASE AuditCheck
  <2>1. UNCHANGED <<receipt, job, again>> BY <1>2 DEF AuditCheck, recVars, jobVars
  <2>2. audit.pc = "check" BY <1>2 DEF AuditCheck
  <2>3. CASE AuditTo("begin")
    <3>1. audit'.pc = "begin" /\ audit'.rec = audit.rec BY <1>a, <2>3 DEF AuditTo, AuditState
    <3> QED BY <1>c, <1>d, <2>1, <3>1
  <2>4. CASE ~AuditTo("begin")
    <3>1. OutputsReady(audit.src, [n \in StageName |-> audit.rec.stage[n].out])
      BY <1>2, <2>4 DEF AuditCheck
    <3>2. ~(Broken /\ job = "none") BY <1>d, <2>2, <3>1, SoundIsReady
    <3> QED BY <1>c, <2>1, <3>2
  <2> QED BY <2>3, <2>4
<1>3. CASE AuditRefreshed
  <2>1. UNCHANGED <<receipt, job, again>> /\ audit.pc = "refresh"
    BY <1>3 DEF AuditRefreshed, recVars, jobVars
  <2> QED BY <1>c, <1>d, <2>1
<1>4. CASE AuditSchedule
  <2>1. receipt' = receipt /\ ScheduleBacklog BY <1>4 DEF AuditSchedule, recVars
  <2> QED BY <1>c, <2>1, Signals
<1>5. CASE AuditBegin
  <2>1. audit.pc = "begin" /\ UNCHANGED <<job, again>> BY <1>5 DEF AuditBegin, jobVars
  <2>2. receipt.obs = audit.rev BY <2>1, OneSource DEF AuditHolds
  <2>3. ~PersistFails(Begun(receipt, audit.src, audit.rev, TRUE)) BY DEF Quiet, PersistFails, Fault
  <2>4. receipt' = Begun(receipt, audit.src, receipt.obs, TRUE)
    BY <1>5, <2>2, <2>3 DEF AuditBegin, Persist, Stamp
  <2>5. audit.src \in Source /\ receipt.obs \in Nat BY <1>a DEF AuditState, Receipt
  <2>6. receipt'.state = "closing" /\ \A n \in StageName : receipt'.stage[n] = Pending
    BY <1>a, <2>4, <2>5, ForcedFacts
  <2>7. receipt'.obs = receipt.obs BY <1>a, <2>4, <2>5, BegunFacts
  <2>8. SourceInv' BY <1>b, <2>1, <2>6, <2>7 DEF RecoveryInv, SourceInv
  <2>9. MarksInv'
    <3>0. Pending.st # "complete" BY DEF Pending
    <3>1. ~Stored("brain")' /\ ~Stored("digest")' /\ ~Stored("actions")'
      BY <2>6, <3>0 DEF Stored, StageName
    <3> QED BY <1>b, <2>1, <3>1 DEF RecoveryInv, MarksInv, BrainIs, DigestIs
  <2>10. NoticeInv' BY <2>6 DEF NoticeInv, Broken
  <2> QED BY <2>8, <2>9, <2>10 DEF RecoveryInv
<1> QED BY <1>1, <1>2, <1>3, <1>4, <1>5 DEF AuditStep

-----------------------------------------------------------------------------
(* A restart, and the end of the meeting.                                   *)

\* A new receipt claims nothing.
LEMMA EndKeeps ==
  ASSUME NEW s, receipt' = NewReceipt(s, 0), fz'.pc = "off", mut'.pc = "off"
  PROVE  RecoveryInv'
<1>1. receipt'.state = "closing" /\ receipt'.obs = 0 BY DEF NewReceipt
<1> QED BY <1>1 DEF RecoveryInv, SourceInv, MarksInv, NoticeInv, Working, Making, Broken

\* The boot puts a finalized receipt before the audit.
LEMMA RestartKeeps ==
  ASSUME RecoveryInv, Restart
  PROVE  RecoveryInv'
<1>1. fz'.pc = "off" /\ mut'.pc = "off" BY DEF Restart, NoFz, NoMut
<1>2. CASE UNCHANGED <<endVars, receipt>>
  <2>1. SourceInv' BY <1>1, <1>2 DEF RecoveryInv, SourceInv, Working, Making, endVars
  <2>2. MarksInv' BY <1>1 DEF MarksInv
  <2>3. Broken' => audit'.pc = "observe" /\ audit'.rec = receipt'
    BY DEF Restart, Resume, Broken, NoAudit
  <2>4. NoticeInv' BY <1>1, <2>3 DEF NoticeInv
  <2> QED BY <2>1, <2>2, <2>4 DEF RecoveryInv
<1>3. CASE receipt' = NewReceipt(transcripts, 0) BY <1>1, <1>3, EndKeeps
<1> QED BY <1>2, <1>3 DEF Restart

-----------------------------------------------------------------------------
(* The finalizer.                                                           *)

\* The step of a pass that keeps the meeting's place: what is left to show.
InPass == /\ UNCHANGED <<transcripts, ended, mut, job, again>>
          /\ receipt'.obs = receipt.obs /\ fz.pc # "off"

\* The job of the pass answers for the claim; the rest concerns its outputs.
LEMMA InPassKeeps ==
  ASSUME RecoveryInv, InPass, MarksInv',
         fz'.pc \in Working => fz'.src = transcripts,
         fz'.pc \in {"digest", "callDigest"} => fz'.src # {},
         fz'.pc \in Making => receipt'.state # "finalized",
         (Broken' /\ fz'.pc \in {"cancel", "refresh"}) => again,
         (fz'.pc = "verify" /\ receipt'.state = "finalized") =>
           fz'.outs = [n \in StageName |-> receipt'.stage[n].out]
  PROVE  RecoveryInv'
<1>1. job' = "active" BY DEF RecoveryInv, SourceInv, InPass
<1>2. SourceInv' BY <1>1 DEF RecoveryInv, SourceInv, InPass
<1>3. again' = again BY DEF InPass
<1>4. NoticeInv' BY <1>1, <1>3 DEF NoticeInv, Bound
<1> QED BY <1>2, <1>4 DEF RecoveryInv

\* Between passes, and in a run that gives up its claim, nothing is promised.
LEMMA Elsewhere ==
  ASSUME RecoveryInv, InPass,
         \/ fz'.pc \in {"observe", "snapshot", "begin", "exhausted", "rebegin"}
         \/ fz'.pc = "refresh" /\ receipt'.state # "finalized"
  PROVE  RecoveryInv'
<1>1. MarksInv' BY DEF MarksInv
<1>2. fz'.pc \notin Working /\ fz'.pc \notin Making BY DEF Working, Making
<1>3. Broken' => receipt'.state = "finalized" BY DEF Broken
<1> QED BY <1>1, <1>2, <1>3, InPassKeeps

\* A pass that starts over promises nothing.
LEMMA PassEnds ==
  ASSUME RecoveryInv, InPass, NextPass
  PROVE  RecoveryInv'
<1>1. fz'.pc \in {"observe", "exhausted"} BY DEF NextPass, NoFz
<1> QED BY <1>1, Elsewhere

\* No write of the record fails.
LEMMA Persists ==
  ASSUME Quiet
  PROVE  \A r : ~PersistFails(r)
BY DEF Quiet, PersistFails, Fault

\* A run that degrades the receipt has withdrawn the claim.
LEMMA DegradeGivesUp ==
  ASSUME Quiet, TypeOK, RecoveryInv, InPass, NEW n \in StageName, NEW f \in BOOLEAN, Degrade(n, f)
  PROVE  RecoveryInv'
<1>1. ~PersistFails(Degraded(receipt, n, f)) BY Persists
<1>2. receipt' = Degraded(receipt, n, f) BY <1>1 DEF Degrade, Persist, Stamp
<1>3. receipt'.state = "degraded" BY <1>2, MarkFacts DEF TypeOK
<1>4. fz'.pc = "refresh" BY DEF Degrade, ExitErr, NoFz
<1> QED BY <1>3, <1>4, Elsewhere

\* A mark goes through; it binds the pass's output to its stage only.
LEMMA MarkWrites ==
  ASSUME Quiet, TypeOK, NEW n \in StageName, NEW next, FzMark(n, fz.out, To(next))
  PROVE  /\ fz' = [fz EXCEPT !.pc = next]
         /\ receipt'.stage[n].out = fz.out /\ receipt'.state = receipt.state
         /\ \A m \in StageName \ {n} : receipt'.stage[m] = receipt.stage[m]
<1>1. ~PersistFails(Completed(receipt, n, fz.out)) BY Persists
<1>2. fz' = [fz EXCEPT !.pc = next] /\ receipt' = Completed(receipt, n, fz.out)
  BY <1>1 DEF FzMark, Persist, Stamp, To
<1>3. receipt \in Receipt BY DEF TypeOK
<1>4. Completed(receipt, n, fz.out).stage
        = [receipt.stage EXCEPT ![n] = [st |-> "complete", out |-> fz.out]]
  BY <1>3 DEF Completed, Receipt
<1>5. receipt.stage \in [StageName -> Stage] BY <1>3 DEF Receipt
<1>6. Completed(receipt, n, fz.out).state = receipt.state BY <1>3 DEF Completed, Receipt
<1> QED BY <1>2, <1>4, <1>5, <1>6

\* A begin of the source at hand leaves a claim alone or withdraws it.
LEMMA BegunClaims ==
  ASSUME NEW r \in Receipt, NEW s \in Source, NEW k \in Nat, NEW f \in BOOLEAN
  PROVE  Begun(r, s, k, f).state = "finalized" => Begun(r, s, k, f) = r
<1>1. NewReceipt(s, k).state = "closing" BY DEF NewReceipt
<1>2. Reopened(r, k, f).state = "closing" BY DEF Reopened, Receipt
<1> QED BY <1>1, <1>2 DEF Begun

\* What is claimed with every stage marked is in memory.
LEMMA ClaimIsReady ==
  ASSUME RecoveryInv, fz.pc = "complete", ~StagesIncomplete(receipt, fz.src), ~again
  PROVE  OutputsReady(receipt.src, [n \in StageName |-> Bound(n)])
<1>1. receipt.src = fz.src /\ Stored("brain") /\ Stored("digest") /\ Stored("actions")
  BY DEF StagesIncomplete, Stored, StageName
<1>2. BrainIs(Bound("brain")) /\ DigestIs(Bound("digest")) /\ DigestIs(Bound("actions"))
  BY <1>1 DEF RecoveryInv, MarksInv
<1>3. /\ [n \in StageName |-> Bound(n)]["brain"] = Bound("brain")
      /\ [n \in StageName |-> Bound(n)]["digest"] = Bound("digest")
      /\ [n \in StageName |-> Bound(n)]["actions"] = Bound("actions")
  BY DEF StageName
<1>4. CASE fz.src = {}
  <2>1. Bound("brain") = 0 /\ Bound("digest") = 0 /\ Bound("actions") = 0
    BY <1>2, <1>4 DEF BrainIs, DigestIs
  <2> QED BY <1>1, <1>3, <1>4, <2>1 DEF OutputsReady, StageName
<1>5. CASE fz.src # {}
  BY <1>1, <1>2, <1>3, <1>5 DEF BrainIs, DigestIs, OutputsReady
<1> QED BY <1>4, <1>5

\* One step per action of the finalizer.
LEMMA FzKeeps ==
  ASSUME Quiet, TypeOK, IInv, RecoveryInv, ended, FzStep
  PROVE  RecoveryInv'
<1>a. /\ fz \in FzState /\ receipt \in Receipt
      /\ "brain" \in StageName /\ "digest" \in StageName /\ "actions" \in StageName
  BY DEF TypeOK, StageName
<1>b. InPass \/ FzStart \/ FzFinish
  <2>1. receipt'.obs = receipt.obs BY FzReceipt DEF IInv, FzEffect
  <2> QED BY <2>1 DEF FzStep, FzFrame, memVars, endVars, jobVars, InPass, FzObserve, FzSnapshot,
         FzBegin, FzVerify, FzForce, FzBrain, FzCallBrain, FzMarkBrain, FzDigest, FzCallDigest,
         FzMarkDigest, FzMarkActions, FzResnapshot, FzRebegin, FzComplete, FzExhausted, FzCancel
<1>c. ASSUME NEW pc, fz' = [fz EXCEPT !.pc = pc]
      PROVE fz'.pc = pc /\ fz'.src = fz.src /\ fz'.out = fz.out
  BY <1>a, <1>c DEF FzState
<1>d. UNCHANGED <<transcripts, ended, mut, audit>> BY FzFrames
<1>e. /\ fz.pc \in Working => fz.src = transcripts
      /\ fz.pc \in Making => receipt.state # "finalized"
  BY DEF RecoveryInv, SourceInv
<1>1. CASE FzStart
  <2>1. fz'.pc = "observe" /\ job' = "active" /\ receipt' = receipt
    BY <1>1 DEF FzStart, NoFz, recVars
  <2>2. SourceInv' BY <1>d, <2>1 DEF RecoveryInv, SourceInv, Working, Making
  <2>3. MarksInv' BY <2>1 DEF MarksInv
  <2>4. NoticeInv' BY <2>1 DEF NoticeInv
  <2> QED BY <2>2, <2>3, <2>4 DEF RecoveryInv
\* A run that ends on a broken claim has been asked to run again.
<1>2. CASE FzFinish
  <2>1. /\ fz'.pc = "off" /\ fz.pc = "refresh" /\ job' = (IF again THEN "fresh" ELSE "none")
        /\ UNCHANGED <<receipt, brains, digest>>
    BY <1>2 DEF FzFinish, NoFz, memVars
  <2>2. SourceInv' BY <1>d, <2>1 DEF RecoveryInv, SourceInv, Working, Making
  <2>3. MarksInv' BY <2>1 DEF MarksInv
  <2>4. Broken' => Broken BY <1>d, <2>1 DEF Broken, Bound, OutputsReady
  <2>5. Broken' => job' = "fresh" BY <2>1, <2>4 DEF RecoveryInv, NoticeInv
  <2>6. NoticeInv' BY <2>1, <2>5 DEF NoticeInv
  <2> QED BY <2>2, <2>3, <2>6 DEF RecoveryInv
<1>3. CASE InPass
  <2>a. ASSUME NEW n \in StageName, NEW f \in BOOLEAN, Degrade(n, f) PROVE RecoveryInv'
    BY <1>3, <2>a, DegradeGivesUp
  <2>1. CASE FzObserve
    <3>1. fz'.src = fz.src /\ UNCHANGED <<receipt, brains, digest>>
      BY <1>a, <2>1 DEF FzObserve, FzState, FzFrame, recVars, memVars
    <3>2. CASE fz.pc = "observe"
      <4>1. fz'.pc = "snapshot" BY <1>a, <2>1, <3>2 DEF FzObserve, FzState
      <4> QED BY <1>3, <4>1, Elsewhere
    <3>3. CASE fz.pc = "reobserve"
      <4>1. fz'.pc = "resnapshot" BY <1>a, <2>1, <3>3 DEF FzObserve, FzState
      <4>2. MarksInv'
        BY <1>3, <3>1, <3>3, <4>1 DEF RecoveryInv, MarksInv, InPass, BrainIs, DigestIs, Stored, Bound
      <4> QED BY <1>3, <1>e, <3>1, <3>3, <4>1, <4>2, InPassKeeps DEF Working, Making
    <3> QED BY <2>1, <3>2, <3>3 DEF FzObserve
  <2>2. CASE FzSnapshot
    <3>1. fz'.pc = "begin" BY <1>a, <2>2 DEF FzSnapshot, FzState
    <3> QED BY <1>3, <3>1, Elsewhere
  <2>3. CASE FzBegin
    <3>1. fz.src = transcripts /\ fz.rev = 0 /\ receipt.obs = 0
      BY <2>3, OneSource DEF FzBegin, FzHolds
    <3>2. CASE ~NextPass
      <4>1. /\ fz' = IF receipt'.state = "finalized"
                     THEN [fz EXCEPT !.pc = "verify",
                                     !.outs = [n \in StageName |-> receipt.stage[n].out]]
                     ELSE [fz EXCEPT !.pc = "brain"]
            /\ receipt' = receipt \/ receipt' = Begun(receipt, fz.src, fz.rev, FALSE)
        BY <2>3, <3>2, Persists DEF FzBegin, FzBeginAt, Persist, Stamp, recVars
      <4>2. /\ fz'.src = fz.src
            /\ fz'.pc = IF receipt'.state = "finalized" THEN "verify" ELSE "brain"
            /\ receipt'.state = "finalized" => fz'.outs = [n \in StageName |-> receipt.stage[n].out]
        BY <1>a, <4>1 DEF FzState
      <4>3. receipt'.state = "finalized" => receipt' = receipt
        <5>1. fz.src \in Source /\ fz.rev \in Nat BY <1>a DEF FzState
        <5> QED BY <1>a, <4>1, <5>1, BegunClaims
      <4>4. MarksInv' BY <4>2 DEF MarksInv
      <4>5. fz'.pc \in {"verify", "brain"} BY <4>2
      <4> QED BY <1>3, <3>1, <4>2, <4>3, <4>4, <4>5, InPassKeeps DEF Making
    <3> QED BY <1>3, <3>2, PassEnds
\* What has passed this look is in memory.
  <2>4. CASE FzVerify
    <3>1. fz.pc = "verify" /\ UNCHANGED <<receipt, brains, digest>>
      BY <2>4 DEF FzVerify, FzFrame, recVars, memVars
    <3>2. fz.src = transcripts /\ receipt.src = transcripts
      BY <3>1, OneSource DEF FzHolds
    <3>3. CASE ExitOk /\ OutputsReady(fz.src, fz.outs)
      <4>1. fz'.pc = "cancel" BY <3>3 DEF ExitOk, NoFz
      <4>2. receipt.state = "finalized" => OutputsReady(receipt.src, [n \in StageName |-> Bound(n)])
        BY <3>1, <3>2, <3>3 DEF RecoveryInv, NoticeInv
      <4>3. ~Broken' BY <1>d, <3>1, <4>2 DEF Broken, Bound, OutputsReady
      <4>4. MarksInv' BY <4>1 DEF MarksInv
      <4> QED BY <1>3, <4>1, <4>3, <4>4, InPassKeeps DEF Working, Making
    <3>4. CASE To("force")
      <4>1. fz'.pc = "force" /\ fz'.src = fz.src BY <1>c, <3>4 DEF To
      <4>2. MarksInv' BY <4>1 DEF MarksInv
      <4> QED BY <1>3, <3>2, <4>1, <4>2, InPassKeeps DEF Making
    <3> QED BY <2>4, <3>3, <3>4 DEF FzVerify
  <2>5. CASE FzForce
    <3>1. CASE ~NextPass
      <4>1. /\ To("brain")
            /\ receipt' = Begun(receipt, fz.src, fz.rev, TRUE)
        BY <2>5, <3>1, Persists DEF FzForce, FzBeginAt, NeedsReopen, Persist, Stamp
      <4>2. fz'.pc = "brain" /\ fz'.src = fz.src BY <1>c, <4>1 DEF To
      <4>3. fz.src = transcripts BY <1>e, <2>5 DEF FzForce, Working
      <4>4. fz.src \in Source /\ fz.rev \in Nat BY <1>a DEF FzState
      <4>5. receipt'.state = "closing" BY <1>a, <4>1, <4>4, ForcedFacts
      <4>6. MarksInv' BY <4>2 DEF MarksInv
      <4> QED BY <1>3, <4>2, <4>3, <4>5, <4>6, InPassKeeps
    <3> QED BY <1>3, <3>1, PassEnds
  <2>6. CASE FzBrain
    <3>0. fz.pc = "brain" /\ fz.src = transcripts /\ receipt.state # "finalized"
      BY <1>e, <2>6 DEF FzBrain, Working, Making
    <3>1. UNCHANGED <<brains, digest>> BY <2>6 DEF FzBrain, FzFrame, memVars
    <3>2. CASE To("callBrain") /\ receipt' = receipt
      <4>1. fz'.pc = "callBrain" /\ fz'.src = fz.src BY <1>c, <3>2 DEF To
      <4>2. MarksInv' BY <4>1 DEF MarksInv
      <4> QED BY <1>3, <3>0, <3>2, <4>1, <4>2, InPassKeeps
    <3>3. ASSUME NEW k, fz' = [fz EXCEPT !.pc = "markBrain", !.out = k], BrainIs(k),
                 receipt' = receipt
          PROVE  RecoveryInv'
      <4>1. fz'.pc = "markBrain" /\ fz'.src = fz.src /\ fz'.out = k BY <1>a, <3>3 DEF FzState
      <4>2. MarksInv' BY <3>1, <3>3, <4>1 DEF MarksInv, BrainIs
      <4> QED BY <1>3, <3>0, <3>3, <4>1, <4>2, InPassKeeps
    <3>4. CASE /\ fz' = [fz EXCEPT !.pc = "markBrain", !.out = 0] /\ receipt' = receipt
               /\ fz.src = {} \/ transcripts = {}
      <4>1. BrainIs(0) BY <3>0, <3>4 DEF BrainIs
      <4> QED BY <3>3, <3>4, <4>1
    <3>5. ASSUME NEW b \in BrainsFor(fz.src), fz.src # {}, receipt' = receipt,
                 fz' = [fz EXCEPT !.pc = "markBrain", !.out = b.id]
          PROVE  RecoveryInv'
      <4>1. b \in brains /\ b.src = fz.src /\ b \in [src : Source, id : Nat]
        BY DEF BrainsFor, TypeOK
      <4>2. b = [src |-> fz.src, id |-> b.id] BY <4>1
      <4>3. BrainIs(b.id) BY <3>5, <4>1, <4>2 DEF BrainIs
      <4> QED BY <3>3, <3>5, <4>3
    <3> QED BY <1>a, <2>a, <2>6, <3>2, <3>4, <3>5 DEF FzBrain, recVars
  <2>7. CASE FzCallBrain \/ FzCallDigest \/ FzExhausted
    BY <1>a, <1>3, <2>a, <2>7, PassEnds DEF FzCallBrain, FzCallDigest, FzExhausted
  <2>8. CASE FzMarkBrain
    <3>0. /\ fz.pc = "markBrain" /\ fz.src = transcripts /\ receipt.state # "finalized"
          /\ UNCHANGED <<brains, digest>>
      BY <1>e, <2>8 DEF FzMarkBrain, Working, Making, FzFrame, memVars
    <3>1. /\ fz' = [fz EXCEPT !.pc = IF fz.src = {} THEN "markDigest" ELSE "digest"]
          /\ receipt'.stage["brain"].out = fz.out /\ receipt'.state = receipt.state
      BY <1>a, <2>8, MarkWrites DEF FzMarkBrain
    <3>2. /\ fz'.pc = IF fz.src = {} THEN "markDigest" ELSE "digest"
          /\ fz'.src = fz.src /\ fz'.out = fz.out
      BY <1>c, <3>1
    <3>3. ~again => BrainIs(fz.out) BY <3>0 DEF RecoveryInv, MarksInv
    <3>4. MarksInv' BY <1>3, <3>0, <3>1, <3>2, <3>3 DEF MarksInv, InPass, BrainIs, DigestIs, Bound
    <3>5. fz'.pc \in {"digest", "markDigest"} BY <3>2
    <3> QED BY <1>3, <3>0, <3>1, <3>2, <3>4, <3>5, InPassKeeps
  <2>9. CASE FzDigest
    <3>0. /\ fz.pc = "digest" /\ fz.src = transcripts /\ UNCHANGED <<brains, digest>>
          /\ fz.src # {} /\ receipt.state # "finalized"
      BY <1>e, <2>9 DEF FzDigest, Working, Making, FzFrame, memVars, RecoveryInv, SourceInv
    <3>1. CASE ~Degrade("digest", TRUE)
      <4>1. /\ receipt' = receipt
            /\ \/ \E k : fz' = [fz EXCEPT !.pc = "callDigest", !.out = k]
               \/ /\ fz' = [fz EXCEPT !.pc = "markDigest", !.out = digest.id]
                  /\ digest.id # 0 /\ digest.src = fz.src
        BY <2>9, <3>1 DEF FzDigest, recVars
      <4>2. /\ fz'.src = fz.src /\ fz'.pc \in {"callDigest", "markDigest"}
            /\ fz'.pc = "markDigest" =>
                 (fz'.out = digest.id /\ digest.id # 0 /\ digest.src = fz.src)
        BY <1>a, <4>1 DEF FzState
      <4>3. MarksInv'
        BY <1>3, <3>0, <4>1, <4>2 DEF RecoveryInv, MarksInv, InPass, BrainIs, DigestIs, Stored, Bound
      <4> QED BY <1>3, <3>0, <4>1, <4>2, <4>3, InPassKeeps
    <3> QED BY <1>a, <2>a, <3>1
  <2>10. CASE FzMarkDigest
    <3>0. /\ fz.pc = "markDigest" /\ fz.src = transcripts /\ receipt.state # "finalized"
          /\ UNCHANGED <<brains, digest>>
      BY <1>e, <2>10 DEF FzMarkDigest, Working, Making, FzFrame, memVars
    <3>1. /\ fz' = [fz EXCEPT !.pc = "markActions"]
          /\ receipt'.stage["digest"].out = fz.out /\ receipt'.state = receipt.state
          /\ receipt'.stage["brain"] = receipt.stage["brain"]
      BY <1>a, <2>10, MarkWrites DEF FzMarkDigest
    <3>2. fz'.pc = "markActions" /\ fz'.src = fz.src /\ fz'.out = fz.out BY <1>c, <3>1
    <3>3. MarksInv'
      BY <1>3, <3>0, <3>1, <3>2 DEF RecoveryInv, MarksInv, InPass, BrainIs, DigestIs, Stored, Bound
    <3> QED BY <1>3, <3>0, <3>1, <3>2, <3>3, InPassKeeps
  <2>11. CASE FzMarkActions
    <3>0. /\ fz.pc = "markActions" /\ fz.src = transcripts /\ receipt.state # "finalized"
          /\ UNCHANGED <<brains, digest>>
      BY <1>e, <2>11 DEF FzMarkActions, Working, Making, FzFrame, memVars
    <3>1. CASE ~Degrade("actions", TRUE)
      <4>0. FzMark("actions", fz.out, To(IF fz.src = {} THEN "complete" ELSE "reobserve"))
        BY <2>11, <3>1 DEF FzMarkActions
      <4>1. /\ fz' = [fz EXCEPT !.pc = IF fz.src = {} THEN "complete" ELSE "reobserve"]
            /\ receipt'.stage["actions"].out = fz.out /\ receipt'.state = receipt.state
            /\ \A m \in StageName \ {"actions"} : receipt'.stage[m] = receipt.stage[m]
        BY <1>a, <4>0, MarkWrites
      <4>4. /\ receipt'.stage["brain"] = receipt.stage["brain"]
            /\ receipt'.stage["digest"] = receipt.stage["digest"]
        BY <4>1 DEF StageName
      <4>2. fz'.pc \in {"complete", "reobserve"} /\ fz'.src = fz.src /\ fz'.out = fz.out
        BY <1>c, <4>1
      <4>3. MarksInv'
        BY <1>3, <3>0, <4>1, <4>2, <4>4
         DEF RecoveryInv, MarksInv, InPass, BrainIs, DigestIs, Stored, Bound
      <4> QED BY <1>3, <3>0, <4>1, <4>2, <4>3, InPassKeeps
    <3> QED BY <1>a, <2>a, <3>1
  <2>12. CASE FzResnapshot
    <3>0. /\ fz.pc = "resnapshot" /\ fz.src = transcripts /\ receipt.state # "finalized"
          /\ UNCHANGED <<receipt, brains, digest>>
      BY <1>e, <2>12 DEF FzResnapshot, Working, Making, FzFrame, recVars, memVars
    <3>1. fz'.pc = "complete" /\ fz'.src = fz.src
      BY <1>a, <2>12, <3>0 DEF FzResnapshot, FzState
    <3>2. MarksInv'
      BY <1>3, <3>0, <3>1 DEF RecoveryInv, MarksInv, InPass, BrainIs, DigestIs, Stored, Bound
    <3> QED BY <1>3, <3>0, <3>1, <3>2, InPassKeeps
  <2>13. CASE FzRebegin
    <3>1. NextPass BY <2>13, Persists DEF FzRebegin, FzBeginAt
    <3> QED BY <1>3, <3>1, PassEnds
  <2>14. CASE FzComplete
    <3>0. fz.pc = "complete" /\ UNCHANGED <<brains, digest>>
      BY <2>14 DEF FzComplete, FzFrame, memVars
\* Refused: a stage was reset behind the pass, by an audit that reopened it.
    <3>1. CASE StagesIncomplete(receipt, fz.src)
      <4>1. fz'.pc = "refresh" /\ receipt' = receipt
        BY <2>14, <3>1 DEF FzComplete, ExitErr, NoFz, recVars
      <4>2. receipt.state # "finalized" BY <1>e, <3>0 DEF Making
      <4> QED BY <1>3, <4>1, <4>2, Elsewhere
    <3>2. CASE ~StagesIncomplete(receipt, fz.src) /\ ~NextPass
      <4>1. receipt' = Finalized(receipt) /\ ExitOk
        BY <2>14, <3>2, Persists DEF FzComplete, Persist, Stamp
      <4>2. receipt'.src = receipt.src /\ receipt'.stage = receipt.stage
        BY <1>a, <4>1 DEF Finalized, Receipt
      <4>3. fz'.pc = "cancel" BY <4>1 DEF ExitOk, NoFz
      <4>4. Broken' => again
        BY <3>0, <3>2, <4>2, ClaimIsReady DEF Broken, Bound, OutputsReady
      <4>5. MarksInv' BY <4>3 DEF MarksInv
      <4> QED BY <1>3, <4>3, <4>4, <4>5, InPassKeeps DEF Working, Making
    <3> QED BY <1>3, <3>1, <3>2, PassEnds
  <2>15. CASE FzCancel
    <3>1. /\ fz.pc = "cancel" /\ fz'.pc = "refresh" /\ UNCHANGED <<receipt, brains, digest>>
      BY <1>c, <2>15 DEF FzCancel, To, FzFrame, memVars
    <3>2. Broken' => Broken BY <1>d, <3>1 DEF Broken, Bound, OutputsReady
    <3>3. Broken' => again BY <3>1, <3>2 DEF RecoveryInv, NoticeInv
    <3>4. MarksInv' BY <3>1 DEF MarksInv
    <3> QED BY <1>3, <3>1, <3>3, <3>4, InPassKeeps DEF Working, Making
  <2> QED BY <1>1, <1>2, <2>1, <2>2, <2>3, <2>4, <2>5, <2>6, <2>7, <2>8, <2>9, <2>10, <2>11, <2>12,
             <2>13, <2>14, <2>15 DEF FzStep
<1> QED BY <1>b, <1>1, <1>2, <1>3

-----------------------------------------------------------------------------
(* The invariant and what follows from it.                                  *)

\* Nothing is claimed before the meeting has ended.
LEMMA RecoveryInit == Init => RecoveryInv
BY DEF Init, NoFz, NoMut, RecoveryInv, SourceInv, MarksInv, NoticeInv, Working, Making, Broken

\* An open meeting claims nothing, its end claims nothing, and after the end only
\* the actors above move.
LEMMA RecoveryStep ==
  ASSUME Quiet, TypeOK, TypeOK', IInv, IInv', RecoveryInv, [Next]_vars
  PROVE  RecoveryInv'
<1>1. CASE ~ended'
  <2>1. fz' = NoFz BY <1>1 DEF IInv, OpenInv
  <2>2. fz'.pc = "off" BY <2>1 DEF NoFz
  <2> QED BY <1>1, <2>2 DEF RecoveryInv, SourceInv, MarksInv, NoticeInv, Working, Making, Broken
\* Only a close and a restart end a meeting.
<1>2. CASE ~ended /\ ended' /\ ~Restart
  <2>1. CloseEnd /\ receipt' = NewReceipt(closer.src, 0)
    <3>1. ~UNCHANGED ended BY <1>2
    <3>2. CloseEnd
      BY <1>2, <3>1, FzFrames
         DEF Next, vars, endVars, MutStart, MutBegin, MutStep, MutFence, MutLock, MutWrite,
             MutCommit, MutHook, Tamper, TamperBrain, TamperDigest, RetryStep, RetryRead, RetryArm,
             RetryFire, RetryCheck, WrStep, WrFrame, WrRead, WrSnap, WrLock, WrWrite, WrMark,
             WrTruthLock, WrTruthWrite, AuditStep, AuditFrame, AuditObserve, AuditSnapshot,
             AuditCheck, AuditRefreshed, AuditBegin, AuditSchedule, CloseStart, CloseBegin,
             CloseStep, CloseSnap, ClosePrewrite, CloseArchive, CloseStamp, CloseTruth,
             CloseMarked, ClosePublish, CloseClear
    <3> QED BY <3>1, <3>2 DEF CloseEnd, Persist, Stamp, endVars
  <2>2. UNCHANGED <<fz, mut>> /\ closer.pc = "end" BY <2>1 DEF CloseEnd, CloseFrame
  <2>3. fz'.pc = "off" BY <1>2, <2>2 DEF IInv, OpenInv, NoFz
  <2>4. mut'.pc = "off" BY <2>2 DEF IInv, LifecycleInv, LifecycleFree
  <2> QED BY <2>1, <2>3, <2>4, EndKeeps
<1>3. CASE ended /\ ended' /\ ~Restart
  <2>1. mut.pc = "off" /\ receipt.obs = 0 BY <1>3, OneSource
  <2>2. ~MutStep BY <2>1 DEF MutStep, MutFence, MutLock, MutWrite, MutCommit, MutHook
  <2>3. ~MutStart BY <1>3, <2>1 DEF MutStart, MutBegin, Quiet
  <2>4. CASE UNCHANGED vars
    <3>1. Beside BY <2>4 DEF vars, Beside, SameClaim
    <3> QED BY <3>1, BesideKeeps
  <2>5. CASE FzStep BY <1>3, <2>5, FzKeeps
  <2>6. CASE RetryStep BY <2>6, RetryBeside, BesideKeeps
  <2>7. CASE \E p \in Writers : WrStep(p) BY <2>7, WrBeside, BesideKeeps
  <2>8. CASE AuditStep BY <1>3, <2>8, AuditKeeps
  <2>9. CASE CloseStart \/ CloseStep BY <1>3, <2>9, CloseBeside, BesideKeeps
  <2>10. CASE Tamper BY <1>3, <2>10, TamperKeeps
  <2> QED BY <1>3, <2>2, <2>3, <2>4, <2>5, <2>6, <2>7, <2>8, <2>9, <2>10 DEF Next
<1>4. CASE Restart BY <1>4, RestartKeeps
<1> QED BY <1>1, <1>2, <1>3, <1>4 DEF TypeOK

\* After the last transcript mutation, and while the record can be written, the
\* outputs a finalized receipt is bound to are there or somebody is on the way
\* to notice: no edited output, restart, provider failure or writer of the
\* archive in between makes the system rest on a broken claim
\* (meeting_finalization.go:1238-1255).
THEOREM BrokenOutputsNoticed ==
  ASSUME Quiet
  PROVE  Spec => []BrokenOutputsAreOwed
<1>1. TypeOK /\ TypeOK' /\ IInv /\ IInv' /\ RecoveryInv /\ [Next]_vars => RecoveryInv'
  BY RecoveryStep
<1>2. RecoveryInv => BrokenOutputsAreOwed
  <2>1. SUFFICES ASSUME RecoveryInv, ended, receipt.state = "finalized", job = "none",
                        ~OutputsReady(receipt.src, [n \in StageName |-> receipt.stage[n].out])
                 PROVE  audit.pc # "off"
    BY DEF BrokenOutputsAreOwed
  <2>2. Broken BY <2>1 DEF Broken, Bound
  <2> QED BY <2>1, <2>2 DEF RecoveryInv, NoticeInv
<1> QED BY <1>1, <1>2, RecoveryInit, TypeCorrect, InvariantHolds, PTL DEF Spec
=============================================================================
