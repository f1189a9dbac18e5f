---------------------- MODULE MeetingFinalizationProofs ----------------------
(***************************************************************************)
(* Safety of the close protocol for every set of rows, every close mode    *)
(* and any number of mutations, tampers, crashes and injected failures.    *)
(***************************************************************************)
EXTENDS MeetingFinalization, TLAPS

(***************************************************************************)
(* The inductive invariant.  A mutation is fenced from the moment its      *)
(* write-ahead half has passed until its commit: in that window the source *)
(* may change, so nothing may vouch for the source that is there now.      *)
(***************************************************************************)
Fenced == mut.pc \in {"lock", "write", "commit"}

\* The finalizer, or the audit, holds a source it may still begin a receipt with.
FzHolds == fz.pc \in {"begin", "verify", "force", "rebegin"}
AuditHolds == audit.pc \in {"check", "begin"}

\* A close excludes mutations until it has ended the meeting; what it
\* snapshotted is still what memory holds.
LifecycleInv ==
  /\ ~LifecycleFree => mut.pc = "off"
  /\ closer.pc \in {"prewrite", "end"} => closer.src = transcripts
  /\ closer.pc \in {"snap", "prewrite", "end"} => ~ended
  /\ closer.pc \in {"archive", "stamp", "truth", "marked", "publish", "clear"} => ended
  /\ closer.pc \in {"archive", "stamp"} => closer.mode = "idle" /\ ~archived
  /\ closer.pc \in {"truth", "marked"} => closer.mode = "manual" /\ archived

\* Nothing runs on behalf of a meeting that has not ended.
OpenInv ==
  ~ended => /\ fz = NoFz /\ job = "none" /\ audit = NoAudit
            /\ \A c \in RetryCell : retry[c] = "off"
            /\ ~archived

\* A receipt bound to the current revision is bound to the current source, and
\* only such a receipt is finalized.
ReceiptInv ==
  /\ receipt.srcObs <= receipt.obs
  /\ ended /\ receipt.srcObs = receipt.obs => receipt.src = transcripts /\ ~Fenced
  /\ ended /\ receipt.state = "finalized" => receipt.srcObs = receipt.obs

\* So is a source that was read at the current revision.
FzInv ==
  /\ fz.rev <= receipt.obs
  /\ FzHolds /\ fz.rev = receipt.obs => fz.src = transcripts /\ ~Fenced

AuditInv ==
  /\ audit.rev <= receipt.obs
  /\ AuditHolds /\ audit.rev = receipt.obs => audit.src = transcripts /\ ~Fenced

\* The archive, and whoever is about to write it, claims the current source or
\* nothing, and nothing at all while a source change is about to land.
ArchiveInv ==
  /\ archive.state = "finalized" =>
       archived /\ archive.src = transcripts /\ mut.pc # "commit"
  /\ mut.pc \in {"lock", "write"} => archived
  /\ mut.pc = "write" =>
       /\ mut.emb.state # "finalized"
       /\ \A p \in Writers : wr[p].pc \notin {"write", "truthWrite"}
  /\ \A p \in Writers :
       /\ wr[p].pc \notin {"off", "read"} => archived
       /\ wr[p].pc \in {"write", "truthWrite"} /\ wr[p].emb.state = "finalized" =>
            wr[p].emb.src = transcripts /\ mut.pc # "commit"

IInv == LifecycleInv /\ OpenInv /\ ReceiptInv /\ FzInv /\ AuditInv /\ ArchiveInv

-----------------------------------------------------------------------------
(* The receipt operators: their type, and what they do to the fields the    *)
(* invariant talks about.                                                   *)

\* A stage receipt of any shape the store writes has the stage's type.
LEMMA StageType ==
  /\ Pending \in Stage
  /\ \A k \in Nat : [st |-> "complete", out |-> k] \in Stage /\ [st |-> "degraded", out |-> k] \in Stage
BY DEF Pending, Stage

\* newMeetingFinalizationReceipt.
LEMMA NewReceiptFacts ==
  ASSUME NEW s \in Source, NEW k \in Nat
  PROVE  /\ NewReceipt(s, k) \in Receipt
         /\ NewReceipt(s, k).state = "closing"
         /\ NewReceipt(s, k).src = s
         /\ NewReceipt(s, k).obs = k /\ NewReceipt(s, k).srcObs = k
BY StageType DEF NewReceipt, Receipt

\* beginFinalizationAtRevision binds the receipt to the source and the revision
\* it was given, whichever of its three branches is taken.
LEMMA BegunFacts ==
  ASSUME NEW r \in Receipt, NEW s \in Source, NEW f \in BOOLEAN
  PROVE  LET b == Begun(r, s, r.obs, f)
         IN  /\ b \in Receipt
             /\ b.src = s /\ b.obs = r.obs /\ b.srcObs = r.obs
<1>0. r.obs \in Nat BY DEF Receipt
<1>1. CASE r.src # s
  BY <1>0, <1>1, NewReceiptFacts DEF Begun
<1>2. CASE r.src = s /\ NeedsReopen(r, r.obs, f)
  <2>1. Begun(r, s, r.obs, f) = Reopened(r, r.obs, f) BY <1>2 DEF Begun
  <2>2. [n \in StageName |-> IF f \/ r.stage[n].st = "degraded" THEN Pending ELSE r.stage[n]]
          \in [StageName -> Stage]
    BY StageType DEF Receipt
  <2>3. Reopened(r, r.obs, f) \in Receipt BY <1>0, <2>2 DEF Reopened, Receipt
  <2>4. /\ Reopened(r, r.obs, f).src = r.src
        /\ Reopened(r, r.obs, f).obs = r.obs
        /\ Reopened(r, r.obs, f).srcObs = r.obs
    BY DEF Reopened, Receipt
  <2> QED BY <1>2, <2>1, <2>3, <2>4
<1>3. CASE r.src = s /\ ~NeedsReopen(r, r.obs, f)
  BY <1>3 DEF Begun, NeedsReopen
<1> QED BY <1>1, <1>2, <1>3

\* observeEndedTranscript withdraws every claim and moves the revision on.
LEMMA ObservedFacts ==
  ASSUME NEW r \in Receipt
  PROVE  /\ Observed(r) \in Receipt
         /\ Observed(r).state = "closing"
         /\ Observed(r).src = r.src
         /\ Observed(r).obs = r.obs + 1 /\ Observed(r).srcObs = r.srcObs
<1>1. r.obs \in Nat BY DEF Receipt
<1>2. r.obs + 1 \in Nat BY <1>1
<1>3. \A k \in Nat : [r EXCEPT !.obs = k, !.state = "closing", !.retryable = FALSE, !.synced = FALSE]
                     \in Receipt
  BY DEF Receipt
<1>4. Observed(r) \in Receipt BY <1>2, <1>3 DEF Observed
<1> QED BY <1>4 DEF Observed, Receipt

\* The other writes keep the source and both revisions; only Finalized claims.
SameSource(r, b) == b.src = r.src /\ b.obs = r.obs /\ b.srcObs = r.srcObs

LEMMA MarkFacts ==
  ASSUME NEW r \in Receipt, NEW n \in StageName, NEW k \in Nat, NEW f \in BOOLEAN
  PROVE  /\ Completed(r, n, k) \in Receipt
         /\ Completed(r, n, k).state = r.state /\ SameSource(r, Completed(r, n, k))
         /\ Degraded(r, n, f) \in Receipt
         /\ Degraded(r, n, f).state = "degraded" /\ SameSource(r, Degraded(r, n, f))
         /\ Finalized(r) \in Receipt
         /\ Finalized(r).state = "finalized" /\ SameSource(r, Finalized(r))
         /\ Synced(r) \in Receipt
         /\ Synced(r).state = r.state /\ SameSource(r, Synced(r))
<1>1. [st |-> "complete", out |-> k] \in Stage BY StageType
<1>2. [st |-> "degraded", out |-> 0] \in Stage BY StageType
<1>3. Completed(r, n, k) \in Receipt /\ Completed(r, n, k).state = r.state
      /\ SameSource(r, Completed(r, n, k))
  BY <1>1 DEF Completed, Receipt, SameSource
<1>4. Degraded(r, n, f) \in Receipt /\ Degraded(r, n, f).state = "degraded"
      /\ SameSource(r, Degraded(r, n, f))
  BY <1>2 DEF Degraded, Receipt, SameSource
<1>5. Finalized(r) \in Receipt /\ Finalized(r).state = "finalized" /\ SameSource(r, Finalized(r))
  BY DEF Finalized, Receipt, SameSource
<1>6. Synced(r) \in Receipt /\ Synced(r).state = r.state /\ SameSource(r, Synced(r))
  BY DEF Synced, Receipt, SameSource
<1> QED BY <1>3, <1>4, <1>5, <1>6

-----------------------------------------------------------------------------
(* Type correctness.                                                        *)

RecType == receipt \in Receipt /\ holders \subseteq Writers /\ retry \in RetryState

\* The idle value of every actor has its actor's type.
LEMMA IdleType ==
  /\ NoMut \in MutState /\ NoFz \in FzState /\ NoWr \in WrState
  /\ NoAudit \in AuditState /\ NoCloser \in CloserState
  /\ NoDigest \in [src : Source, id : Nat, of : Nat]
  /\ NoArchive \in [state : {"closing", "finalized", "degraded"}, src : Source, mem : Source]
  /\ NoRetry \in RetryState
<1>1. {} \in Source BY DEF Source
<1>2. NoEmbed \in Embed BY <1>1 DEF NoEmbed, Embed
<1>3. NewReceipt({}, 0) \in Receipt BY <1>1, NewReceiptFacts
<1>4. NoMut \in MutState BY <1>1, <1>2 DEF NoMut, MutState
<1>5. NoFz \in FzState BY <1>1 DEF NoFz, FzState
<1>6. NoWr \in WrState BY <1>1, <1>2 DEF NoWr, WrState
<1>7. NoAudit \in AuditState BY <1>1, <1>3 DEF NoAudit, AuditState
<1> QED BY <1>1, <1>4, <1>5, <1>6, <1>7
        DEF NoCloser, CloserState, NoDigest, NoArchive, NoRetry, RetryState

\* A persisted receipt, or one whose persist failed, leaves a typed store.
LEMMA PersistType ==
  ASSUME RecType, faults \in Nat, NEW r \in Receipt, Persist(r) \/ PersistFails(r)
  PROVE  RecType' /\ faults' \in Nat
BY DEF RecType, RetryState, Persist, PersistFails, Fault, Stamp, Aged, recVars

\* So does a signal to the queue.
LEMMA ScheduleType ==
  ASSUME retry \in RetryState, job \in JobState, again \in BOOLEAN
  PROVE  /\ ScheduleFresh => retry' \in RetryState /\ job' \in JobState /\ again' \in BOOLEAN
         /\ ScheduleBacklog => job' \in JobState /\ again' \in BOOLEAN
BY DEF RetryState, JobState, ScheduleFresh, ScheduleBacklog

\* Mutations and tampering.
LEMMA MutType ==
  ASSUME TypeOK, MutStart \/ MutStep \/ Tamper
  PROVE  TypeOK'
<1> USE IdleType DEF TypeOK, memVars, recVars, endVars, jobVars, bndVars
<1>1. ASSUME NEW kind \in {"append", "correct", "delete"}, NEW del \in SUBSET Row,
             NEW add \in SUBSET Row, MutBegin(kind, del, add)
      PROVE  TypeOK'
  <2>1. mut' \in MutState BY <1>1 DEF MutBegin, MutState, Source
  <2> QED BY <1>1, <2>1 DEF MutBegin
<1>2. CASE MutFence
  <2>1. CASE ~ended /\ mut' = [mut EXCEPT !.pc = "commit"] /\ UNCHANGED <<recVars, faults>>
    <3>1. mut' \in MutState BY <2>1 DEF MutState
    <3> QED BY <1>2, <2>1, <3>1 DEF MutFence
  <2>2. CASE \/ Persist(Observed(receipt)) /\ mut' = [mut EXCEPT !.pc = IF archived THEN "lock" ELSE "commit"]
             \/ PersistFails(Observed(receipt)) /\ FenceRefused
    <3>1. RecType' /\ faults' \in Nat
      BY <2>2, ObservedFacts, PersistType DEF RecType
    <3>2. mut' \in MutState
      BY <2>2 DEF FenceRefused, MutState
    <3> QED BY <1>2, <3>1, <3>2 DEF MutFence, RecType
  <2> QED BY <1>2, <2>1, <2>2 DEF MutFence
<1>3. CASE MutLock
  <2>1. EmbedNow \in Embed BY DEF EmbedNow, Embed, Receipt
  <2>2. mut' \in MutState BY <1>3, <2>1 DEF MutLock, MutState
  <2> QED BY <1>3, <2>2 DEF MutLock
<1>4. CASE MutWrite
  <2>1. mut' \in MutState BY <1>4 DEF MutWrite, FenceRefused, MutState
  <2>2. archive' \in [state : {"closing", "finalized", "degraded"}, src : Source, mem : Source]
    BY <1>4 DEF MutWrite, ArchiveFails, MutState, Embed, Source
  <2> QED BY <1>4, <2>1, <2>2 DEF MutWrite, ArchiveFails, Fault
<1>5. CASE MutCommit
  <2>1. mut' \in MutState BY <1>5 DEF MutCommit, MutState
  <2>2. transcripts' \in Source BY <1>5 DEF MutCommit, MutState, Source
  <2> QED BY <1>5, <2>1, <2>2 DEF MutCommit, Fault
<1>6. CASE MutHook BY <1>6, ScheduleType DEF MutHook
<1>7. CASE TamperDigest BY <1>7, ScheduleType DEF TamperDigest
<1>8. ASSUME NEW b \in brains, TamperBrain(b) PROVE TypeOK'
  BY <1>8, ScheduleType DEF TamperBrain
<1> QED BY <1>1, <1>2, <1>3, <1>4, <1>5, <1>6, <1>7, <1>8 DEF MutStart, MutStep, Tamper

\* The finalizer.
LEMMA ExitType ==
  ASSUME fz \in FzState, wr \in [Writers -> WrState]
  PROVE  /\ NextPass => fz' \in FzState
         /\ ExitErr => fz' \in FzState /\ wr' \in [Writers -> WrState]
         /\ ExitOk => fz' \in FzState /\ wr' \in [Writers -> WrState]
<1>1. NextPass => fz' \in FzState
  <2>1. fz.pass + 1 \in Nat BY DEF FzState
  <2>2. [NoFz EXCEPT !.pc = "observe", !.pass = fz.pass + 1] \in FzState
    BY <2>1 DEF NoFz, FzState, Source
  <2>3. [NoFz EXCEPT !.pc = "exhausted"] \in FzState
    BY DEF NoFz, FzState, Source
  <2> QED BY <2>2, <2>3 DEF NextPass
<1>2. ExitErr => fz' \in FzState /\ wr' \in [Writers -> WrState]
  <2>1. [NoFz EXCEPT !.pc = "refresh", !.err = TRUE] \in FzState
    BY DEF NoFz, FzState, Source
  <2>2. ExitErr => fz' \in FzState BY <2>1 DEF ExitErr
  <2>3. ExitErr => wr' \in [Writers -> WrState] BY DEF ExitErr, WrState, Writers
  <2> QED BY <2>2, <2>3
<1>3. ExitOk => fz' \in FzState /\ wr' \in [Writers -> WrState]
  BY IdleType DEF ExitOk, FzState
<1> QED BY <1>1, <1>2, <1>3

\* A degrade exits whether or not its receipt could be persisted.
LEMMA DegradeType ==
  ASSUME TypeOK, NEW n \in StageName, NEW f \in BOOLEAN, Degrade(n, f)
  PROVE  RecType' /\ faults' \in Nat /\ fz' \in FzState /\ wr' \in [Writers -> WrState]
<1>1. Degraded(receipt, n, f) \in Receipt BY MarkFacts DEF TypeOK
<1> QED BY <1>1, PersistType, ExitType DEF TypeOK, RecType, Degrade

LEMMA MarkType ==
  ASSUME TypeOK, NEW n \in StageName, NEW pc, fz.out \in Nat,
         FzMark(n, fz.out, To(pc)), [fz EXCEPT !.pc = pc] \in FzState
  PROVE  RecType' /\ faults' \in Nat /\ fz' \in FzState /\ wr' \in [Writers -> WrState]
<1>1. Completed(receipt, n, fz.out) \in Receipt BY MarkFacts DEF TypeOK
<1> QED BY <1>1, PersistType, ExitType DEF TypeOK, RecType, FzMark, To

\* A begin by the finalizer: refused, persisted, or failed.
LEMMA BeginType ==
  ASSUME TypeOK, NEW s \in Source, NEW f \in BOOLEAN,
         \/ receipt.obs # fz.rev /\ UNCHANGED <<recVars, wr, faults>>
         \/ /\ receipt.obs = fz.rev /\ UNCHANGED wr
            /\ Persist(Begun(receipt, s, fz.rev, f)) \/ UNCHANGED <<recVars, faults>>
         \/ receipt.obs = fz.rev /\ PersistFails(Begun(receipt, s, fz.rev, f)) /\ ExitErr
  PROVE  RecType' /\ faults' \in Nat /\ wr' \in [Writers -> WrState]
<1>1. receipt.obs = fz.rev => Begun(receipt, s, fz.rev, f) \in Receipt
  BY BegunFacts DEF TypeOK
<1> QED BY <1>1, PersistType, ExitType DEF TypeOK, RecType, recVars

LEMMA FzType ==
  ASSUME TypeOK, FzStep
  PROVE  TypeOK'
<1>a. "brain" \in StageName /\ "digest" \in StageName /\ "actions" \in StageName BY DEF StageName
<1>b. ASSUME NEW n \in StageName, NEW f \in BOOLEAN, Degrade(n, f)
      PROVE  RecType' /\ faults' \in Nat /\ fz' \in FzState /\ wr' \in [Writers -> WrState]
  BY <1>b, DegradeType
<1>c. fz.src \in Source /\ fz.out \in Nat BY DEF TypeOK, FzState
<1>d. [src |-> fz.src, id |-> gen] \in [src : Source, id : Nat]
      /\ [src |-> fz.src, id |-> gen, of |-> fz.out] \in [src : Source, id : Nat, of : Nat]
  BY <1>c DEF TypeOK
<1>e. \A b \in brains : b.id \in Nat BY DEF TypeOK
<1> USE DEF TypeOK, memVars, recVars, endVars, jobVars, bndVars, FzFrame
<1>1. CASE FzStart
  <2>1. fz' \in FzState BY <1>1, IdleType DEF FzStart, FzState
  <2> QED BY <1>1, <2>1 DEF FzStart, JobState
<1>2. CASE FzObserve
  <2>1. fz' \in FzState BY <1>2 DEF FzObserve, FzState, Receipt
  <2> QED BY <1>2, <2>1 DEF FzObserve
<1>3. CASE FzSnapshot
  <2>1. fz' \in FzState BY <1>3 DEF FzSnapshot, FzState
  <2> QED BY <1>3, <2>1 DEF FzSnapshot
<1>4. CASE FzBegin
  <2>1. RecType' /\ faults' \in Nat /\ wr' \in [Writers -> WrState]
    BY <1>4, BeginType DEF FzBegin, FzBeginAt, FzState
  <2>2. [n \in StageName |-> receipt.stage[n].out] \in [StageName -> Nat]
    BY DEF Receipt, Stage
  <2>3. /\ [fz EXCEPT !.pc = "brain"] \in FzState
        /\ [fz EXCEPT !.pc = "verify",
                      !.outs = [n \in StageName |-> receipt.stage[n].out]] \in FzState
    BY <2>2 DEF FzState
  <2>4. fz' \in FzState
    BY <1>4, <2>3, ExitType DEF FzBegin, FzBeginAt
  <2> QED BY <1>4, <2>1, <2>4 DEF FzBegin, RecType
<1>5. CASE FzVerify
  <2>1. fz' \in FzState /\ wr' \in [Writers -> WrState]
    BY <1>5, ExitType DEF FzVerify, To, FzState
  <2> QED BY <1>5, <2>1 DEF FzVerify
<1>6. CASE FzForce
  <2>1. RecType' /\ faults' \in Nat /\ wr' \in [Writers -> WrState]
    BY <1>6, BeginType DEF FzForce, FzBeginAt, FzState
  <2>2. fz' \in FzState BY <1>6, ExitType DEF FzForce, FzBeginAt, To, FzState
  <2> QED BY <1>6, <2>1, <2>2 DEF FzForce, RecType
<1>7. CASE FzBrain
  <2>1. CASE Degrade("brain", FALSE)
    <3>1. RecType' /\ faults' \in Nat /\ fz' \in FzState /\ wr' \in [Writers -> WrState]
      BY <1>a, <1>b, <2>1
    <3> QED BY <1>7, <3>1 DEF FzBrain, RecType
  <2>2. CASE ~Degrade("brain", FALSE)
    <3>1. \/ \E k \in Nat : fz' = [fz EXCEPT !.pc = "markBrain", !.out = k]
          \/ fz' = [fz EXCEPT !.pc = "callBrain"]
      BY <1>e, <1>7, <2>2 DEF FzBrain, BrainsFor, To
    <3>2. fz' \in FzState BY <3>1 DEF FzState
    <3> QED BY <1>7, <2>2, <3>2 DEF FzBrain
  <2> QED BY <2>1, <2>2
<1>8. CASE FzCallBrain
  <2>1. CASE Degrade("brain", TRUE)
    <3>1. RecType' /\ faults' \in Nat /\ fz' \in FzState /\ wr' \in [Writers -> WrState]
      BY <1>a, <1>b, <2>1
    <3>2. brains' \subseteq [src : Source, id : Nat] BY <1>d, <1>8 DEF FzCallBrain
    <3> QED BY <1>8, <3>1, <3>2 DEF FzCallBrain, RecType
  <2>2. CASE ~Degrade("brain", TRUE)
    <3>1. fz' \in FzState BY <1>8, <2>2, ExitType DEF FzCallBrain
    <3>2. brains' \subseteq [src : Source, id : Nat] BY <1>d, <1>8, <2>2 DEF FzCallBrain
    <3> QED BY <1>8, <2>2, <3>1, <3>2 DEF FzCallBrain
  <2> QED BY <2>1, <2>2
<1>9. CASE FzMarkBrain
  <2>1. RecType' /\ faults' \in Nat /\ fz' \in FzState /\ wr' \in [Writers -> WrState]
    BY <1>a, <1>9, MarkType DEF FzMarkBrain, FzState
  <2> QED BY <1>9, <2>1 DEF FzMarkBrain, RecType
<1>10. CASE FzDigest
  <2>1. CASE Degrade("digest", TRUE)
    <3>1. RecType' /\ faults' \in Nat /\ fz' \in FzState /\ wr' \in [Writers -> WrState]
      BY <1>a, <1>b, <2>1
    <3> QED BY <1>10, <3>1 DEF FzDigest, RecType
  <2>2. CASE ~Degrade("digest", TRUE)
    <3>1. ASSUME NEW pc \in {"callDigest", "markDigest"}, NEW out \in Nat
          PROVE  [fz EXCEPT !.pc = pc, !.out = out] \in FzState
      BY DEF FzState
    <3>2. digest.id \in Nat /\ \A b \in BrainsFor(fz.src) : b.id \in Nat
      BY DEF BrainsFor
    <3>3. \/ fz' = [fz EXCEPT !.pc = "markDigest", !.out = digest.id]
          \/ \E b \in BrainsFor(fz.src) : fz' = [fz EXCEPT !.pc = "callDigest", !.out = b.id]
      BY <1>10, <2>2 DEF FzDigest
    <3>4. fz' \in FzState
      <4> HIDE DEF TypeOK, FzFrame
      <4>1. [fz EXCEPT !.pc = "markDigest", !.out = digest.id] \in FzState BY <3>1, <3>2
      <4>2. \A b \in BrainsFor(fz.src) : [fz EXCEPT !.pc = "callDigest", !.out = b.id] \in FzState
        BY <3>1, <3>2
      <4> QED BY <3>3, <4>1, <4>2
    <3> QED BY <1>10, <2>2, <3>4 DEF FzDigest
  <2> QED BY <2>1, <2>2
<1>11. CASE FzCallDigest
  <2>1. CASE Degrade("digest", TRUE)
    <3>1. RecType' /\ faults' \in Nat /\ fz' \in FzState /\ wr' \in [Writers -> WrState]
      BY <1>a, <1>b, <2>1
    <3>2. digest' \in [src : Source, id : Nat, of : Nat] BY <1>d, <1>11 DEF FzCallDigest
    <3> QED BY <1>11, <3>1, <3>2 DEF FzCallDigest, RecType
  <2>2. CASE ~Degrade("digest", TRUE)
    <3>1. fz' \in FzState BY <1>11, <2>2, ExitType DEF FzCallDigest
    <3>2. digest' \in [src : Source, id : Nat, of : Nat] BY <1>d, <1>11, <2>2 DEF FzCallDigest
    <3> QED BY <1>11, <2>2, <3>1, <3>2 DEF FzCallDigest
  <2> QED BY <2>1, <2>2
<1>12. CASE FzMarkDigest
  <2>1. RecType' /\ faults' \in Nat /\ fz' \in FzState /\ wr' \in [Writers -> WrState]
    BY <1>a, <1>12, MarkType DEF FzMarkDigest, FzState
  <2> QED BY <1>12, <2>1 DEF FzMarkDigest, RecType
<1>13. CASE FzMarkActions
  <2>1. RecType' /\ faults' \in Nat /\ fz' \in FzState /\ wr' \in [Writers -> WrState]
    BY <1>a, <1>b, <1>13, MarkType DEF FzMarkActions, FzState
  <2> QED BY <1>13, <2>1 DEF FzMarkActions, RecType
<1>14. CASE FzResnapshot
  <2>1. fz' \in FzState BY <1>14 DEF FzResnapshot, FzState
  <2> QED BY <1>14, <2>1 DEF FzResnapshot
<1>15. CASE FzRebegin
  <2>1. RecType' /\ faults' \in Nat /\ wr' \in [Writers -> WrState]
    BY <1>15, BeginType DEF FzRebegin, FzBeginAt, FzState
  <2>2. fz' \in FzState BY <1>15, ExitType DEF FzRebegin, FzBeginAt
  <2> QED BY <1>15, <2>1, <2>2 DEF FzRebegin, RecType
<1>16. CASE FzComplete
  <2>1. Finalized(receipt) \in Receipt BY MarkFacts DEF StageName
  <2>2. RecType' /\ faults' \in Nat
    BY <1>16, <2>1, PersistType DEF FzComplete, RecType
  <2>3. fz' \in FzState /\ wr' \in [Writers -> WrState]
    BY <1>16, ExitType DEF FzComplete
  <2> QED BY <1>16, <2>2, <2>3 DEF FzComplete, RecType
<1>17. CASE FzExhausted
  <2>1. RecType' /\ faults' \in Nat /\ fz' \in FzState /\ wr' \in [Writers -> WrState]
    BY <1>a, <1>b, <1>17 DEF FzExhausted
  <2> QED BY <1>17, <2>1 DEF FzExhausted, RecType
<1>18. CASE FzCancel
  <2>1. fz' \in FzState BY <1>18 DEF FzCancel, To, FzState
  <2>2. wr' \in [Writers -> WrState] BY <1>18 DEF FzCancel, WrState, Writers
  <2> QED BY <1>18, <2>1, <2>2 DEF FzCancel, RetryState
<1>19. CASE FzFinish
  BY <1>19, IdleType DEF FzFinish, RetryState, JobState
<1> QED BY <1>1, <1>2, <1>3, <1>4, <1>5, <1>6, <1>7, <1>8, <1>9, <1>10, <1>11, <1>12, <1>13,
           <1>14, <1>15, <1>16, <1>17, <1>18, <1>19 DEF FzStep

\* The retry timer and the archive writers.
LEMMA RetryType ==
  ASSUME TypeOK, RetryStep
  PROVE  TypeOK'
<1> USE DEF TypeOK, memVars, recVars, endVars, jobVars, bndVars
<1>1. CASE RetryRead BY <1>1 DEF RetryRead, RetryState
<1>2. CASE RetryArm BY <1>2 DEF RetryArm, RetryState, RetryCell
<1>3. CASE RetryFire BY <1>3 DEF RetryFire, RetryState, RetryCell
<1>4. CASE RetryCheck
  <2>1. retry' \in RetryState BY <1>4 DEF RetryCheck, RetryState
  <2>2. job' \in JobState /\ again' \in BOOLEAN BY <1>4, ScheduleType DEF RetryCheck
  <2> QED BY <1>4, <2>1, <2>2 DEF RetryCheck
<1> QED BY <1>1, <1>2, <1>3, <1>4 DEF RetryStep

LEMMA WrType ==
  ASSUME TypeOK, NEW p \in Writers, WrStep(p)
  PROVE  TypeOK'
<1>a. /\ wr \in [Writers -> WrState] /\ EmbedNow \in Embed /\ transcripts \in Source
      /\ RecType /\ faults \in Nat
  BY DEF TypeOK, EmbedNow, Embed, Receipt, RecType
<1> USE DEF WrFrame, memVars, recVars, endVars, jobVars, bndVars
<1>1. CASE WrRead(p)
  <2>1. wr' \in [Writers -> WrState] BY <1>a, <1>1 DEF WrRead, WrTo, WrState
  <2> QED BY <1>1, <2>1 DEF WrRead, TypeOK
<1>2. CASE WrSnap(p)
  <2>1. wr' \in [Writers -> WrState] BY <1>a, <1>2 DEF WrSnap, WrState
  <2> QED BY <1>2, <2>1 DEF WrSnap, TypeOK
<1>3. CASE WrLock(p)
  <2>1. [wr[p] EXCEPT !.pc = "write", !.emb = EmbedNow] \in WrState BY <1>a DEF WrState
  <2>2. wr' \in [Writers -> WrState] BY <1>a, <1>3, <2>1, IdleType DEF WrLock
  <2> QED BY <1>3, <2>2 DEF WrLock, TypeOK
<1>4. CASE WrWrite(p)
  <2>1. wr' \in [Writers -> WrState] BY <1>a, <1>4, IdleType DEF WrWrite, WrTo, WrState
  <2>2. archive' \in [state : {"closing", "finalized", "degraded"}, src : Source, mem : Source]
    BY <1>a, <1>4 DEF WrWrite, ArchiveFails, WrState, Embed, TypeOK
  <2> QED BY <1>4, <2>1, <2>2 DEF WrWrite, ArchiveFails, Fault, TypeOK
<1>5. CASE WrMark(p)
  <2>1. Synced(receipt) \in Receipt BY <1>a, MarkFacts DEF RecType, StageName
  <2>2. RecType' /\ faults' \in Nat BY <1>a, <1>5, <2>1 DEF WrMark, RecType, Stamp, Fault
  <2>3. [NoWr EXCEPT !.pc = "truthLock"] \in WrState BY IdleType DEF WrState
  <2>4. wr' \in [Writers -> WrState] BY <1>a, <1>5, <2>3, IdleType DEF WrMark, WrRepair
  <2> QED BY <1>5, <2>2, <2>4 DEF WrMark, RecType, TypeOK
<1>6. CASE WrTruthLock(p)
  <2>1. [wr[p] EXCEPT !.pc = "truthWrite", !.emb = EmbedNow] \in WrState BY <1>a DEF WrState
  <2>2. wr' \in [Writers -> WrState] BY <1>a, <1>6, <2>1 DEF WrTruthLock
  <2> QED BY <1>6, <2>2 DEF WrTruthLock, TypeOK
<1>7. CASE WrTruthWrite(p)
  <2>1. [NoWr EXCEPT !.pc = wr[p].next] \in WrState BY <1>a, IdleType DEF WrState
  <2>2. wr' \in [Writers -> WrState] BY <1>a, <1>7, <2>1, IdleType DEF WrTruthWrite
  <2>3. archive' \in [state : {"closing", "finalized", "degraded"}, src : Source, mem : Source]
    BY <1>a, <1>7 DEF WrTruthWrite, ArchiveFails, WrState, Embed, TypeOK
  <2> QED BY <1>7, <2>2, <2>3 DEF WrTruthWrite, ArchiveFails, Fault, TypeOK
<1> QED BY <1>1, <1>2, <1>3, <1>4, <1>5, <1>6, <1>7 DEF WrStep

\* The boot audit, the close paths and a restart.
LEMMA AuditType ==
  ASSUME TypeOK, AuditStep
  PROVE  TypeOK'
<1> USE DEF AuditFrame, memVars, recVars, endVars, jobVars, bndVars
<1>1. CASE AuditObserve
  <2>1. audit' \in AuditState BY <1>1 DEF AuditObserve, AuditState, Receipt, TypeOK
  <2> QED BY <1>1, <2>1 DEF AuditObserve, TypeOK
<1>2. CASE AuditSnapshot
  <2>1. audit' \in AuditState BY <1>2 DEF AuditSnapshot, AuditState, TypeOK
  <2> QED BY <1>2, <2>1 DEF AuditSnapshot, TypeOK
<1>3. CASE AuditCheck
  <2>1. audit' \in AuditState BY <1>3, IdleType DEF AuditCheck, AuditTo, AuditState, TypeOK
  <2>2. wr' \in [Writers -> WrState]
    BY <1>3 DEF AuditCheck, WrState, Writers, TypeOK
  <2> QED BY <1>3, <2>1, <2>2 DEF AuditCheck, TypeOK
<1>4. CASE AuditRefreshed BY <1>4, IdleType DEF AuditRefreshed, TypeOK
<1>5. CASE AuditBegin
  <2>1. receipt.obs = audit.rev => Begun(receipt, audit.src, audit.rev, TRUE) \in Receipt
    BY BegunFacts DEF TypeOK, AuditState
  <2>2. RecType' /\ faults' \in Nat
    BY <1>5, <2>1, PersistType DEF AuditBegin, RecType, TypeOK
  <2>3. audit' \in AuditState BY <1>5, IdleType DEF AuditBegin, AuditTo, AuditState, TypeOK
  <2> QED BY <1>5, <2>2, <2>3 DEF AuditBegin, RecType, TypeOK
<1>6. CASE AuditSchedule BY <1>6, IdleType, ScheduleType DEF AuditSchedule, TypeOK
<1> QED BY <1>1, <1>2, <1>3, <1>4, <1>5, <1>6 DEF AuditStep

LEMMA CloseType ==
  ASSUME TypeOK, CloseStart \/ CloseStep
  PROVE  TypeOK'
<1>a. /\ closer \in CloserState /\ transcripts \in Source /\ RecType /\ faults \in Nat
      /\ ended \in BOOLEAN /\ archived \in BOOLEAN /\ closer.src \in Source
  BY DEF TypeOK, CloserState, RecType
<1> USE DEF CloseFrame, memVars, recVars, endVars, jobVars, bndVars
<1>1. ASSUME NEW mode \in CloseModes, CloseBegin(mode) PROVE TypeOK'
  <2>1. closer' \in CloserState
    BY <1>1, IdleType, FinalizationConstants DEF FinalizationConstants, CloseBegin, CloserState
  <2> QED BY <1>1, <2>1 DEF CloseBegin, TypeOK
<1>2. CASE CloseSnap
  <2>1. closer' \in CloserState BY <1>a, <1>2 DEF CloseSnap, CloserState
  <2> QED BY <1>2, <2>1 DEF CloseSnap, TypeOK
<1>3. CASE ClosePrewrite
  <2>1. closer' \in CloserState BY <1>a, <1>3, IdleType DEF ClosePrewrite, CloserTo, CloserState
  <2>2. archive' \in [state : {"closing", "finalized", "degraded"}, src : Source, mem : Source]
    BY <1>a, <1>3 DEF ClosePrewrite, ArchiveFails, TypeOK
  <2>3. faults' \in Nat BY <1>a, <1>3 DEF ClosePrewrite, ArchiveFails, Fault
  <2>4. publishing \in BOOLEAN BY DEF TypeOK
  <2>5. publishing' \in BOOLEAN BY <1>3, <2>4, Zenon DEF ClosePrewrite
  <2> QED BY <1>3, <2>1, <2>2, <2>3, <2>5 DEF ClosePrewrite, TypeOK
<1>4. CASE CloseEnd
  <2>1. closer' \in CloserState BY <1>a, <1>4, IdleType DEF CloseEnd, CloserTo, CloserState
  <2>2. RecType' /\ faults' \in Nat
    BY <1>a, <1>4, NewReceiptFacts, PersistType DEF CloseEnd, Fault, RecType
  <2> QED BY <1>a, <1>4, <2>1, <2>2 DEF CloseEnd, RecType, TypeOK
<1>5. CASE CloseArchive
  <2>1. closer' \in CloserState BY <1>a, <1>5 DEF CloseArchive, CloserTo, CloserState
  <2> QED BY <1>a, <1>5, <2>1 DEF CloseArchive, ArchiveFails, Fault, TypeOK
<1>6. CASE CloseStamp
  <2>1. closer' \in CloserState BY <1>a, <1>6 DEF CloseStamp, CloserTo, CloserState
  <2>2. archived' \in BOOLEAN BY <1>6, Zenon DEF CloseStamp
  <2>3. faults' \in Nat BY <1>a, <1>6 DEF CloseStamp, Fault
  <2> QED BY <1>6, <2>1, <2>2, <2>3 DEF CloseStamp, TypeOK
<1>7. CASE CloseTruth
  <2>1. closer' \in CloserState BY <1>a, <1>7 DEF CloseTruth, CloserTo, CloserState
  <2>2. wr' \in [Writers -> WrState]
    <3>1. \A x \in {"off", "mark"} : [NoWr EXCEPT !.pc = "truthLock", !.next = x] \in WrState
      BY IdleType DEF WrState
    <3> QED BY <1>7, <3>1 DEF CloseTruth, TypeOK
  <2> QED BY <1>7, <2>1, <2>2 DEF CloseTruth, Writers, TypeOK
<1>8. CASE CloseMarked
  <2>1. closer' \in CloserState BY <1>a, <1>8 DEF CloseMarked, CloserTo, CloserState
  <2> QED BY <1>8, <2>1 DEF CloseMarked, TypeOK
<1>9. CASE ClosePublish
  <2>1. closer' \in CloserState BY <1>a, <1>9 DEF ClosePublish, CloserTo, CloserState
  <2> QED BY <1>9, <2>1, ScheduleType DEF ClosePublish, TypeOK
<1>10. CASE CloseClear BY <1>10, IdleType DEF CloseClear, TypeOK
<1> QED BY <1>1, <1>2, <1>3, <1>4, <1>5, <1>6, <1>7, <1>8, <1>9, <1>10 DEF CloseStart, CloseStep

LEMMA RestartType ==
  ASSUME TypeOK, Restart
  PROVE  TypeOK'
<1>1. receipt' \in Receipt /\ holders' \subseteq Writers
  BY NewReceiptFacts DEF TypeOK, Restart, endVars
<1>2. retry' \in RetryState /\ job' \in JobState
  BY IdleType DEF Restart, Resume, RetryState, JobState
<1>3. audit' \in AuditState
  BY <1>1, IdleType DEF Restart, Resume, AuditState
<1>4. /\ mut' \in MutState /\ fz' \in FzState /\ closer' \in CloserState
      /\ wr' \in [Writers -> WrState]
  BY IdleType DEF Restart
<1>5. again' \in BOOLEAN /\ publishing' \in BOOLEAN BY Zenon DEF Restart
<1>6. ended \in BOOLEAN /\ archived \in BOOLEAN BY DEF TypeOK
<1>7. ended' \in BOOLEAN /\ archived' \in BOOLEAN BY <1>6, Zenon DEF Restart, endVars
<1>8. crashes' \in Nat BY DEF Restart, TypeOK
<1> QED BY <1>1, <1>2, <1>3, <1>4, <1>5, <1>7, <1>8 DEF Restart, memVars, TypeOK

LEMMA TypeStep == TypeOK /\ [Next]_vars => TypeOK'
<1> SUFFICES ASSUME TypeOK, [Next]_vars PROVE TypeOK' OBVIOUS
<1>1. CASE UNCHANGED vars BY <1>1 DEF vars, TypeOK
<1> QED BY <1>1, MutType, FzType, RetryType, WrType, AuditType, CloseType, RestartType DEF Next

LEMMA TypeInit == Init => TypeOK
<1>1. {} \in Source BY DEF Source
<1>2. Init => /\ ended \in BOOLEAN /\ archived \in BOOLEAN /\ again \in BOOLEAN
              /\ publishing \in BOOLEAN
  BY DEF Init
<1>3. Init => wr \in [Writers -> WrState] BY IdleType DEF Init
<1> QED BY <1>1, <1>2, <1>3, IdleType, NewReceiptFacts DEF Init, TypeOK, JobState

\* Every variable keeps its type: the store, the archive and every actor's
\* locals stay well-formed under any interleaving, crash or failed write.
THEOREM TypeCorrect == Spec => []TypeOK
<1>1. Init => TypeOK BY TypeInit
<1>2. TypeOK /\ [Next]_vars => TypeOK' BY TypeStep
<1> QED BY <1>1, <1>2, PTL DEF Spec

-----------------------------------------------------------------------------
(* The inductive invariant.                                                 *)

\* Writes that keep the receipt's source keep what it vouches for.
LEMMA SameSourceKeeps ==
  ASSUME TypeOK, ReceiptInv, UNCHANGED <<transcripts, ended, mut>>,
         NEW r \in Receipt, SameSource(receipt, r),
         r.state = "finalized" => receipt.state = "finalized" \/ receipt.srcObs = receipt.obs,
         receipt' = r
  PROVE  ReceiptInv' /\ receipt'.obs = receipt.obs
BY DEF ReceiptInv, SameSource, Fenced

\* A begin at the current revision binds the receipt to the current source.
LEMMA BeginKeeps ==
  ASSUME TypeOK, ReceiptInv, UNCHANGED <<transcripts, ended, mut>>,
         NEW f \in BOOLEAN, ~Fenced,
         receipt' = Begun(receipt, transcripts, receipt.obs, f)
  PROVE  ReceiptInv' /\ receipt'.obs = receipt.obs
<1>0. receipt \in Receipt /\ transcripts \in Source BY DEF TypeOK
<1>1. /\ receipt'.src = transcripts
      /\ receipt'.obs = receipt.obs /\ receipt'.srcObs = receipt.obs
  BY <1>0, BegunFacts, Zenon
<1>2. receipt.obs \in Nat BY DEF TypeOK, Receipt
<1>3. receipt'.srcObs <= receipt'.obs BY <1>1, <1>2
<1>4. ~Fenced' BY DEF Fenced
<1>5. transcripts' = transcripts OBVIOUS
<1> QED BY <1>1, <1>3, <1>4, <1>5, Zenon DEF ReceiptInv

\* Neither a failed persist nor a skipped one changes anything else.
LEMMA PersistCases ==
  ASSUME NEW r, Persist(r) \/ PersistFails(r) \/ UNCHANGED <<recVars, faults>>
  PROVE  receipt' = r \/ receipt' = receipt
BY DEF Persist, PersistFails, Stamp, recVars

\* The finalizer only works for an ended meeting, and what it does to the
\* receipt it does at the current revision with the current source.
LEMMA FzEnded ==
  ASSUME OpenInv, FzStep
  PROVE  ended
<1>1. ~ended => fz.pc = "off" /\ job = "none" BY DEF OpenInv, NoFz
<1>2. CASE FzStart BY <1>1, <1>2 DEF FzStart
<1>3. CASE ~FzStart
  BY <1>1, <1>3 DEF FzStep, FzObserve, FzSnapshot, FzBegin, FzVerify, FzForce, FzBrain, FzCallBrain,
       FzMarkBrain, FzDigest, FzCallDigest, FzMarkDigest, FzMarkActions, FzResnapshot, FzRebegin,
       FzComplete, FzExhausted, FzCancel, FzFinish
<1> QED BY <1>2, <1>3

LEMMA FzFrames ==
  ASSUME FzStep
  PROVE  UNCHANGED <<transcripts, ended, archived, archive, mut, audit, closer>>
BY DEF FzStep, FzFrame, memVars, endVars, FzStart, FzObserve, FzSnapshot, FzBegin, FzVerify, FzForce, FzBrain,
       FzCallBrain, FzMarkBrain, FzDigest, FzCallDigest, FzMarkDigest, FzMarkActions,
       FzResnapshot, FzRebegin, FzComplete, FzExhausted, FzCancel, FzFinish

LEMMA FzBeginKeeps ==
  ASSUME TypeOK, ReceiptInv, FzInv, FzHolds, UNCHANGED <<transcripts, ended, mut>>,
         NEW f \in BOOLEAN,
         \/ receipt' = receipt
         \/ receipt.obs = fz.rev /\ receipt' = Begun(receipt, fz.src, fz.rev, f)
  PROVE  ReceiptInv' /\ receipt'.obs = receipt.obs
<1>1. CASE receipt' = receipt BY <1>1 DEF ReceiptInv, Fenced
<1>2. CASE receipt.obs = fz.rev /\ receipt' = Begun(receipt, fz.src, fz.rev, f)
  <2>1. fz.src = transcripts /\ ~Fenced BY <1>2, Zenon DEF FzInv
  <2>2. receipt' = Begun(receipt, transcripts, receipt.obs, f) BY <1>2, <2>1, Zenon
  <2> QED BY <2>1, <2>2, BeginKeeps, Zenon
<1> QED BY <1>1, <1>2

\* A pass that ends holds no source; a step inside one holds what it held.
LEMMA FzInvKeeps ==
  ASSUME TypeOK, FzInv, UNCHANGED <<transcripts, mut>>, receipt'.obs = receipt.obs,
         \/ fz'.rev = 0 /\ ~FzHolds'
         \/ fz'.rev = fz.rev /\ (FzHolds' => FzHolds /\ fz'.src = fz.src)
  PROVE  FzInv'
<1>1. receipt.obs \in Nat BY DEF TypeOK, Receipt
<1> QED BY <1>1 DEF FzInv, Fenced

LEMMA ExitFz ==
  ASSUME NextPass \/ ExitErr \/ ExitOk
  PROVE  fz'.rev = 0 /\ ~FzHolds'
BY DEF NextPass, ExitErr, ExitOk, NoFz, FzHolds

LEMMA DegradeKeeps ==
  ASSUME TypeOK, ReceiptInv, UNCHANGED <<transcripts, ended, mut>>,
         NEW n \in StageName, NEW f \in BOOLEAN, Degrade(n, f)
  PROVE  ReceiptInv' /\ receipt'.obs = receipt.obs /\ fz'.rev = 0 /\ ~FzHolds'
<1>1. fz'.rev = 0 /\ ~FzHolds' BY ExitFz DEF Degrade
<1>2. receipt' = Degraded(receipt, n, f) \/ receipt' = receipt BY PersistCases DEF Degrade
<1>3. receipt \in Receipt BY DEF TypeOK
<1>4. /\ Degraded(receipt, n, f) \in Receipt /\ Degraded(receipt, n, f).state = "degraded"
      /\ SameSource(receipt, Degraded(receipt, n, f))
  BY <1>3, MarkFacts, Zenon
<1>5. CASE receipt' = Degraded(receipt, n, f)
  <2>1. Degraded(receipt, n, f).state # "finalized" BY <1>4
  <2> QED BY <1>1, <1>4, <1>5, <2>1, SameSourceKeeps, Zenon
<1>6. CASE receipt' = receipt BY <1>1, <1>6 DEF ReceiptInv, Fenced
<1> QED BY <1>2, <1>5, <1>6

LEMMA MarkKeeps ==
  ASSUME TypeOK, ReceiptInv, UNCHANGED <<transcripts, ended, mut>>,
         NEW n \in StageName, NEW next, FzMark(n, fz.out, To(next))
  PROVE  /\ ReceiptInv' /\ receipt'.obs = receipt.obs
         /\ (fz' = [fz EXCEPT !.pc = next] \/ (fz'.rev = 0 /\ ~FzHolds'))
<1>1. (fz' = [fz EXCEPT !.pc = next] \/ (fz'.rev = 0 /\ ~FzHolds')) BY ExitFz, Zenon DEF FzMark, To
<1>2. receipt' = Completed(receipt, n, fz.out) \/ receipt' = receipt
  BY PersistCases DEF FzMark
<1>3. receipt \in Receipt /\ fz.out \in Nat BY DEF TypeOK, FzState
<1>4. /\ Completed(receipt, n, fz.out) \in Receipt
      /\ Completed(receipt, n, fz.out).state = receipt.state
      /\ SameSource(receipt, Completed(receipt, n, fz.out))
  BY <1>3, MarkFacts, Zenon
<1>5. CASE receipt' = Completed(receipt, n, fz.out)
  BY <1>1, <1>4, <1>5, SameSourceKeeps
<1>6. CASE receipt' = receipt BY <1>1, <1>6 DEF ReceiptInv, Fenced
<1> QED BY <1>2, <1>5, <1>6

\* What every step of the finalizer keeps.
FzEffect == ReceiptInv' /\ receipt'.obs = receipt.obs /\ FzInv'

LEMMA FzReceipt ==
  ASSUME TypeOK, ReceiptInv, FzInv, FzStep
  PROVE  FzEffect
<1>a. UNCHANGED <<transcripts, ended, mut>> BY FzFrames
<1>b. "brain" \in StageName /\ "digest" \in StageName /\ "actions" \in StageName BY DEF StageName
<1>c. ASSUME NEW n \in StageName, NEW f \in BOOLEAN, Degrade(n, f) PROVE FzEffect
  BY <1>a, <1>c, DegradeKeeps, FzInvKeeps, Zenon DEF FzEffect
<1>d. fz \in FzState BY DEF TypeOK
<1>e. ASSUME NEW next, next \notin {"begin", "verify", "force", "rebegin"},
             fz' = [fz EXCEPT !.pc = next]
      PROVE  fz'.rev = fz.rev /\ ~FzHolds'
  BY <1>d, <1>e DEF FzState, FzHolds
<1>f. ASSUME NEW n \in StageName, NEW next, FzMark(n, fz.out, To(next)),
             next \notin {"begin", "verify", "force", "rebegin"}
      PROVE  FzEffect
  <2>1. /\ ReceiptInv' /\ receipt'.obs = receipt.obs
        /\ (fz' = [fz EXCEPT !.pc = next] \/ (fz'.rev = 0 /\ ~FzHolds'))
    BY <1>a, <1>f, MarkKeeps
  <2>2. (fz'.rev = fz.rev \/ fz'.rev = 0) /\ ~FzHolds' BY <1>e, <1>f, <2>1
  <2> QED BY <1>a, <2>1, <2>2, FzInvKeeps DEF FzEffect
\* A step that leaves the receipt alone.
<1>g. ASSUME receipt' = receipt,
             \/ fz'.rev = 0 /\ ~FzHolds'
             \/ fz'.rev = fz.rev /\ (FzHolds' => FzHolds /\ fz'.src = fz.src)
      PROVE  FzEffect
  <2>1. ReceiptInv' BY <1>a, <1>g DEF ReceiptInv, Fenced
  <2> QED BY <1>a, <1>g, <2>1, FzInvKeeps DEF FzEffect
<1>1. CASE FzStart
  <2>1. fz'.rev = 0 /\ ~FzHolds' BY <1>1 DEF FzStart, NoFz, FzHolds
  <2> QED BY <1>1, <1>g, <2>1 DEF FzStart, recVars
<1>2. CASE FzObserve
  <2>1. fz'.rev = receipt.obs /\ ~FzHolds' /\ receipt' = receipt
    BY <1>d, <1>2 DEF FzObserve, FzState, FzHolds, recVars
  <2>2. FzInv' /\ ReceiptInv'
    <3>1. receipt.obs \in Nat BY DEF TypeOK, Receipt
    <3> QED BY <1>a, <2>1, <3>1 DEF FzInv, ReceiptInv, Fenced
  <2> QED BY <2>1, <2>2 DEF FzEffect
<1>3. CASE FzSnapshot \/ FzResnapshot
  <2>1. /\ mut.pc = "off" /\ fz'.rev = fz.rev /\ receipt' = receipt
        /\ FzHolds' => fz'.src = transcripts
    BY <1>d, <1>3 DEF FzSnapshot, FzResnapshot, MemFree, FzState, FzHolds, recVars
  <2>2. FzInv' /\ ReceiptInv' BY <1>a, <2>1 DEF FzInv, ReceiptInv, Fenced
  <2> QED BY <2>1, <2>2 DEF FzEffect
<1>4. CASE FzBegin
  <2>1. \/ receipt' = receipt
        \/ receipt.obs = fz.rev /\ receipt' = Begun(receipt, fz.src, fz.rev, FALSE)
    BY <1>4 DEF FzBegin, FzBeginAt, Persist, PersistFails, Stamp, recVars
  <2>2. FzHolds BY <1>4 DEF FzBegin, FzHolds
  <2>3. ReceiptInv' /\ receipt'.obs = receipt.obs BY <1>a, <2>1, <2>2, FzBeginKeeps
  <2>4. \/ fz'.rev = 0 /\ ~FzHolds'
        \/ fz'.rev = fz.rev /\ fz'.src = fz.src
    <3>1. NextPass \/ ExitErr => fz'.rev = 0 /\ ~FzHolds' BY ExitFz
    <3>2. \/ NextPass \/ ExitErr
          \/ fz' = [fz EXCEPT !.pc = "verify", !.outs = [n \in StageName |-> receipt.stage[n].out]]
          \/ fz' = [fz EXCEPT !.pc = "brain"]
      BY <1>4 DEF FzBegin, FzBeginAt
    <3> QED BY <1>d, <3>1, <3>2 DEF FzState
  <2> QED BY <1>a, <2>2, <2>3, <2>4, FzInvKeeps DEF FzEffect
<1>5. CASE FzVerify
  <2>1. receipt' = receipt BY <1>5 DEF FzVerify, recVars
  <2>2. ExitOk \/ fz' = [fz EXCEPT !.pc = "force"] BY <1>5 DEF FzVerify, To
  <2>3. FzHolds BY <1>5 DEF FzVerify, FzHolds
  <2>4. \/ fz'.rev = 0 /\ ~FzHolds'
        \/ fz'.rev = fz.rev /\ fz'.src = fz.src
    BY <1>d, <2>2, ExitFz DEF FzState
  <2> QED BY <1>g, <2>1, <2>3, <2>4
<1>6. CASE FzForce
  <2>1. \/ receipt' = receipt
        \/ receipt.obs = fz.rev /\ receipt' = Begun(receipt, fz.src, fz.rev, TRUE)
    BY <1>6 DEF FzForce, FzBeginAt, Persist, PersistFails, Stamp, recVars
  <2>2. FzHolds BY <1>6 DEF FzForce, FzHolds
  <2>3. ReceiptInv' /\ receipt'.obs = receipt.obs BY <1>a, <2>1, <2>2, FzBeginKeeps
  <2>4. NextPass \/ ExitErr \/ fz' = [fz EXCEPT !.pc = "brain"]
    BY <1>6 DEF FzForce, FzBeginAt, To
  <2>5. (fz'.rev = 0 \/ fz'.rev = fz.rev) /\ ~FzHolds' BY <1>e, <2>4, ExitFz
  <2> QED BY <1>a, <2>3, <2>5, FzInvKeeps DEF FzEffect
<1>7. CASE FzBrain
  <2>1. CASE Degrade("brain", FALSE) BY <1>b, <1>c, <2>1
  <2>2. CASE ~Degrade("brain", FALSE)
    <3>1. /\ receipt' = receipt
          /\ \/ \E k : fz' = [fz EXCEPT !.pc = "markBrain", !.out = k]
             \/ fz' = [fz EXCEPT !.pc = "callBrain"]
      BY <1>7, <2>2 DEF FzBrain, To, recVars
    <3>2. fz'.rev = fz.rev /\ ~FzHolds' BY <1>d, <3>1 DEF FzState, FzHolds
    <3> QED BY <1>g, <3>1, <3>2
  <2> QED BY <2>1, <2>2
<1>8. CASE FzCallBrain
  <2>1. CASE Degrade("brain", TRUE) BY <1>b, <1>c, <2>1
  <2>2. CASE ~Degrade("brain", TRUE) BY <1>8, <1>g, <2>2, ExitFz, Zenon DEF FzCallBrain, recVars
  <2> QED BY <2>1, <2>2
<1>9. CASE FzMarkBrain
  <2>1. FzMark("brain", fz.out, To("markDigest")) \/ FzMark("brain", fz.out, To("digest"))
    BY <1>9 DEF FzMarkBrain
  <2> QED BY <1>b, <1>f, <2>1
<1>10. CASE FzDigest
  <2>1. CASE Degrade("digest", TRUE) BY <1>b, <1>c, <2>1
  <2>2. CASE ~Degrade("digest", TRUE)
    <3>1. /\ receipt' = receipt
          /\ \E k : \/ fz' = [fz EXCEPT !.pc = "markDigest", !.out = k]
                   \/ fz' = [fz EXCEPT !.pc = "callDigest", !.out = k]
      BY <1>10, <2>2 DEF FzDigest, recVars
    <3>2. fz'.rev = fz.rev /\ ~FzHolds' BY <1>d, <3>1 DEF FzState, FzHolds
    <3> QED BY <1>g, <3>1, <3>2
  <2> QED BY <2>1, <2>2
<1>11. CASE FzCallDigest
  <2>1. CASE Degrade("digest", TRUE) BY <1>b, <1>c, <2>1
  <2>2. CASE ~Degrade("digest", TRUE) BY <1>11, <1>g, <2>2, ExitFz, Zenon DEF FzCallDigest, recVars
  <2> QED BY <2>1, <2>2
<1>12. CASE FzMarkDigest
  <2>1. FzMark("digest", fz.out, To("markActions")) BY <1>12 DEF FzMarkDigest
  <2> QED BY <1>b, <1>f, <2>1
<1>13. CASE FzMarkActions
  <2>1. CASE Degrade("actions", TRUE) BY <1>b, <1>c, <2>1
  <2>2. CASE ~Degrade("actions", TRUE)
    <3>1. FzMark("actions", fz.out, To("complete")) \/ FzMark("actions", fz.out, To("reobserve"))
      BY <1>13, <2>2 DEF FzMarkActions
    <3> QED BY <1>b, <1>f, <3>1
  <2> QED BY <2>1, <2>2
<1>15. CASE FzRebegin
  <2>1. \/ receipt' = receipt
        \/ receipt.obs = fz.rev /\ receipt' = Begun(receipt, fz.src, fz.rev, FALSE)
    BY <1>15 DEF FzRebegin, FzBeginAt, Persist, PersistFails, Stamp, recVars
  <2>2. FzHolds BY <1>15 DEF FzRebegin, FzHolds
  <2>3. ReceiptInv' /\ receipt'.obs = receipt.obs BY <1>a, <2>1, <2>2, FzBeginKeeps
  <2>4. fz'.rev = 0 /\ ~FzHolds' BY <1>15, ExitFz DEF FzRebegin, FzBeginAt
  <2> QED BY <1>a, <2>3, <2>4, FzInvKeeps DEF FzEffect
<1>16. CASE FzComplete
  <2>1. fz'.rev = 0 /\ ~FzHolds' BY <1>16, ExitFz DEF FzComplete
  <2>2. CASE receipt' = receipt BY <1>g, <2>1, <2>2
  <2>3. CASE receipt' # receipt
    <3>1. receipt' = Finalized(receipt) /\ receipt.obs = receipt.srcObs
      BY <1>16, <2>3, PersistCases DEF FzComplete, SourceAdvanced, recVars
    <3>2. Finalized(receipt) \in Receipt /\ SameSource(receipt, Finalized(receipt))
      BY <1>b, MarkFacts DEF TypeOK
    <3>3. ReceiptInv' /\ receipt'.obs = receipt.obs BY <1>a, <3>1, <3>2, SameSourceKeeps
    <3> QED BY <1>a, <2>1, <3>3, FzInvKeeps DEF FzEffect
  <2> QED BY <2>2, <2>3
<1>17. CASE FzExhausted BY <1>17, <1>b, <1>c DEF FzExhausted
<1>18. CASE FzCancel
  <2>1. receipt' = receipt /\ fz' = [fz EXCEPT !.pc = "refresh"] BY <1>18 DEF FzCancel, To
  <2>2. fz'.rev = fz.rev /\ ~FzHolds' BY <1>e, <2>1
  <2> QED BY <1>g, <2>1, <2>2
<1>19. CASE FzFinish
  <2>1. fz'.rev = 0 /\ ~FzHolds' /\ receipt' = receipt BY <1>19 DEF FzFinish, NoFz, FzHolds
  <2> QED BY <1>g, <2>1
<1> QED BY <1>1, <1>2, <1>3, <1>4, <1>5, <1>6, <1>7, <1>8, <1>9, <1>10, <1>11, <1>12, <1>13,
           <1>15, <1>16, <1>17, <1>18, <1>19 DEF FzStep

\* A writer of the archive that is only told to start has read nothing yet.
WrStarts == wr' = wr \/ \E p \in Writers : wr' = [wr EXCEPT ![p].pc = "read"]

LEMMA WrStartsKeeps ==
  ASSUME TypeOK, ArchiveInv, WrStarts, UNCHANGED <<transcripts, archived, archive, mut>>
  PROVE  ArchiveInv'
<1>1. \A p \in Writers : wr'[p] = wr[p] \/ wr'[p].pc = "read"
  BY DEF WrStarts, TypeOK, WrState
<1>2. /\ archive'.state = "finalized" =>
           archived' /\ archive'.src = transcripts' /\ mut'.pc # "commit"
      /\ mut'.pc \in {"lock", "write"} => archived'
      /\ mut'.pc = "write" => mut'.emb.state # "finalized"
  BY DEF ArchiveInv
<1>3. mut'.pc = "write" => \A p \in Writers : wr'[p].pc \notin {"write", "truthWrite"}
  BY <1>1 DEF ArchiveInv
<1>4. ASSUME NEW p \in Writers
      PROVE  /\ wr'[p].pc \notin {"off", "read"} => archived'
             /\ wr'[p].pc \in {"write", "truthWrite"} /\ wr'[p].emb.state = "finalized" =>
                  wr'[p].emb.src = transcripts' /\ mut'.pc # "commit"
  <2>1. CASE wr'[p] = wr[p] BY <2>1 DEF ArchiveInv
  <2>2. CASE wr'[p].pc = "read" BY <2>2
  <2> QED BY <1>1, <2>1, <2>2
<1> QED BY <1>2, <1>3, <1>4 DEF ArchiveInv

LEMMA FzWr ==
  ASSUME FzStep
  PROVE  WrStarts
<1>1. ExitErr \/ ExitOk => WrStarts BY DEF ExitErr, ExitOk, WrStarts, Writers
<1>2. \A n, f : Degrade(n, f) => ExitErr BY DEF Degrade
<1>3. CASE FzStart \/ FzObserve \/ FzSnapshot \/ FzResnapshot \/ FzFinish
  BY <1>3 DEF FzStart, FzObserve, FzSnapshot, FzResnapshot, FzFinish, WrStarts
<1>4. CASE FzBegin \/ FzForce \/ FzRebegin
  BY <1>1, <1>4 DEF FzBegin, FzForce, FzRebegin, FzBeginAt, WrStarts
<1>5. CASE FzVerify BY <1>1, <1>5 DEF FzVerify, WrStarts
<1>6. CASE FzBrain \/ FzCallBrain \/ FzDigest \/ FzCallDigest \/ FzExhausted
  BY <1>1, <1>6 DEF Degrade, FzBrain, FzCallBrain, FzDigest, FzCallDigest, FzExhausted, WrStarts
<1>7. CASE FzMarkBrain \/ FzMarkDigest \/ FzMarkActions
  BY <1>1, <1>7 DEF Degrade, FzMarkBrain, FzMarkDigest, FzMarkActions, FzMark, WrStarts
<1>8. CASE FzComplete BY <1>1, <1>8 DEF FzComplete, WrStarts
<1>9. CASE FzCancel BY <1>9 DEF FzCancel, WrStarts, Writers
<1> QED BY <1>3, <1>4, <1>5, <1>6, <1>7, <1>8, <1>9 DEF FzStep

LEMMA FzStepInv ==
  ASSUME TypeOK, IInv, FzStep
  PROVE  IInv'
<1>1. UNCHANGED <<transcripts, ended, archived, archive, mut, audit, closer>> BY FzFrames
<1>2. ReceiptInv' /\ receipt'.obs = receipt.obs /\ FzInv' BY FzReceipt DEF IInv, FzEffect
<1>3. LifecycleInv' BY <1>1 DEF IInv, LifecycleInv, LifecycleFree
<1>4. OpenInv' BY <1>1, FzEnded DEF IInv, OpenInv
<1>5. AuditInv' BY <1>1, <1>2 DEF IInv, AuditInv, AuditHolds, Fenced
<1>6. ArchiveInv' BY <1>1, FzWr, WrStartsKeeps DEF IInv
<1> QED BY <1>2, <1>3, <1>4, <1>5, <1>6 DEF IInv

LEMMA RetryStepInv ==
  ASSUME TypeOK, IInv, RetryStep
  PROVE  IInv'
<1>1. UNCHANGED <<transcripts, ended, archived, receipt, archive, mut, fz, wr, audit, closer>>
  BY DEF RetryStep, RetryRead, RetryArm, RetryFire, RetryCheck, memVars, endVars
<1>2. OpenInv'
  <2>1. ended
    <3>1. \E c \in RetryCell : retry[c] # "off"
      BY DEF RetryStep, RetryRead, RetryArm, RetryFire, RetryCheck, RetryCell
    <3> QED BY <3>1 DEF IInv, OpenInv
  <2> QED BY <1>1, <2>1 DEF OpenInv
<1>3. LifecycleInv' BY <1>1 DEF IInv, LifecycleInv, LifecycleFree
<1>4. ReceiptInv' /\ FzInv' /\ AuditInv'
  BY <1>1 DEF IInv, ReceiptInv, FzInv, AuditInv, FzHolds, AuditHolds, Fenced
<1>5. ArchiveInv' BY <1>1, WrStartsKeeps DEF IInv, WrStarts
<1> QED BY <1>2, <1>3, <1>4, <1>5 DEF IInv

\* A receipt that is finalized while a writer holds the archive lock covers the
\* source, and no source change is about to land.
LEMMA EmbedIsCurrent ==
  ASSUME ReceiptInv, ended, receipt.state = "finalized"
  PROVE  EmbedNow.src = transcripts /\ mut.pc # "commit"
BY DEF ReceiptInv, EmbedNow, Fenced

\* An archive write under its lock: the file takes what the writer embedded.
WriterOk(p, w) ==
  /\ w[p].pc \notin {"off", "read"} => archived
  /\ w[p].pc \in {"write", "truthWrite"} /\ w[p].emb.state = "finalized" =>
       w[p].emb.src = transcripts /\ mut.pc # "commit"

LEMMA WrArchive ==
  ASSUME TypeOK, IInv, NEW p \in Writers, WrStep(p)
  PROVE  ArchiveInv'
<1>a. UNCHANGED <<transcripts, ended, archived, mut>>
  BY DEF WrStep, WrFrame, memVars, endVars, WrRead, WrSnap, WrLock, WrWrite, WrMark, WrTruthLock, WrTruthWrite
<1>b. wr \in [Writers -> WrState] BY DEF TypeOK
<1>c. archived => ended BY DEF IInv, OpenInv
<1>d. /\ archive.state = "finalized" =>
           archived /\ archive.src = transcripts /\ mut.pc # "commit"
      /\ mut.pc \in {"lock", "write"} => archived
      /\ mut.pc = "write" => mut.emb.state # "finalized"
      /\ mut.pc = "write" => \A q \in Writers : wr[q].pc \notin {"write", "truthWrite"}
      /\ \A q \in Writers : WriterOk(q, wr)
  BY DEF IInv, ArchiveInv, WriterOk
\* The other writers are where they were.
<1>e. \A q \in Writers : q # p => wr'[q] = wr[q]
  BY <1>b DEF WrStep, WrRead, WrTo, WrSnap, WrLock, WrWrite, WrMark, WrRepair, WrTruthLock, WrTruthWrite
\* It suffices to look at the archive and at p.
<1>f. ASSUME archive'.state = "finalized" =>
               archived /\ archive'.src = transcripts /\ mut.pc # "commit",
             mut.pc = "write" => wr'[p].pc \notin {"write", "truthWrite"},
             WriterOk(p, wr')
      PROVE  ArchiveInv'
  <2>1. \A q \in Writers : WriterOk(q, wr') BY <1>d, <1>e, <1>f DEF WriterOk
  <2>2. mut.pc = "write" => \A q \in Writers : wr'[q].pc \notin {"write", "truthWrite"}
    BY <1>d, <1>e, <1>f
  <2> QED BY <1>a, <1>d, <1>f, <2>1, <2>2 DEF ArchiveInv, WriterOk
<1>1. CASE WrRead(p)
  <2>1. archive' = archive /\ wr'[p].pc \in {"snap", "off"} /\ (wr'[p].pc = "snap" => archived)
    BY <1>b, <1>1 DEF WrRead, WrTo, WrState
  <2> QED BY <1>d, <1>f, <2>1 DEF WriterOk
<1>2. CASE WrSnap(p)
  <2>1. archive' = archive /\ wr'[p].pc = "lock" /\ wr[p].pc = "snap"
    BY <1>b, <1>2 DEF WrSnap, WrState
  <2> QED BY <1>d, <1>f, <2>1 DEF WriterOk
<1>3. CASE WrLock(p) \/ WrTruthLock(p)
  <2>1. /\ archive' = archive /\ mut.pc # "write" /\ wr[p].pc \in {"lock", "truthLock"}
        /\ \/ wr'[p].pc \in {"write", "truthWrite"} /\ wr'[p].emb = EmbedNow
           \/ wr'[p].pc = "off"
    <3>1. CASE WrLock(p)
      <4>1. /\ archive' = archive /\ mut.pc # "write" /\ wr[p].pc = "lock"
            /\ \/ wr' = [wr EXCEPT ![p] = [wr[p] EXCEPT !.pc = "write", !.emb = EmbedNow]]
               \/ wr' = [wr EXCEPT ![p] = NoWr]
        BY <3>1 DEF WrLock, ArchiveFree
      <4>2. wr'[p] = [wr[p] EXCEPT !.pc = "write", !.emb = EmbedNow] \/ wr'[p] = NoWr
        BY <1>b, <4>1
      <4>3. wr[p] \in WrState BY <1>b
      <4>4. ASSUME NEW w \in WrState
            PROVE  LET x == [w EXCEPT !.pc = "write", !.emb = EmbedNow]
                   IN  x.pc = "write" /\ x.emb = EmbedNow
        BY DEF WrState
      <4>5. NoWr.pc = "off" BY DEF NoWr
      <4>6. CASE wr'[p] = [wr[p] EXCEPT !.pc = "write", !.emb = EmbedNow] BY <4>1, <4>3, <4>4, <4>6
      <4> QED BY <4>1, <4>2, <4>5, <4>6
    <3>2. CASE WrTruthLock(p) BY <1>b, <3>2 DEF WrTruthLock, ArchiveFree, WrState
    <3> QED BY <1>3, <3>1, <3>2
  <2>2. archived BY <1>d, <2>1 DEF WriterOk
  <2>3. EmbedNow.state = receipt.state BY DEF EmbedNow
  <2>4. WriterOk(p, wr')
    <3>1. CASE wr'[p].pc = "off" BY <3>1 DEF WriterOk
    <3>2. CASE wr'[p].emb = EmbedNow
      BY <1>c, <2>2, <2>3, <3>2, EmbedIsCurrent DEF WriterOk, IInv
    <3> QED BY <2>1, <3>1, <3>2
  <2> QED BY <1>d, <1>f, <2>1, <2>4
<1>4. CASE WrWrite(p) \/ WrTruthWrite(p)
  <2>1. /\ wr[p].pc \in {"write", "truthWrite"}
        /\ wr'[p].pc \in {"off", "mark"}
        /\ \/ archive'.state = wr[p].emb.state /\ archive'.src = wr[p].emb.src
           \/ archive' = archive
    <3>1. archive \in [state : {"closing", "finalized", "degraded"}, src : Source, mem : Source]
      BY DEF TypeOK
    <3>2. CASE WrWrite(p) BY <1>b, <3>2 DEF WrWrite, ArchiveFails, WrTo, WrState, NoWr
    <3>3. CASE WrTruthWrite(p)
      <4>1. wr[p].pc = "truthWrite" /\ wr[p].next \in {"off", "mark"}
        BY <1>b, <3>3 DEF WrTruthWrite, WrState
      <4>2. \/ archive' = [archive EXCEPT !.state = wr[p].emb.state, !.src = wr[p].emb.src]
            \/ archive' = archive
        BY <3>3 DEF WrTruthWrite, ArchiveFails
      <4>3. \/ wr' = [wr EXCEPT ![p] = [NoWr EXCEPT !.pc = wr[p].next]]
            \/ wr' = [wr EXCEPT ![p] = NoWr]
        BY <3>3 DEF WrTruthWrite
      <4>4. wr'[p].pc \in {"off", "mark"} BY <1>b, <4>1, <4>3 DEF NoWr
      <4> QED BY <3>1, <4>1, <4>2, <4>4
    <3> QED BY <1>4, <3>2, <3>3
  <2>2. archived BY <1>d, <2>1 DEF WriterOk
  <2> QED BY <1>d, <1>f, <2>1, <2>2 DEF WriterOk
<1>5. CASE WrMark(p)
  <2>1. archive' = archive /\ wr[p].pc = "mark" /\ wr'[p].pc \in {"off", "truthLock"}
    BY <1>b, <1>5 DEF WrMark, WrRepair, WrState, NoWr
  <2> QED BY <1>d, <1>f, <2>1 DEF WriterOk
<1> QED BY <1>1, <1>2, <1>3, <1>4, <1>5 DEF WrStep

LEMMA WrStepInv ==
  ASSUME TypeOK, IInv, NEW p \in Writers, WrStep(p)
  PROVE  IInv'
<1>1. UNCHANGED <<transcripts, ended, archived, mut, fz, job, audit, closer, retry>>
  BY DEF WrStep, WrFrame, memVars, endVars, jobVars, recVars, WrRead, WrSnap, WrLock, WrWrite, WrMark,
         WrTruthLock, WrTruthWrite
<1>2. receipt' = receipt \/ receipt' = Synced(receipt)
  BY DEF WrStep, recVars, Stamp, WrRead, WrSnap, WrLock, WrWrite, WrMark, WrTruthLock, WrTruthWrite
<1>3. ReceiptInv' /\ receipt'.obs = receipt.obs
  <2>1. /\ Synced(receipt) \in Receipt /\ SameSource(receipt, Synced(receipt))
        /\ Synced(receipt).state = receipt.state
    BY MarkFacts DEF TypeOK, StageName
  <2>2. CASE receipt' = receipt BY <1>1, <2>2 DEF IInv, ReceiptInv, Fenced
  <2>3. CASE receipt' = Synced(receipt) BY <1>1, <2>1, <2>3, SameSourceKeeps DEF IInv
  <2> QED BY <1>2, <2>2, <2>3
<1>4. FzInv' /\ AuditInv' BY <1>1, <1>3 DEF IInv, FzInv, AuditInv, FzHolds, AuditHolds, Fenced
<1>5. LifecycleInv' BY <1>1 DEF IInv, LifecycleInv, LifecycleFree
<1>6. OpenInv' BY <1>1 DEF IInv, OpenInv
<1>7. ArchiveInv' BY WrArchive
<1> QED BY <1>3, <1>4, <1>5, <1>6, <1>7 DEF IInv

LEMMA AuditStepInv ==
  ASSUME TypeOK, IInv, AuditStep
  PROVE  IInv'
<1>a. audit \in AuditState /\ receipt.obs \in Nat BY DEF TypeOK, Receipt
<1>1. UNCHANGED <<transcripts, ended, archived, archive, mut, fz, closer>>
  BY DEF AuditStep, AuditFrame, memVars, endVars, AuditObserve, AuditSnapshot, AuditCheck,
         AuditRefreshed, AuditBegin, AuditSchedule
<1>2. ended
  <2>1. audit.pc # "off"
    BY DEF AuditStep, AuditObserve, AuditSnapshot, AuditCheck, AuditRefreshed, AuditBegin, AuditSchedule
  <2> QED BY <2>1 DEF IInv, OpenInv, NoAudit
<1>3. ReceiptInv' /\ receipt'.obs = receipt.obs
  <2>1. \/ receipt' = receipt
        \/ /\ audit.pc = "begin" /\ receipt.obs = audit.rev
           /\ receipt' = Begun(receipt, audit.src, audit.rev, TRUE)
    BY DEF AuditStep, recVars, Persist, PersistFails, Stamp, AuditObserve, AuditSnapshot, AuditCheck,
           AuditRefreshed, AuditBegin, AuditSchedule
  <2>2. CASE receipt' = receipt BY <1>1, <2>2 DEF IInv, ReceiptInv, Fenced
  <2>3. CASE /\ audit.pc = "begin" /\ receipt.obs = audit.rev
             /\ receipt' = Begun(receipt, audit.src, audit.rev, TRUE)
    <3>1. audit.src = transcripts /\ ~Fenced BY <2>3 DEF IInv, AuditInv, AuditHolds
    <3>2. receipt' = Begun(receipt, transcripts, receipt.obs, TRUE) BY <2>3, <3>1, Zenon
    <3>3. ReceiptInv /\ TRUE \in BOOLEAN BY DEF IInv
    <3> QED BY <1>1, <3>1, <3>2, <3>3, BeginKeeps, Zenon
  <2> QED BY <2>1, <2>2, <2>3
<1>4. AuditInv'
  <2>1. CASE AuditObserve
    <3>1. audit'.rev = receipt.obs /\ audit'.pc = "snapshot"
      BY <1>a, <2>1 DEF AuditObserve, AuditState
    <3> QED BY <1>a, <1>3, <3>1 DEF AuditInv, AuditHolds
  <2>2. CASE AuditSnapshot
    <3>1. mut.pc = "off" /\ audit'.rev = audit.rev /\ audit'.src = transcripts
      BY <1>a, <2>2 DEF AuditSnapshot, MemFree, AuditState
    <3> QED BY <1>1, <1>3, <3>1 DEF IInv, AuditInv, Fenced
  <2>3. CASE AuditCheck \/ AuditRefreshed \/ AuditBegin \/ AuditSchedule
    <3>1. \/ audit' = NoAudit
          \/ \E pc \in {"begin", "refresh", "schedule"} :
               audit' = [audit EXCEPT !.pc = pc] /\ (pc = "begin" => AuditHolds)
      BY <2>3 DEF AuditCheck, AuditRefreshed, AuditBegin, AuditSchedule, AuditTo, AuditHolds
    <3>2. CASE audit' = NoAudit
      BY <1>a, <1>3, <3>2 DEF NoAudit, AuditInv, AuditHolds
    <3>3. ASSUME NEW pc \in {"begin", "refresh", "schedule"}, pc = "begin" => AuditHolds,
                 audit' = [audit EXCEPT !.pc = pc]
          PROVE  AuditInv'
      <4>1. audit'.rev = audit.rev /\ audit'.src = audit.src /\ audit'.pc = pc
        BY <1>a, <3>3 DEF AuditState
      <4>2. AuditHolds' => AuditHolds BY <3>3, <4>1 DEF AuditHolds
      <4> QED BY <1>1, <1>3, <4>1, <4>2 DEF IInv, AuditInv, Fenced
    <3> QED BY <3>1, <3>2, <3>3
  <2> QED BY <2>1, <2>2, <2>3 DEF AuditStep
<1>5. LifecycleInv' BY <1>1 DEF IInv, LifecycleInv, LifecycleFree
<1>6. OpenInv' BY <1>1, <1>2 DEF OpenInv
<1>7. FzInv' BY <1>1, <1>3 DEF IInv, FzInv, FzHolds, Fenced
<1>8. ArchiveInv'
  <2>1. WrStarts
    BY DEF AuditStep, AuditObserve, AuditSnapshot, AuditCheck, AuditRefreshed, AuditBegin,
           AuditSchedule, WrStarts, Writers
  <2> QED BY <1>1, <2>1, WrStartsKeeps DEF IInv
<1> QED BY <1>3, <1>4, <1>5, <1>6, <1>7, <1>8 DEF IInv

-----------------------------------------------------------------------------
(* Mutations.                                                               *)

\* The write-ahead half moves the revision past everything read so far.
LEMMA MutFenceInv ==
  ASSUME TypeOK, IInv, MutFence
  PROVE  IInv'
<1>a. /\ receipt.obs \in Nat /\ receipt.srcObs \in Nat /\ fz.rev \in Nat /\ audit.rev \in Nat
      /\ receipt \in Receipt /\ mut \in MutState
  BY DEF TypeOK, Receipt, FzState, AuditState
<1>b. UNCHANGED <<transcripts, ended, archived, archive, fz, job, wr, audit, closer>>
  BY DEF MutFence, memVars, endVars, jobVars
<1>c. LifecycleFree BY DEF MutFence, IInv, LifecycleInv
<1>1. mut.pc = "fence" /\ mut'.pc # "write"
  BY <1>a DEF MutFence, FenceRefused, MutState, NoMut
<1>2. LifecycleInv' BY <1>b, <1>c DEF IInv, LifecycleInv, LifecycleFree
<1>3. OpenInv' BY <1>b DEF IInv, OpenInv, MutFence, recVars
<1>4. \/ ~ended /\ receipt' = receipt /\ mut'.pc = "commit"
      \/ ended /\ receipt' = Observed(receipt) /\ mut'.pc = (IF archived THEN "lock" ELSE "commit")
      \/ ended /\ receipt' \in {receipt, Observed(receipt)} /\ mut'.pc \in {"hook", "off"}
  BY <1>a DEF MutFence, Persist, PersistFails, Stamp, recVars, FenceRefused, MutState, NoMut
<1>5. /\ Observed(receipt).state = "closing" /\ Observed(receipt).src = receipt.src
      /\ Observed(receipt).obs = receipt.obs + 1 /\ Observed(receipt).srcObs = receipt.srcObs
  BY <1>a, ObservedFacts
<1>7. ReceiptInv' /\ FzInv' /\ AuditInv'
  <2>1. CASE receipt' = Observed(receipt)
    <3>1. ReceiptInv' BY <1>a, <1>b, <1>5, <2>1 DEF IInv, ReceiptInv
    <3>2. FzInv' /\ AuditInv' BY <1>a, <1>b, <1>5, <2>1 DEF IInv, FzInv, AuditInv
    <3> QED BY <3>1, <3>2
  <2>2. CASE receipt' = receipt /\ ended /\ mut'.pc \in {"hook", "off"}
    BY <1>b, <1>1, <2>2 DEF IInv, ReceiptInv, FzInv, AuditInv, FzHolds, AuditHolds, Fenced
  <2>3. CASE receipt' = receipt /\ ~ended
    <3>1. ~FzHolds /\ ~AuditHolds BY <2>3 DEF IInv, OpenInv, NoFz, NoAudit, FzHolds, AuditHolds
    <3> QED BY <1>b, <2>3, <3>1 DEF IInv, ReceiptInv, FzInv, AuditInv, FzHolds, AuditHolds
  <2> QED BY <1>4, <2>1, <2>2, <2>3
<1>8. ArchiveInv'
  <2>1. mut'.pc = "lock" => archived BY <1>4
  <2>2. mut'.pc = "commit" => ~archived BY <1>4 DEF IInv, OpenInv
  <2> QED BY <1>b, <1>1, <2>1, <2>2 DEF IInv, ArchiveInv
<1> QED BY <1>2, <1>3, <1>7, <1>8 DEF IInv
\* The archive downgrade embeds a receipt that claims nothing, and a commit
\* finds no claim: that is what the write-ahead half is for.
LEMMA MutRestInv ==
  ASSUME TypeOK, IInv, MutLock \/ MutWrite \/ MutCommit \/ MutHook
  PROVE  IInv'
<1>a. mut \in MutState /\ wr \in [Writers -> WrState] BY DEF TypeOK
<1>b. UNCHANGED <<ended, archived, receipt, fz, wr, audit, closer>>
  BY DEF MutLock, MutWrite, MutCommit, MutHook, memVars, recVars, endVars, jobVars
<1>c. LifecycleFree BY DEF MutLock, MutWrite, MutCommit, MutHook, IInv, LifecycleInv
<1>d. ended /\ Fenced => receipt.srcObs # receipt.obs /\ receipt.state # "finalized"
  BY DEF IInv, ReceiptInv
<1>1. CASE MutLock
  <2>1. /\ mut.pc = "lock" /\ mut'.pc = "write" /\ mut'.emb.state = receipt.state
        /\ UNCHANGED <<transcripts, archive, job, retry>>
        /\ \A p \in Writers : wr[p].pc \notin {"write", "truthWrite"}
    BY <1>a, <1>1 DEF MutLock, MutState, EmbedNow, ArchiveFree, memVars, recVars, jobVars
  <2>2. Fenced /\ Fenced' BY <2>1 DEF Fenced
  <2>3. archived /\ ended BY <2>1 DEF IInv, ArchiveInv, OpenInv
  <2>4. LifecycleInv' BY <1>b, <1>c, <2>1 DEF IInv, LifecycleInv, LifecycleFree
  <2>5. OpenInv' BY <1>b, <2>1 DEF IInv, OpenInv
  <2>6. ReceiptInv' /\ FzInv' /\ AuditInv'
    BY <1>b, <2>1, <2>2 DEF IInv, ReceiptInv, FzInv, AuditInv, FzHolds, AuditHolds
  <2>7. ArchiveInv' BY <1>b, <1>d, <2>1, <2>2, <2>3 DEF IInv, ArchiveInv
  <2> QED BY <2>4, <2>5, <2>6, <2>7 DEF IInv
<1>2. CASE MutWrite
  <2>1. /\ mut.pc = "write" /\ mut'.pc \in {"commit", "hook", "off"}
        /\ UNCHANGED <<transcripts, job, retry>>
        /\ archive'.state = mut.emb.state \/ (archive' = archive /\ mut'.pc # "commit")
    BY <1>a, <1>2 DEF MutWrite, ArchiveFails, FenceRefused, MutState, NoMut, memVars, recVars, jobVars
  <2>2. Fenced BY <2>1 DEF Fenced
  <2>3. /\ archived /\ mut.emb.state # "finalized"
        /\ \A p \in Writers : wr[p].pc \notin {"write", "truthWrite"}
    BY <2>1 DEF IInv, ArchiveInv
  <2>4. LifecycleInv' BY <1>b, <1>c, <2>1 DEF IInv, LifecycleInv, LifecycleFree
  <2>5. OpenInv' BY <1>b, <2>1 DEF IInv, OpenInv
  <2>6. ReceiptInv' /\ FzInv' /\ AuditInv'
    BY <1>b, <2>1, <2>2 DEF IInv, ReceiptInv, FzInv, AuditInv, FzHolds, AuditHolds
  <2>7. ArchiveInv' BY <1>b, <2>1, <2>3 DEF IInv, ArchiveInv
  <2> QED BY <2>4, <2>5, <2>6, <2>7 DEF IInv
<1>3. CASE MutCommit
  <2>1. mut.pc = "commit" /\ mut'.pc = "hook" /\ UNCHANGED <<archive, job, retry>>
    BY <1>a, <1>3 DEF MutCommit, MutState, recVars, jobVars
  <2>2. Fenced BY <2>1 DEF Fenced
  <2>3. closer.pc \notin {"prewrite", "end"} BY <1>c DEF LifecycleFree
  <2>4. LifecycleInv' BY <1>b, <1>c, <2>3 DEF IInv, LifecycleInv, LifecycleFree
  <2>5. OpenInv' BY <1>b, <2>1 DEF IInv, OpenInv
  <2>6. ReceiptInv' /\ FzInv' /\ AuditInv'
    BY <1>b, <1>d, <2>2 DEF IInv, ReceiptInv, FzInv, AuditInv, FzHolds, AuditHolds
  <2>7. ArchiveInv' BY <1>b, <2>1 DEF IInv, ArchiveInv
  <2> QED BY <2>4, <2>5, <2>6, <2>7 DEF IInv
<1>4. CASE MutHook
  <2>1. mut'.pc = "off" /\ UNCHANGED <<transcripts, archive>>
    BY <1>4 DEF MutHook, NoMut, memVars
  <2>4. LifecycleInv' BY <1>b, <1>c, <2>1 DEF IInv, LifecycleInv, LifecycleFree
  <2>5. OpenInv' BY <1>b, <1>4 DEF IInv, OpenInv, MutHook, jobVars
  <2>6. ReceiptInv' /\ FzInv' /\ AuditInv'
    BY <1>b, <2>1 DEF IInv, ReceiptInv, FzInv, AuditInv, FzHolds, AuditHolds, Fenced
  <2>7. ArchiveInv' BY <1>b, <2>1 DEF IInv, ArchiveInv
  <2> QED BY <2>4, <2>5, <2>6, <2>7 DEF IInv
<1> QED BY <1>1, <1>2, <1>3, <1>4

\* A mutation begins, or an output row is damaged: no source has changed yet.
LEMMA MutStartInv ==
  ASSUME TypeOK, IInv, MutStart \/ Tamper
  PROVE  IInv'
<1>1. /\ UNCHANGED <<transcripts, ended, archived, receipt, archive, fz, wr, audit, closer>>
      /\ ~ended => UNCHANGED <<job, retry>>
      /\ \/ mut' = mut
         \/ mut.pc = "off" /\ mut'.pc = "fence" /\ LifecycleFree
  BY DEF MutStart, MutBegin, Tamper, TamperBrain, TamperDigest, MemFree, NoMut, memVars, recVars,
         endVars, jobVars
<1>2. LifecycleInv' BY <1>1 DEF IInv, LifecycleInv, LifecycleFree
<1>3. OpenInv' BY <1>1 DEF IInv, OpenInv
<1>4. ReceiptInv' /\ FzInv' /\ AuditInv'
  BY <1>1 DEF IInv, ReceiptInv, FzInv, AuditInv, FzHolds, AuditHolds, Fenced
<1>5. ArchiveInv' BY <1>1 DEF IInv, ArchiveInv
<1> QED BY <1>2, <1>3, <1>4, <1>5 DEF IInv
-----------------------------------------------------------------------------
(* The close paths and the restart.                                         *)

\* A close snapshots memory while nothing can change it, so the receipt it
\* creates is bound to the source that is there.
LEMMA CloseInv ==
  ASSUME TypeOK, IInv, CloseStart \/ CloseStep
  PROVE  IInv'
<1>a. /\ closer \in CloserState /\ wr \in [Writers -> WrState] /\ transcripts \in Source
      /\ archive \in [state : {"closing", "finalized", "degraded"}, src : Source, mem : Source]
  BY DEF TypeOK
<1>b. UNCHANGED <<transcripts, mut, fz, audit>>
  BY DEF CloseStart, CloseBegin, CloseStep, CloseFrame, CloseSnap, ClosePrewrite, CloseEnd, CloseArchive,
         CloseStamp, CloseTruth, CloseMarked, ClosePublish, CloseClear, memVars
<1>1. CASE CloseEnd
  <2>1. CASE UNCHANGED <<receipt, ended, archived, retry, wr, archive, job>> /\ closer' = NoCloser
    <3>1. LifecycleInv' BY <1>b, <2>1 DEF IInv, LifecycleInv, LifecycleFree, NoCloser
    <3>2. OpenInv' BY <1>b, <2>1 DEF IInv, OpenInv
    <3>3. ReceiptInv' /\ FzInv' /\ AuditInv'
      BY <1>b, <2>1 DEF IInv, ReceiptInv, FzInv, AuditInv, FzHolds, AuditHolds, Fenced
    <3>4. ArchiveInv' BY <1>b, <2>1 DEF IInv, ArchiveInv
    <3> QED BY <3>1, <3>2, <3>3, <3>4 DEF IInv
  <2>2. CASE ~(UNCHANGED <<receipt, ended, archived, retry, wr, archive, job>> /\ closer' = NoCloser)
    <3>1. /\ closer.pc = "end" /\ receipt' = NewReceipt(closer.src, 0) /\ ended' = TRUE
          /\ archived' = (closer.mode = "manual")
          /\ closer' = [closer EXCEPT !.pc = IF closer.mode = "idle" THEN "archive" ELSE "truth"]
          /\ UNCHANGED <<archive, job, wr>>
      BY <1>1, <2>2 DEF CloseEnd, Persist, Stamp, CloserTo, recVars, endVars, jobVars
    <3>2. /\ ~ended /\ closer.src = transcripts /\ mut.pc = "off"
          /\ fz = NoFz /\ audit = NoAudit /\ ~archived
      BY <3>1 DEF IInv, LifecycleInv, LifecycleFree, OpenInv
    <3>3. /\ receipt'.state = "closing" /\ receipt'.src = transcripts
          /\ receipt'.obs = 0 /\ receipt'.srcObs = 0
      BY <1>a, <3>1, <3>2, NewReceiptFacts
    <3>4. /\ closer'.mode = closer.mode
          /\ closer'.pc = IF closer.mode = "idle" THEN "archive" ELSE "truth"
          /\ closer.mode \in {"idle", "manual"}
      BY <1>a, <3>1 DEF CloserState
    <3>5. LifecycleInv'
      <4>1. ended' /\ mut'.pc = "off" BY <1>b, <3>1, <3>2
      <4>2. CASE closer.mode = "idle"
        <5>1. ~archived' /\ closer'.pc = "archive" /\ closer'.mode = "idle" BY <3>1, <3>4, <4>2
        <5> QED BY <4>1, <5>1 DEF LifecycleInv, LifecycleFree
      <4>3. CASE closer.mode = "manual"
        <5>1. archived' /\ closer'.pc = "truth" /\ closer'.mode = "manual" BY <3>1, <3>4, <4>3
        <5> QED BY <4>1, <5>1 DEF LifecycleInv, LifecycleFree
      <4> QED BY <3>4, <4>2, <4>3
    <3>6. OpenInv' BY <3>1 DEF OpenInv
    <3>7. ReceiptInv' /\ FzInv' /\ AuditInv'
      BY <1>b, <3>2, <3>3 DEF ReceiptInv, FzInv, AuditInv, FzHolds, AuditHolds, Fenced, NoFz, NoAudit
    <3>8. ArchiveInv' BY <1>b, <3>1, <3>2 DEF IInv, ArchiveInv
    <3> QED BY <3>5, <3>6, <3>7, <3>8 DEF IInv
  <2> QED BY <2>1, <2>2
<1>2. CASE ~CloseEnd
  <2>1. /\ UNCHANGED <<receipt, ended>>
        /\ archived => archived'
        /\ archived' # archived => closer.pc = "stamp"
    <3>1. CASE CloseStamp
      <4>1. closer.pc = "stamp" /\ ~archived /\ UNCHANGED <<receipt, ended>>
        BY <3>1 DEF CloseStamp, IInv, LifecycleInv, recVars
      <4> QED BY <4>1
    <3>2. CASE ~CloseStamp
      <4>1. UNCHANGED <<receipt, ended, archived>>
        BY <1>2, <3>2 DEF CloseStart, CloseBegin, CloseStep, CloseSnap, ClosePrewrite, CloseArchive,
               CloseTruth, CloseMarked, ClosePublish, CloseClear, recVars, endVars
      <4> QED BY <4>1
    <3> QED BY <3>1, <3>2
  <2>2. ReceiptInv' /\ FzInv' /\ AuditInv'
    BY <1>b, <2>1 DEF IInv, ReceiptInv, FzInv, AuditInv, FzHolds, AuditHolds, Fenced
  <2>3. OpenInv'
    <3>1. CASE ClosePublish \/ CloseStamp
      <4>1. ended BY <3>1 DEF ClosePublish, CloseStamp, IInv, LifecycleInv
      <4> QED BY <2>1, <4>1 DEF OpenInv
    <3>2. CASE ~(ClosePublish \/ CloseStamp)
      <4>1. UNCHANGED <<job, retry, ended, archived>>
        BY <1>2, <3>2 DEF CloseStart, CloseBegin, CloseStep, CloseSnap, ClosePrewrite, CloseArchive,
               CloseTruth, CloseMarked, CloseClear, recVars, endVars, jobVars
      <4> QED BY <1>b, <4>1 DEF IInv, OpenInv
    <3> QED BY <3>1, <3>2
  <2>4. LifecycleInv'
    <3>1. CASE CloseStart
      <4>1. PICK mode \in CloseModes : CloseBegin(mode) BY <3>1 DEF CloseStart
      <4>2. ~ended /\ mut.pc = "off" /\ closer'.pc = "snap" /\ ended' = ended
        BY <4>1 DEF CloseBegin, MemFree, NoCloser, endVars
      <4> QED BY <1>b, <4>2 DEF LifecycleInv
    <3>2. CASE CloseSnap
      <4>1. /\ closer.pc = "snap" /\ ended' = ended
            /\ closer'.src = transcripts /\ closer'.pc \in {"end", "prewrite"}
        BY <1>a, <3>2 DEF CloseSnap, CloserState, endVars
      <4>2. ~ended /\ mut.pc = "off" BY <4>1 DEF IInv, LifecycleInv, LifecycleFree
      <4> QED BY <1>b, <4>1, <4>2 DEF LifecycleInv
    <3>3. CASE ClosePrewrite
      <4>1. /\ closer.pc = "prewrite" /\ ended' = ended
            /\ \/ closer'.src = closer.src /\ closer'.pc = "end"
               \/ closer'.pc = "off"
        BY <1>a, <3>3 DEF ClosePrewrite, CloserTo, NoCloser, CloserState, endVars
      <4>2. ~ended /\ mut.pc = "off" /\ closer.src = transcripts
        BY <4>1 DEF IInv, LifecycleInv, LifecycleFree
      <4> QED BY <1>b, <4>1, <4>2 DEF LifecycleInv
    <3>4. CASE CloseArchive
      <4>1. /\ closer.pc = "archive" /\ UNCHANGED <<ended, archived>>
            /\ closer'.mode = closer.mode /\ closer'.pc \in {"stamp", "publish"}
        BY <1>a, <3>4 DEF CloseArchive, CloserTo, CloserState, endVars
      <4>2. ended /\ mut.pc = "off" /\ ~archived /\ closer.mode = "idle"
        BY <4>1 DEF IInv, LifecycleInv, LifecycleFree
      <4> QED BY <1>b, <4>1, <4>2 DEF LifecycleInv
    <3>5. CASE CloseStamp
      <4>1. closer.pc = "stamp" /\ ended' = ended /\ closer'.pc = "publish"
        BY <1>a, <3>5 DEF CloseStamp, CloserTo, CloserState
      <4>2. ended /\ mut.pc = "off" BY <4>1 DEF IInv, LifecycleInv, LifecycleFree
      <4> QED BY <1>b, <4>1, <4>2 DEF LifecycleInv
    <3>6. CASE CloseTruth
      <4>1. /\ closer.pc = "truth" /\ UNCHANGED <<ended, archived>>
            /\ closer'.mode = closer.mode /\ closer'.pc = "marked"
        BY <1>a, <3>6 DEF CloseTruth, CloserTo, CloserState, endVars
      <4> QED BY <4>1 DEF IInv, LifecycleInv, LifecycleFree
    <3>7. CASE CloseMarked \/ ClosePublish
      <4>1. /\ closer.pc \in {"marked", "publish"} /\ UNCHANGED <<ended, archived>>
            /\ closer'.mode = closer.mode /\ closer'.pc \in {"publish", "clear"}
        BY <1>a, <3>7 DEF CloseMarked, ClosePublish, CloserTo, CloserState, endVars
      <4> QED BY <1>b, <4>1 DEF IInv, LifecycleInv, LifecycleFree
    <3>8. CASE CloseClear
      <4>1. closer'.pc = "off" BY <3>8 DEF CloseClear, NoCloser
      <4> QED BY <4>1 DEF LifecycleInv, LifecycleFree
    <3> QED BY <1>2, <3>1, <3>2, <3>3, <3>4, <3>5, <3>6, <3>7, <3>8 DEF CloseStep
  <2>5. ArchiveInv'
    <3>1. CASE CloseTruth
      <4>1. /\ archived /\ UNCHANGED <<archived, archive>>
            /\ wr' = [wr EXCEPT !["manual"] = [NoWr EXCEPT !.pc = "truthLock",
                                                 !.next = IF Settled(receipt) THEN "mark" ELSE "off"]]
        BY <3>1 DEF CloseTruth, IInv, LifecycleInv, endVars
      <4>2. \A p \in Writers : wr'[p] = wr[p] \/ wr'[p].pc = "truthLock"
        BY <1>a, <4>1 DEF NoWr
      <4> QED BY <1>b, <4>1, <4>2 DEF IInv, ArchiveInv
    <3>2. CASE ClosePrewrite \/ CloseArchive
      <4>1. /\ UNCHANGED <<archived, wr>>
            /\ archive' = archive \/ archive'.state = "closing"
        BY <3>2 DEF ClosePrewrite, CloseArchive, ArchiveFails, endVars
      <4> QED BY <1>b, <4>1 DEF IInv, ArchiveInv
    <3>3. CASE ~(CloseTruth \/ ClosePrewrite \/ CloseArchive)
      <4>1. UNCHANGED <<wr, archive>>
        BY <1>2, <3>3 DEF CloseStart, CloseBegin, CloseStep, CloseSnap, CloseStamp,
               CloseMarked, ClosePublish, CloseClear
      <4> QED BY <1>b, <2>1, <4>1 DEF IInv, ArchiveInv
    <3> QED BY <3>1, <3>2, <3>3
  <2> QED BY <2>2, <2>3, <2>4, <2>5 DEF IInv
<1> QED BY <1>1, <1>2
\* A boot reads the durable state only; a closed meeting starts from the
\* transcript that is on disk.
LEMMA RestartInv ==
  ASSUME TypeOK, IInv, Restart
  PROVE  IInv'
<1>a. transcripts \in Source /\ receipt.obs \in Nat BY DEF TypeOK, Receipt
<1>1. /\ UNCHANGED <<transcripts, archive>>
      /\ mut' = NoMut /\ fz' = NoFz /\ wr' = [p \in Writers |-> NoWr] /\ closer' = NoCloser
  BY DEF Restart, memVars
<1>2. /\ mut'.pc = "off" /\ fz'.pc = "off" /\ fz'.rev = 0 /\ closer'.pc = "off"
      /\ \A p \in Writers : wr'[p].pc = "off"
  BY <1>1 DEF NoMut, NoFz, NoWr, NoCloser
<1>3. audit'.rev = 0 /\ audit'.pc \in {"off", "observe"}
  BY DEF Restart, Resume, NoAudit
<1>4. \/ UNCHANGED <<ended, archived, receipt>>
      \/ ~ended /\ ended' /\ ~archived' /\ receipt' = NewReceipt(transcripts, 0)
  BY DEF Restart, endVars
<1>5. LifecycleInv' BY <1>2 DEF LifecycleInv, LifecycleFree
<1>6. OpenInv'
  <2>1. CASE ended' BY <2>1 DEF OpenInv
  <2>2. CASE ~ended'
    <3>1. /\ audit' = NoAudit /\ retry' = NoRetry
          /\ job' = "none"
      BY <2>2 DEF Restart, Resume
    <3>2. ~archived' BY <1>4, <2>2 DEF IInv, OpenInv
    <3> QED BY <1>1, <3>1, <3>2 DEF OpenInv, NoRetry
  <2> QED BY <2>1, <2>2
<1>7. receipt'.obs \in Nat /\ ReceiptInv'
  <2>1. CASE UNCHANGED <<ended, archived, receipt>>
    BY <1>a, <1>1, <1>2, <2>1 DEF IInv, ReceiptInv, Fenced
  <2>2. CASE receipt' = NewReceipt(transcripts, 0)
    <3>1. /\ receipt'.state = "closing" /\ receipt'.src = transcripts
          /\ receipt'.obs = 0 /\ receipt'.srcObs = 0
      BY <1>a, <2>2, NewReceiptFacts
    <3> QED BY <1>1, <1>2, <3>1 DEF ReceiptInv, Fenced
  <2> QED BY <1>4, <2>1, <2>2
<1>8. FzInv' /\ AuditInv' BY <1>2, <1>3, <1>7 DEF FzInv, AuditInv, FzHolds, AuditHolds
<1>9. ArchiveInv'
  <2>1. archive.state = "finalized" => archived /\ archived'
    BY <1>4 DEF IInv, ArchiveInv, OpenInv
  <2> QED BY <1>1, <1>2, <2>1 DEF IInv, ArchiveInv
<1> QED BY <1>5, <1>6, <1>7, <1>8, <1>9 DEF IInv

-----------------------------------------------------------------------------
(* The invariant and what follows from it.                                  *)

LEMMA InvInit == Init => IInv
<1> SUFFICES ASSUME Init PROVE IInv OBVIOUS
<1>1. /\ mut.pc = "off" /\ fz.pc = "off" /\ fz.rev = 0 /\ audit.pc = "off" /\ audit.rev = 0
      /\ closer.pc = "off" /\ archive.state = "closing"
      /\ \A p \in Writers : wr[p].pc = "off"
  BY DEF Init, NoMut, NoFz, NoAudit, NoCloser, NoArchive, NoWr
<1>2. receipt.obs = 0 /\ receipt.srcObs = 0
  <2>1. receipt = NewReceipt({}, 0) BY DEF Init
  <2> QED BY <2>1 DEF NewReceipt
<1>3. ~ended BY DEF Init
<1>4. LifecycleInv BY <1>1 DEF LifecycleInv, LifecycleFree
<1>5. OpenInv BY DEF Init, OpenInv, NoRetry
<1>6. ReceiptInv /\ FzInv /\ AuditInv
  BY <1>1, <1>2, <1>3 DEF ReceiptInv, FzInv, AuditInv, FzHolds, AuditHolds
<1>7. ArchiveInv BY <1>1 DEF ArchiveInv
<1> QED BY <1>4, <1>5, <1>6, <1>7 DEF IInv

LEMMA InvStep == TypeOK /\ IInv /\ [Next]_vars => IInv'
<1> SUFFICES ASSUME TypeOK, IInv, [Next]_vars PROVE IInv' OBVIOUS
<1>1. CASE MutStart \/ Tamper BY <1>1, MutStartInv
<1>2. CASE MutStep BY <1>2, MutFenceInv, MutRestInv DEF MutStep
<1>3. CASE FzStep BY <1>3, FzStepInv
<1>4. CASE RetryStep BY <1>4, RetryStepInv
<1>5. CASE \E p \in Writers : WrStep(p) BY <1>5, WrStepInv
<1>6. CASE AuditStep BY <1>6, AuditStepInv
<1>7. CASE CloseStart \/ CloseStep BY <1>7, CloseInv
<1>8. CASE Restart BY <1>8, RestartInv
<1>9. CASE UNCHANGED vars
  <2>1. UNCHANGED <<transcripts, ended, archived, receipt, retry, archive, mut, fz, job, wr, audit, closer>>
    BY <1>9 DEF vars
  <2>2. LifecycleInv' /\ OpenInv' BY <2>1 DEF IInv, LifecycleInv, LifecycleFree, OpenInv
  <2>3. ReceiptInv' /\ FzInv' /\ AuditInv'
    BY <2>1 DEF IInv, ReceiptInv, FzInv, AuditInv, FzHolds, AuditHolds, Fenced
  <2>4. ArchiveInv' BY <2>1 DEF IInv, ArchiveInv
  <2> QED BY <2>2, <2>3, <2>4 DEF IInv
<1> QED BY <1>1, <1>2, <1>3, <1>4, <1>5, <1>6, <1>7, <1>8, <1>9 DEF Next

\* The inductive invariant holds in every reachable state.
THEOREM InvariantHolds == Spec => []IInv
<1>1. Spec => []TypeOK BY TypeCorrect
<1>2. TypeOK /\ TypeOK' /\ IInv /\ [Next]_vars => IInv' BY InvStep
<1> QED BY <1>1, <1>2, InvInit, PTL DEF Spec

\* No receipt says finalized for anything but the transcript memory holds,
\* whatever is between its fence and its commit (meeting_finalization.go:246-295).
THEOREM ReceiptCoversSource == Spec => []FinalizedCoversSource
<1>1. IInv => FinalizedCoversSource BY DEF IInv, ReceiptInv, FinalizedCoversSource
<1> QED BY <1>1, InvariantHolds, PTL

\* The owned archive file never claims finalized analysis of a source memory
\* has moved past (meeting_finalization.go:1039-1119, 1193-1213).
THEOREM ArchiveNeverStale == Spec => []ArchiveNeverOverclaims
<1>1. IInv => ArchiveNeverOverclaims BY DEF IInv, ArchiveInv, ArchiveNeverOverclaims
<1> QED BY <1>1, InvariantHolds, PTL
-----------------------------------------------------------------------------
(* The close protocol implements AnalysisReadiness.                         *)

ReceiptClaim == ClaimOf(ended, receipt.state, receipt.src)
ArchiveClaim == ClaimOf(archived, archive.state, archive.src)
ClaimAt == [w \in {"receipt", "archive"} |-> IF w = "receipt" THEN ReceiptClaim ELSE ArchiveClaim]

\* A claim is for the source that is there; a commit finds none.
LEMMA ClaimsAreCurrent ==
  ASSUME IInv
  PROVE  /\ ReceiptClaim \in {{}, {transcripts}} /\ ArchiveClaim \in {{}, {transcripts}}
         /\ mut.pc = "commit" => ReceiptClaim = {} /\ ArchiveClaim = {}
BY DEF IInv, ReceiptInv, ArchiveInv, ReceiptClaim, ArchiveClaim, ClaimOf, Fenced

\* Three locks, three stores: no step moves a receipt and the archive at once,
\* and only a commit moves the source.
LEMMA OneStore ==
  ASSUME Next
  PROVE  /\ archive' = archive \/ UNCHANGED <<ended, receipt>>
         /\ \/ transcripts' = transcripts
            \/ MutCommit /\ UNCHANGED <<ended, archived, receipt, archive>>
<1>1. CASE MutStart \/ Tamper
  BY <1>1 DEF MutStart, MutBegin, Tamper, TamperBrain, TamperDigest, memVars
<1>2. CASE MutStep
  BY <1>2 DEF MutStep, MutFence, MutLock, MutWrite, MutCommit, MutHook, memVars, recVars, endVars
<1>3. CASE FzStep BY <1>3, FzFrames
<1>4. CASE RetryStep
  BY <1>4 DEF RetryStep, RetryRead, RetryArm, RetryFire, RetryCheck, memVars
<1>5. CASE \E p \in Writers : WrStep(p)
  <2>1. PICK p \in Writers : WrStep(p) BY <1>5
  <2>2. UNCHANGED <<transcripts, ended>>
    BY <2>1 DEF WrStep, WrFrame, memVars, endVars, WrRead, WrSnap, WrLock, WrWrite, WrMark, WrTruthLock,
           WrTruthWrite
  <2>3. archive' = archive \/ receipt' = receipt
    BY <2>1 DEF WrStep, recVars, WrRead, WrSnap, WrLock, WrWrite, WrMark, WrTruthLock, WrTruthWrite
  <2> QED BY <2>2, <2>3
<1>6. CASE AuditStep
  BY <1>6 DEF AuditStep, AuditFrame, memVars, AuditObserve, AuditSnapshot, AuditCheck, AuditRefreshed,
         AuditBegin, AuditSchedule
<1>7. CASE CloseStart \/ CloseStep
  BY <1>7 DEF CloseStart, CloseBegin, CloseStep, CloseFrame, CloseSnap, ClosePrewrite, CloseEnd, CloseArchive,
         CloseStamp, CloseTruth, CloseMarked, ClosePublish, CloseClear, memVars, recVars, endVars
<1>8. CASE Restart BY <1>8 DEF Restart, memVars
<1> QED BY <1>1, <1>2, <1>3, <1>4, <1>5, <1>6, <1>7, <1>8 DEF Next

\* Withdrawing or certifying one claim is a step of AnalysisReadiness.
LEMMA OneClaimMoves ==
  ASSUME IInv', transcripts' = transcripts,
         ReceiptClaim' = ReceiptClaim \/ ArchiveClaim' = ArchiveClaim
  PROVE  \/ ClaimAt' = ClaimAt
         \/ \E w \in {"receipt", "archive"}, c \in {{}, {transcripts}} :
              ClaimAt' = [ClaimAt EXCEPT ![w] = c]
<1>1. ReceiptClaim' \in {{}, {transcripts}} /\ ArchiveClaim' \in {{}, {transcripts}}
  BY DEF IInv, ReceiptInv, ArchiveInv, ReceiptClaim, ArchiveClaim, ClaimOf
<1>2. CASE ArchiveClaim' = ArchiveClaim
  <2>1. ClaimAt' = [ClaimAt EXCEPT !["receipt"] = ReceiptClaim'] BY <1>2 DEF ClaimAt
  <2> QED BY <1>1, <2>1
<1>3. CASE ReceiptClaim' = ReceiptClaim
  <2>1. ClaimAt' = [ClaimAt EXCEPT !["archive"] = ArchiveClaim'] BY <1>3 DEF ClaimAt
  <2> QED BY <1>1, <2>1
<1> QED BY <1>2, <1>3

LEMMA ReadinessStep ==
  ASSUME TypeOK', IInv, IInv', Next
  PROVE  [Readiness!Next]_<<transcripts, ClaimAt>>
<1>1. CASE transcripts' = transcripts
  <2>1. ReceiptClaim' = ReceiptClaim \/ ArchiveClaim' = ArchiveClaim
    <3>1. CASE archive' = archive
      BY <3>1 DEF IInv, ArchiveInv, ArchiveClaim, ClaimOf
    <3>2. CASE UNCHANGED <<ended, receipt>> BY <3>2 DEF ReceiptClaim
    <3> QED BY <3>1, <3>2, OneStore
  <2>2. CASE ClaimAt' = ClaimAt BY <1>1, <2>2
  <2>3. ASSUME NEW w \in {"receipt", "archive"}, NEW c \in {{}, {transcripts}},
               ClaimAt' = [ClaimAt EXCEPT ![w] = c]
        PROVE  Readiness!Next
    BY <1>1, <2>3 DEF Readiness!Next, Readiness!Place, Readiness!Certify, Readiness!Withdraw, ClaimAt,
           ReceiptClaim, ArchiveClaim
  <2> QED BY <1>1, <2>1, <2>2, <2>3, OneClaimMoves
<1>2. CASE MutCommit /\ UNCHANGED <<ended, archived, receipt, archive>>
  <2>1. ReceiptClaim = {} /\ ArchiveClaim = {} BY <1>2, ClaimsAreCurrent DEF MutCommit
  <2>2. transcripts' \in SUBSET Row BY DEF TypeOK, Source
  <2>3. ReceiptClaim' = {} /\ ArchiveClaim' = {} BY <1>2, <2>1 DEF ReceiptClaim, ArchiveClaim
  <2> QED BY <2>1, <2>2, <2>3 DEF Readiness!Next, Readiness!Change, Readiness!Place, ReceiptClaim, ArchiveClaim
<1> QED BY <1>1, <1>2, OneStore

LEMMA ReadinessInit ==
  ASSUME Init
  PROVE  Readiness!Init
BY DEF Init, Readiness!Init, Readiness!Place, ClaimOf, NoArchive

\* Readers of the receipt and of the archive file see only what
\* AnalysisReadiness promises (memory.go:456-461, meeting_finalization.go:1189-1192).
THEOREM Refinement == Spec => ImplementsReadiness
<1>1. TypeOK' /\ IInv /\ IInv' /\ [Next]_vars => [Readiness!Next]_<<transcripts, ClaimAt>>
  <2>1. ASSUME UNCHANGED vars PROVE UNCHANGED <<transcripts, ClaimAt>>
    BY <2>1 DEF vars, ClaimAt, ReceiptClaim, ArchiveClaim
  <2> QED BY <2>1, ReadinessStep
<1>2. Init => Readiness!Init BY ReadinessInit
<1>3. [Readiness!Next]_<<transcripts, ClaimAt>> =>
        [Readiness!Next]_<<transcripts, [w \in {"receipt", "archive"} |->
                             IF w = "receipt" THEN ClaimOf(ended, receipt.state, receipt.src)
                             ELSE ClaimOf(archived, archive.state, archive.src)]>>
  BY DEF ClaimAt, ReceiptClaim, ArchiveClaim
<1> QED BY <1>1, <1>2, <1>3, TypeCorrect, InvariantHolds, PTL DEF Spec, ImplementsReadiness, Readiness!Spec

\* A claim stays on the source that is there, whatever the places do.
LEMMA ClaimsStep ==
  ASSUME ReceiptClaim \subseteq {transcripts}, ArchiveClaim \subseteq {transcripts},
         [Readiness!Next]_<<transcripts, ClaimAt>>
  PROVE  ReceiptClaim' \subseteq {transcripts'} /\ ArchiveClaim' \subseteq {transcripts'}
<1>a. /\ ClaimAt["receipt"] = ReceiptClaim /\ ClaimAt["archive"] = ArchiveClaim
      /\ ClaimAt'["receipt"] = ReceiptClaim' /\ ClaimAt'["archive"] = ArchiveClaim'
  BY DEF ClaimAt
<1>b. DOMAIN ClaimAt = {"receipt", "archive"} BY DEF ClaimAt
<1>1. CASE UNCHANGED <<transcripts, ClaimAt>> BY <1>a, <1>1
<1>2. CASE Readiness!Change
  <2>1. ReceiptClaim = {} /\ ArchiveClaim = {} /\ ClaimAt' = ClaimAt
    BY <1>2, <1>a DEF Readiness!Change, Readiness!Place, ClaimAt, ReceiptClaim, ArchiveClaim
  <2> QED BY <1>a, <2>1
<1>3. ASSUME NEW w \in {"receipt", "archive"}, Readiness!Certify(w) \/ Readiness!Withdraw(w)
      PROVE  ReceiptClaim' \subseteq {transcripts'} /\ ArchiveClaim' \subseteq {transcripts'}
  <2>1. /\ transcripts' = transcripts
        /\ \/ ClaimAt' = [ClaimAt EXCEPT ![w] = {transcripts}]
           \/ ClaimAt' = [ClaimAt EXCEPT ![w] = {}]
    BY <1>3 DEF Readiness!Certify, Readiness!Withdraw, ClaimAt, ReceiptClaim, ArchiveClaim
  <2> QED BY <1>a, <1>b, <2>1
<1> QED BY <1>1, <1>2, <1>3 DEF Readiness!Next, Readiness!Place

\* Whatever implements the promise claims finished analysis of the present source
\* only, in the receipt and in the archive.
THEOREM PromiseCoversSource ==
  ImplementsReadiness => [](FinalizedCoversSource /\ ArchiveNeverOverclaims)
<1> DEFINE Sound == ReceiptClaim \subseteq {transcripts} /\ ArchiveClaim \subseteq {transcripts}
<1>1. Readiness!Init => Sound
  BY DEF Readiness!Init, Readiness!Place, ReceiptClaim, ArchiveClaim
<1>2. [Readiness!Next]_<<transcripts, [w \in {"receipt", "archive"} |->
                             IF w = "receipt" THEN ClaimOf(ended, receipt.state, receipt.src)
                             ELSE ClaimOf(archived, archive.state, archive.src)]>>
        => [Readiness!Next]_<<transcripts, ClaimAt>>
  BY DEF ClaimAt, ReceiptClaim, ArchiveClaim
<1>3. Sound /\ [Readiness!Next]_<<transcripts, ClaimAt>> => Sound' BY ClaimsStep
<1>4. Sound => FinalizedCoversSource /\ ArchiveNeverOverclaims
  BY DEF ReceiptClaim, ArchiveClaim, ClaimOf, FinalizedCoversSource, ArchiveNeverOverclaims
<1> HIDE DEF Sound
<1> QED BY <1>1, <1>2, <1>3, <1>4, PTL DEF ImplementsReadiness, Readiness!Spec

-----------------------------------------------------------------------------
(* The meeting uses the queue as MeetingJob offers it.                      *)

\* The finalizer runs on behalf of an active job.
JobHeld == fz.pc # "off" => job = "active"

LEMMA JobHeldStep ==
  ASSUME TypeOK, JobHeld, [Next]_vars
  PROVE  JobHeld'
<1>0. ScheduleFresh \/ ScheduleBacklog => (job = "active" => job' = "active")
  BY DEF ScheduleFresh, ScheduleBacklog
<1>1. CASE MutStart \/ MutStep \/ Tamper
  <2>1. fz' = fz /\ (ScheduleFresh \/ job' = job)
    BY <1>1 DEF MutStart, MutBegin, MutStep, MutFence, MutLock, MutWrite, MutCommit, MutHook, Tamper,
           TamperBrain, TamperDigest, jobVars
  <2> QED BY <1>0, <2>1 DEF JobHeld
<1>2. CASE FzStep
  <2>1. CASE FzStart BY <2>1 DEF FzStart, JobHeld
  <2>2. CASE FzFinish BY <2>2 DEF FzFinish, JobHeld, NoFz
  <2>3. CASE ~FzStart /\ ~FzFinish
    <3>1. fz.pc # "off"
      BY <1>2, <2>3 DEF FzStep, FzObserve, FzSnapshot, FzBegin, FzVerify, FzForce, FzBrain,
             FzCallBrain, FzMarkBrain, FzDigest, FzCallDigest, FzMarkDigest, FzMarkActions,
             FzResnapshot, FzRebegin, FzComplete, FzExhausted, FzCancel
    <3>2. job' = job
      BY <1>2, <2>3 DEF FzStep, FzObserve, FzSnapshot, FzBegin, FzVerify, FzForce, FzBrain,
             FzCallBrain, FzMarkBrain, FzDigest, FzCallDigest, FzMarkDigest, FzMarkActions,
             FzResnapshot, FzRebegin, FzComplete, FzExhausted, FzCancel, FzFrame, jobVars
    <3> QED BY <3>1, <3>2 DEF JobHeld
  <2> QED BY <2>1, <2>2, <2>3
<1>3. CASE RetryStep \/ (\E p \in Writers : WrStep(p)) \/ AuditStep \/ CloseStart \/ CloseStep
  <2>1. CASE RetryStep
    <3>1. fz' = fz /\ (ScheduleBacklog \/ job' = job)
      BY <2>1 DEF RetryStep, RetryRead, RetryArm, RetryFire, RetryCheck, jobVars
    <3> QED BY <1>0, <3>1 DEF JobHeld
  <2>2. ASSUME NEW p \in Writers, WrStep(p) PROVE JobHeld'
    <3>1. fz' = fz /\ job' = job
      BY <2>2 DEF WrStep, WrFrame, WrRead, WrSnap, WrLock, WrWrite, WrMark, WrTruthLock,
             WrTruthWrite, jobVars
    <3> QED BY <3>1 DEF JobHeld
  <2>3. CASE AuditStep
    <3>1. fz' = fz /\ (ScheduleBacklog \/ job' = job)
      BY <2>3 DEF AuditStep, AuditFrame, AuditObserve, AuditSnapshot, AuditCheck, AuditRefreshed,
             AuditBegin, AuditSchedule, jobVars
    <3> QED BY <1>0, <3>1 DEF JobHeld
  <2>4. CASE CloseStart \/ CloseStep
    <3>1. fz' = fz /\ (ScheduleFresh \/ job' = job)
      BY <2>4 DEF CloseStart, CloseBegin, CloseStep, CloseFrame, CloseSnap, ClosePrewrite, CloseEnd,
             CloseArchive, CloseStamp, CloseTruth, CloseMarked, ClosePublish, CloseClear, jobVars
    <3> QED BY <1>0, <3>1 DEF JobHeld
  <2> QED BY <1>3, <2>1, <2>2, <2>3, <2>4
<1>4. CASE Restart BY <1>4 DEF Restart, JobHeld, NoFz
<1>5. CASE UNCHANGED vars BY <1>5 DEF vars, JobHeld
<1> QED BY <1>1, <1>2, <1>3, <1>4, <1>5 DEF Next

\* Nobody is answered and the job stays where it is.
LEMMA QueueAsk ==
  ASSUME UNCHANGED jobVars, closer.pc = "publish" => closer'.pc = "publish",
         (mut.pc = "hook" /\ ended /\ ~publishing) => (mut'.pc = "hook" /\ ended' /\ ~publishing')
  PROVE  Queue!Next
<1>1. Asked \subseteq Asked' /\ Asked' \subseteq {"close", "late"} BY DEF Asked
<1>2. UNCHANGED <<job, again>> BY DEF jobVars
<1> QED BY <1>1, <1>2 DEF Queue!Next, Queue!Ask

\* A fresh signal answers one asker, or nobody when it repairs an output.
LEMMA QueueFresh ==
  ASSUME ScheduleFresh, NEW a \in {"close", "late"}, Asked' = Asked \ {a}
  PROVE  Queue!Next
<1>1. job' = IF job = "active" THEN "active" ELSE "fresh" BY DEF ScheduleFresh
<1>2. again' = (again \/ job = "active") BY DEF ScheduleFresh
<1> QED BY <1>1, <1>2 DEF Queue!Next, Queue!FreshSignal

LEMMA QueueBacklog ==
  ASSUME ScheduleBacklog, Asked' = Asked
  PROVE  Queue!Next
<1>1. again' = again BY DEF ScheduleBacklog
<1>2. CASE job = "none"
  <2>1. job' = "backlog" BY <1>2 DEF ScheduleBacklog
  <2> QED BY <1>1, <1>2, <2>1 DEF Queue!Next, Queue!BacklogSignal
<1>3. CASE job # "none"
  <2>1. job' = job BY <1>3 DEF ScheduleBacklog
  <2>2. Asked' \subseteq {"close", "late"} BY DEF Asked
  <2> QED BY <1>1, <2>1, <2>2 DEF Queue!Next, Queue!Ask
<1> QED BY <1>2, <1>3

LEMMA QueueStep ==
  ASSUME TypeOK, IInv, JobHeld, Next
  PROVE  Queue!Next
<1>0. UNCHANGED <<closer, mut, ended, publishing>> => Asked' = Asked BY DEF Asked
<1>1. CASE MutStart \/ MutStep
  <2>1. CASE MutHook /\ ended /\ ~publishing
    <3>1. /\ ScheduleFresh /\ mut'.pc = "off"
          /\ UNCHANGED <<closer, ended, publishing>>
      BY <2>1 DEF MutHook, NoMut, endVars
    <3>2. Asked' = Asked \ {"late"} BY <3>1 DEF Asked
    <3> QED BY <3>1, <3>2, QueueFresh
  <2>2. CASE ~(MutHook /\ ended /\ ~publishing)
    <3>1. UNCHANGED <<closer, ended, publishing>> /\ UNCHANGED jobVars
      BY <1>1, <2>2 DEF MutStart, MutBegin, MutStep, MutFence, MutLock, MutWrite, MutCommit, MutHook,
             endVars, jobVars
    <3>2. mut.pc = "hook" => ~ended \/ publishing
      BY <1>1, <2>2 DEF MutStart, MutBegin, MutStep, MutFence, MutLock, MutWrite, MutCommit, MutHook,
             MemFree
    <3> QED BY <3>1, <3>2, QueueAsk
  <2> QED BY <2>1, <2>2
<1>2. CASE Tamper
  <2>1. /\ mut.pc = "off" /\ UNCHANGED <<closer, mut, ended, publishing>>
        /\ ScheduleFresh \/ UNCHANGED jobVars
    BY <1>2 DEF Tamper, TamperBrain, TamperDigest, MemFree, endVars
  <2>2. CASE ScheduleFresh
    <3>1. Asked' = Asked \ {"late"} BY <2>1 DEF Asked
    <3> QED BY <2>2, <3>1, QueueFresh
  <2>3. CASE UNCHANGED jobVars BY <2>1, <2>3, QueueAsk
  <2> QED BY <2>1, <2>2, <2>3
<1>3. CASE FzStep
  <2>0. UNCHANGED <<closer, mut, ended, publishing>>
    BY <1>3
       DEF FzStep, FzStart, FzFinish, FzObserve, FzSnapshot, FzBegin, FzVerify, FzForce, FzBrain,
           FzCallBrain, FzMarkBrain, FzDigest, FzCallDigest, FzMarkDigest, FzMarkActions,
           FzResnapshot, FzRebegin, FzComplete, FzExhausted, FzCancel, FzFrame, endVars
  <2>1. CASE FzStart
    <3>1. job \in {"fresh", "backlog"} /\ job' = "active" /\ again' = again
      BY <2>1 DEF FzStart
    <3> QED BY <1>0, <2>0, <3>1 DEF Queue!Next, Queue!Start
  <2>2. CASE FzFinish
    <3>1. /\ job = "active"
          /\ job' = IF again THEN "fresh" ELSE "none"
          /\ again' = FALSE
      BY <2>2 DEF FzFinish, JobHeld
    <3> QED BY <1>0, <2>0, <3>1 DEF Queue!Next, Queue!Finish
  <2>3. CASE ~FzStart /\ ~FzFinish
    <3>1. UNCHANGED jobVars
      BY <1>3, <2>3 DEF FzStep, FzObserve, FzSnapshot, FzBegin, FzVerify, FzForce, FzBrain,
             FzCallBrain, FzMarkBrain, FzDigest, FzCallDigest, FzMarkDigest, FzMarkActions,
             FzResnapshot, FzRebegin, FzComplete, FzExhausted, FzCancel, FzFrame
    <3> QED BY <2>0, <3>1, QueueAsk
  <2> QED BY <2>1, <2>2, <2>3
<1>4. CASE RetryStep
  <2>1. /\ UNCHANGED <<closer, mut, ended, publishing>>
        /\ ScheduleBacklog \/ UNCHANGED jobVars
    BY <1>4 DEF RetryStep, RetryRead, RetryArm, RetryFire, RetryCheck, endVars
  <2> QED BY <1>0, <2>1, QueueBacklog, QueueAsk
<1>5. ASSUME NEW p \in Writers, WrStep(p) PROVE Queue!Next
  <2>1. UNCHANGED <<closer, mut, ended, publishing>> /\ UNCHANGED jobVars
    BY <1>5 DEF WrStep, WrFrame, WrRead, WrSnap, WrLock, WrWrite, WrMark, WrTruthLock, WrTruthWrite,
           endVars
  <2> QED BY <2>1, QueueAsk
<1>6. CASE AuditStep
  <2>1. /\ UNCHANGED <<closer, mut, ended, publishing>>
        /\ ScheduleBacklog \/ UNCHANGED jobVars
    BY <1>6 DEF AuditStep, AuditFrame, AuditObserve, AuditSnapshot, AuditCheck, AuditRefreshed,
           AuditBegin, AuditSchedule, endVars
  <2> QED BY <1>0, <2>1, QueueBacklog, QueueAsk
\* A close lowers the ears of the commit hooks only before the meeting has ended.
<1>7. CASE CloseStart \/ CloseStep
  <2>1. CASE ClosePublish
    <3>1. ScheduleFresh /\ closer'.pc = "clear" /\ UNCHANGED <<mut, ended, publishing>>
      BY <2>1 DEF ClosePublish, CloserTo, CloseFrame, endVars, TypeOK, CloserState
    <3>2. Asked' = Asked \ {"close"} BY <3>1 DEF Asked
    <3> QED BY <3>1, <3>2, QueueFresh
  <2>2. CASE CloseStart \/ CloseSnap \/ ClosePrewrite \/ CloseEnd
    <3>1. closer.pc # "publish" /\ ~ended /\ UNCHANGED jobVars
      BY <2>2 DEF CloseStart, CloseBegin, CloseSnap, ClosePrewrite, CloseEnd, IInv, LifecycleInv
    <3> QED BY <3>1, QueueAsk
  <2>3. CASE CloseArchive \/ CloseStamp \/ CloseTruth \/ CloseMarked \/ CloseClear
    <3>1. /\ closer.pc # "publish" /\ UNCHANGED jobVars /\ UNCHANGED <<mut, ended>>
          /\ ~publishing => ~publishing'
      BY <2>3 DEF CloseArchive, CloseStamp, CloseTruth, CloseMarked, CloseClear, CloseFrame, endVars
    <3> QED BY <3>1, QueueAsk
  <2> QED BY <1>7, <2>1, <2>2, <2>3 DEF CloseStep
<1>8. CASE Restart
  <2>1. closer'.pc = "off" /\ mut'.pc = "off" /\ again' = FALSE /\ job' \in {"none", "backlog"}
    BY <1>8 DEF Restart, Resume, NoCloser, NoMut
  <2>2. Asked' = {} BY <2>1 DEF Asked
  <2> QED BY <2>1, <2>2 DEF Queue!Next, Queue!Restart
<1> QED BY <1>1, <1>2, <1>3, <1>4, <1>5, <1>6, <1>7, <1>8 DEF Next

\* The close, the mutations, the finalizer, the timer and the audit of a meeting
\* see of the queue, and do to it, what MeetingJob allows; that is what
\* FinalizationQueue offers each meeting (meeting_finalization.go:1325-1364,
\* 1573-1588).
THEOREM MeetingKeepsToTheQueue == Spec => KeepsToTheQueue
<1>1. Init => Queue!Init
  <2>1. Init => Asked = {} BY DEF Init, Asked, NoCloser, NoMut
  <2> QED BY <2>1 DEF Init, Queue!Init
<1>2. Init => JobHeld BY DEF Init, JobHeld, NoFz
<1>3. TypeOK /\ JobHeld /\ [Next]_vars => JobHeld' BY JobHeldStep
<1>4. TypeOK /\ IInv /\ JobHeld /\ [Next]_vars => [Queue!Next]_(Queue!vars)
  <2>1. UNCHANGED vars => UNCHANGED Queue!vars BY DEF vars, Queue!vars, Asked
  <2> QED BY <2>1, QueueStep
<1> QED BY <1>1, <1>2, <1>3, <1>4, TypeCorrect, InvariantHolds, PTL DEF Spec, KeepsToTheQueue, Queue!Spec
=============================================================================
