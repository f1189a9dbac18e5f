------------------------- MODULE MeetingFinalization -------------------------
(***************************************************************************)
(* The close of one meeting: transcript mutations under memory.mu, the     *)
(* durable close receipt in meetings.json, the archive file that embeds a  *)
(* copy of that receipt, the finalizer that produces the Brain and digest  *)
(* outputs, its retry timer, the boot audit and the two close paths.       *)
(*                                                                         *)
(* Each lock region of the code is one action.  Three stores are written   *)
(* under three different locks, so a step of any actor may fall between    *)
(* two lock regions of another.  memory.mu is held by a mutator from its   *)
(* fence to its commit hook (mut.pc # "off"); meetingArchiveMu is held     *)
(* between the re-read of the receipt and the replacement of the file      *)
(* (ArchiveFree).  The worker queue is seen from this one meeting: job and *)
(* again; FinalizationQueue models its lanes and its workers.              *)
(***************************************************************************)
EXTENDS FinalizationReceipt, FiniteSets

CONSTANTS
  Faults,        \* kinds of injected failure: "receipt", "archive", "memory", "provider", "key"
  CloseModes,    \* close paths taken: "idle" (endMeetingForIdle), "manual" (archiveMeeting)
  MaxPasses,     \* meetingFinalizationMaxPasses
  MaxObserved,   \* bound: post-close transcript mutations
  MaxTampers,    \* bound: edits or deletions of an output row
  MaxCrashes,    \* bound: process restarts
  MaxFaults      \* bound: injected failures

ASSUME FinalizationConstants ==
  /\ MaxPasses \in Nat \ {0}
  /\ MaxObserved \in Nat /\ MaxTampers \in Nat
  /\ MaxCrashes \in Nat /\ MaxFaults \in Nat
  /\ CloseModes \subseteq {"idle", "manual"}

VARIABLES
  \* durable
  transcripts,   \* the meeting's transcript rows in memory.jsonl
  brains,        \* intact Brain rows: [src, id]
  digest,        \* the current meeting digest: [src, id, of], id = 0 if none is intact
  ended,         \* record.EndedAt # ""
  archived,      \* record.ArchiveID # ""
  receipt,       \* record.Finalization (meaningful when ended)
  archive,       \* the archive file: embedded receipt state and source, and its memory rows
  \* volatile
  mut,           \* the mutation holding memory.mu
  fz,            \* the queue worker running finalizeMeetingCore for this meeting
  job,           \* the meeting's place in the worker queue
  again,         \* meetingFinalizationAgain
  retry,         \* the retry timer: being armed, armed, fired but not yet re-checked
  wr,            \* archive writers: [pc, mem, emb, next]
  holders,       \* archive writers whose receipt copy still has the stored UpdatedAt
  audit,         \* auditMeetingFinalizationsAfterBoot
  closer,        \* the close path, and meetingLifecycleMu's writer
  publishing,    \* meetingArchivePublishing
  \* bounds
  gen,           \* output generation: 1 + tampers so far
  faults, crashes

memVars   == <<transcripts, brains, digest, gen>>
recVars   == <<receipt, holders, retry>>
endVars   == <<ended, archived>>
jobVars   == <<job, again>>
bndVars   == <<faults, crashes>>
vars == <<transcripts, brains, digest, gen, ended, archived, receipt, holders, retry, archive,
          mut, fz, job, again, wr, audit, closer, publishing, faults, crashes>>

Writers == {"worker", "audit", "manual"}
RetryCell == {"arming", "timer", "fired"}

NoEmbed == [state |-> "closing", src |-> {}]
NoMut == [pc |-> "off", kind |-> "append", del |-> {}, add |-> {}, emb |-> NoEmbed]
NoFz  == [pc |-> "off", pass |-> 0, rev |-> 0, src |-> {}, out |-> 0, err |-> FALSE,
          outs |-> [n \in StageName |-> 0]]
NoWr  == [pc |-> "off", mem |-> {}, emb |-> NoEmbed, next |-> "off"]
NoAudit  == [pc |-> "off", rec |-> NewReceipt({}, 0), rev |-> 0, src |-> {}]
NoCloser == [pc |-> "off", mode |-> "idle", src |-> {}]
NoDigest == [src |-> {}, id |-> 0, of |-> 0]
NoArchive == [state |-> "closing", src |-> {}, mem |-> {}]
NoRetry == [c \in RetryCell |-> "off"]

Embed == [state : {"closing", "finalized", "degraded"}, src : Source]
RetryState == [RetryCell -> {"off", "wanted", "current", "stale"}]
JobState == {"none", "fresh", "backlog", "active"}
MutState == [pc : {"off", "fence", "lock", "write", "commit", "hook"},
             kind : {"append", "correct", "delete"}, del : Source, add : Source, emb : Embed]
FzState == [pc : {"off", "observe", "snapshot", "begin", "verify", "force",
                  "brain", "callBrain", "markBrain", "digest", "callDigest", "markDigest",
                  "markActions", "reobserve", "resnapshot", "rebegin", "complete",
                  "exhausted", "cancel", "refresh"},
            pass : Nat, rev : Nat, src : Source, out : Nat, err : BOOLEAN,
            outs : [StageName -> Nat]]
WrState == [pc : {"off", "read", "snap", "lock", "write", "mark", "truthLock", "truthWrite"},
            mem : Source, emb : Embed, next : {"off", "mark"}]
AuditState == [pc : {"off", "observe", "snapshot", "check", "refresh", "begin", "schedule"},
               rec : Receipt, rev : Nat, src : Source]
CloserState == [pc : {"off", "snap", "prewrite", "end", "archive", "stamp",
                      "truth", "marked", "publish", "clear"},
                mode : {"idle", "manual"}, src : Source]

TypeOK ==
  /\ transcripts \in Source
  /\ brains \subseteq [src : Source, id : Nat]
  /\ digest \in [src : Source, id : Nat, of : Nat]
  /\ gen \in Nat
  /\ ended \in BOOLEAN /\ archived \in BOOLEAN
  /\ receipt \in Receipt /\ holders \subseteq Writers /\ retry \in RetryState
  /\ archive \in [state : {"closing", "finalized", "degraded"}, src : Source, mem : Source]
  /\ mut \in MutState /\ fz \in FzState
  /\ job \in JobState /\ again \in BOOLEAN
  /\ wr \in [Writers -> WrState]
  /\ audit \in AuditState /\ closer \in CloserState
  /\ publishing \in BOOLEAN
  /\ faults \in Nat /\ crashes \in Nat

Init ==
  /\ transcripts = {} /\ brains = {} /\ digest = NoDigest /\ gen = 1
  /\ ended = FALSE /\ archived = FALSE
  /\ receipt = NewReceipt({}, 0) /\ holders = {} /\ retry = NoRetry
  /\ archive = NoArchive
  /\ mut = NoMut /\ fz = NoFz /\ job = "none" /\ again = FALSE
  /\ wr = [p \in Writers |-> NoWr] /\ audit = NoAudit /\ closer = NoCloser
  /\ publishing = FALSE
  /\ faults = 0 /\ crashes = 0

-----------------------------------------------------------------------------
(* Locks, faults and the receipt store.                                     *)

MemFree == mut.pc = "off"

ArchiveFree ==
  /\ mut.pc # "write"
  /\ \A p \in Writers : wr[p].pc \notin {"write", "truthWrite"}

\* The close paths hold meetingLifecycleMu for writing: the idle close to its
\* very end, the manual archive until the meeting has ended.
LifecycleFree ==
  \/ closer.pc = "off"
  \/ closer.mode = "manual" /\ closer.pc \in {"truth", "marked", "publish", "clear"}

Fault(kind) ==
  /\ kind \in Faults /\ faults < MaxFaults
  /\ faults' = faults + 1

\* A persisted write stamps a new UpdatedAt: no writer's copy is current any more.
Stamp(r) == receipt' = r /\ holders' = {}

Aged(cells) == [c \in RetryCell |-> IF cells[c] = "current" THEN "stale" ELSE cells[c]]

\* Every write but the archive sync leaves RetryAfter and RetryAttempt different.
Persist(r) == Stamp(r) /\ retry' = Aged(retry) /\ UNCHANGED faults

\* resolvePersistFailureLocked: rolled back, or visible all the same when the
\* rename landed and only the directory sync failed.
PersistFails(r) ==
  /\ Fault("receipt")
  /\ \/ UNCHANGED recVars
     \/ Stamp(r) /\ retry' = Aged(retry)

\* An archive write that reports an error leaves the old file, or the new one
\* when the rename landed and only the directory sync failed.
ArchiveFails(file) == Fault("archive") /\ archive' \in {archive, file}

EmbedNow == [state |-> receipt.state, src |-> receipt.src]

(***************************************************************************)
(* scheduleMeetingCoreFinalizationPriority, seen from this meeting.  A      *)
(* fresh signal cancels the timer, promotes a queued backlog job and asks   *)
(* an active one to run again; a backlog signal does neither.               *)
(***************************************************************************)
\* Wrong variant: the signal to an active job is lost.
ScheduleFreshOnce ==
  /\ retry' = [retry EXCEPT !["timer"] = "off"]
  /\ job' = IF job = "active" THEN job ELSE "fresh"
  /\ UNCHANGED again

ScheduleFresh ==
  /\ retry' = [retry EXCEPT !["timer"] = "off"]
  /\ job' = IF job = "active" THEN job ELSE "fresh"
  /\ again' = (again \/ job = "active")

ScheduleBacklog ==
  /\ job' = IF job = "none" THEN "backlog" ELSE job
  /\ UNCHANGED again

-----------------------------------------------------------------------------
(* Transcript mutations: append, correction and deletion share one shape,  *)
(* [fence, commit, hook] under memory.mu, and differ in what a failed       *)
(* fence does.                                                              *)

Mutation(kind, del, add) ==
  CASE kind = "append"  -> del = {} /\ add # {} /\ add \cap transcripts = {}
    [] kind = "correct" -> del \subseteq transcripts /\ del # {} /\ add # {}
                           /\ add \cap transcripts = {}
    [] kind = "delete"  -> del \subseteq transcripts /\ del # {} /\ add = {}

MutBegin(kind, del, add) ==
  /\ MemFree /\ LifecycleFree
  /\ ended => receipt.obs < MaxObserved
  /\ Mutation(kind, del, add)
  /\ mut' = [NoMut EXCEPT !.pc = "fence", !.kind = kind, !.del = del, !.add = add]
  /\ UNCHANGED <<memVars, recVars, endVars, archive, fz, jobVars, wr, audit, closer,
                 publishing, bndVars>>

\* What a handler does when its fence fails: only deletion queues a repair.
FenceRefused == mut' = IF mut.kind = "delete" THEN [mut EXCEPT !.pc = "hook"] ELSE NoMut

\* Wrong variant: the archive is left claiming the old source.
MutFenceReceiptOnly ==
  /\ mut.pc = "fence"
  /\ \/ /\ ~ended
        /\ UNCHANGED <<recVars, faults>>
     \/ /\ ended
        /\ Persist(Observed(receipt))
  /\ mut' = [mut EXCEPT !.pc = "commit"]
  /\ UNCHANGED <<memVars, endVars, archive, fz, jobVars, wr, audit, closer, publishing, crashes>>

MutFence ==
  /\ mut.pc = "fence"
  /\ \/ /\ ~ended
        /\ mut' = [mut EXCEPT !.pc = "commit"]
        /\ UNCHANGED <<recVars, faults>>
     \/ /\ ended
        /\ Persist(Observed(receipt))
        /\ mut' = [mut EXCEPT !.pc = IF archived THEN "lock" ELSE "commit"]
     \/ /\ ended
        /\ PersistFails(Observed(receipt))
        /\ FenceRefused
  /\ UNCHANGED <<memVars, endVars, archive, fz, jobVars, wr, audit, closer, publishing, crashes>>

MutLock ==
  /\ mut.pc = "lock" /\ ArchiveFree
  /\ mut' = [mut EXCEPT !.pc = "write", !.emb = EmbedNow]
  /\ UNCHANGED <<memVars, recVars, endVars, archive, fz, jobVars, wr, audit, closer,
                 publishing, bndVars>>

\* Wrong variant: deletion downgrades the archive as an append does.
MutWriteTruthOnly ==
  /\ mut.pc = "write"
  /\ archive' = [archive EXCEPT !.state = mut.emb.state, !.src = mut.emb.src]
  /\ mut' = [mut EXCEPT !.pc = "commit"]
  /\ UNCHANGED <<memVars, recVars, endVars, fz, jobVars, wr, audit, closer, publishing, bndVars>>

\* Deletion also removes the exact row from the archived memory.
MutWrite ==
  /\ mut.pc = "write"
  /\ LET file == [state |-> mut.emb.state, src |-> mut.emb.src,
                  mem |-> IF mut.kind = "delete" THEN archive.mem \ mut.del ELSE archive.mem]
     IN  \/ /\ archive' = file
            /\ mut' = [mut EXCEPT !.pc = "commit"]
            /\ UNCHANGED faults
         \/ /\ ArchiveFails(file)
            /\ FenceRefused
  /\ UNCHANGED <<memVars, recVars, endVars, fz, jobVars, wr, audit, closer, publishing, crashes>>

\* A failed commit may still be visible; the hook runs in every case.
MutCommit ==
  /\ mut.pc = "commit"
  /\ \/ transcripts' = (transcripts \ mut.del) \cup mut.add /\ UNCHANGED faults
     \/ Fault("memory") /\ transcripts' \in {transcripts, (transcripts \ mut.del) \cup mut.add}
  /\ mut' = [mut EXCEPT !.pc = "hook"]
  /\ UNCHANGED <<brains, digest, gen, recVars, endVars, archive, fz, jobVars, wr, audit,
                 closer, publishing, crashes>>

MutHook ==
  /\ mut.pc = "hook"
  /\ IF ended /\ ~publishing
     THEN ScheduleFresh
     ELSE UNCHANGED <<retry, jobVars>>
  /\ mut' = NoMut
  /\ UNCHANGED <<memVars, receipt, holders, endVars, archive, fz, wr, audit, closer,
                 publishing, bndVars>>

(* An edit or deletion of an output row, with its repair hook.              *)
TamperBrain(b) ==
  /\ MemFree /\ gen <= MaxTampers
  /\ b \in brains
  /\ brains' = brains \ {b} /\ gen' = gen + 1
  /\ IF ended THEN ScheduleFresh ELSE UNCHANGED <<retry, jobVars>>
  /\ UNCHANGED <<transcripts, digest, receipt, holders, endVars, archive, mut, fz, wr, audit,
                 closer, publishing, bndVars>>

TamperDigest ==
  /\ MemFree /\ gen <= MaxTampers
  /\ digest.id # 0
  /\ digest' = NoDigest /\ gen' = gen + 1
  /\ IF ended THEN ScheduleFresh ELSE UNCHANGED <<retry, jobVars>>
  /\ UNCHANGED <<transcripts, brains, receipt, holders, endVars, archive, mut, fz, wr, audit,
                 closer, publishing, bndVars>>

-----------------------------------------------------------------------------
(* finalizeMeetingCore, run by the queue worker that took this meeting.     *)

To(pc)  == fz' = [fz EXCEPT !.pc = pc]
NextPass == fz' = IF fz.pass + 1 < MaxPasses
                  THEN [NoFz EXCEPT !.pc = "observe", !.pass = fz.pass + 1]
                  ELSE [NoFz EXCEPT !.pc = "exhausted"]
\* A returned error goes to the archive refresh and then to the retry timer.
ExitErr == /\ fz' = [NoFz EXCEPT !.pc = "refresh", !.err = TRUE]
           /\ wr' = [wr EXCEPT !["worker"].pc = "read"]
ExitOk  == fz' = [NoFz EXCEPT !.pc = "cancel"] /\ UNCHANGED wr

\* What a finalizer step other than the output producers leaves alone.
FzFrame == UNCHANGED <<memVars, endVars, archive, mut, jobVars, audit, closer, publishing, crashes>>

FzStart ==
  /\ fz.pc = "off" /\ job \in {"fresh", "backlog"}
  /\ job' = "active"
  /\ fz' = [NoFz EXCEPT !.pc = "observe"]
  /\ UNCHANGED <<memVars, recVars, endVars, archive, mut, again, wr, audit, closer,
                 publishing, bndVars>>

\* meetingFinalizationSourceObservation: the revision is read before memory.
FzObserve ==
  /\ fz.pc \in {"observe", "reobserve"}
  /\ fz' = [fz EXCEPT !.rev = receipt.obs,
                      !.pc = IF fz.pc = "observe" THEN "snapshot" ELSE "resnapshot"]
  /\ FzFrame /\ UNCHANGED <<recVars, wr, faults>>

FzSnapshot ==
  /\ fz.pc = "snapshot" /\ MemFree
  /\ fz' = [fz EXCEPT !.src = transcripts, !.pc = "begin"]
  /\ FzFrame /\ UNCHANGED <<recVars, wr, faults>>

\* beginFinalizationAtRevision by the finalizer: ok is the outcome of success.
FzBeginAt(source, force, ok, refused) ==
  \/ /\ receipt.obs # fz.rev
     /\ refused
     /\ UNCHANGED <<recVars, wr, faults>>
  \/ /\ receipt.obs = fz.rev
     /\ IF receipt.src # source \/ NeedsReopen(receipt, fz.rev, force)
        THEN Persist(Begun(receipt, source, fz.rev, force))
        ELSE UNCHANGED <<recVars, faults>>
     /\ ok
     /\ UNCHANGED wr
  \/ /\ receipt.obs = fz.rev
     /\ PersistFails(Begun(receipt, source, fz.rev, force))
     /\ ExitErr

FzBegin ==
  /\ fz.pc = "begin"
  /\ FzBeginAt(fz.src, FALSE,
       fz' = IF receipt'.state = "finalized"
             THEN [fz EXCEPT !.pc = "verify",
                             !.outs = [n \in StageName |-> receipt.stage[n].out]]
             ELSE [fz EXCEPT !.pc = "brain"],
       NextPass)
  /\ FzFrame

\* meetingFinalizationOutputsReady for a receipt with these bindings.
OutputsReady(source, outs) ==
  IF source = {} THEN \A n \in StageName : outs[n] = 0
  ELSE /\ [src |-> source, id |-> outs["brain"]] \in brains
       /\ digest.src = source /\ digest.id # 0
       /\ outs["digest"] = digest.id /\ outs["actions"] = digest.id

FzVerify ==
  /\ fz.pc = "verify" /\ MemFree
  /\ IF OutputsReady(fz.src, fz.outs) THEN ExitOk ELSE To("force") /\ UNCHANGED wr
  /\ FzFrame /\ UNCHANGED <<recVars, faults>>

FzForce ==
  /\ fz.pc = "force"
  /\ FzBeginAt(fz.src, TRUE, To("brain"), NextPass)
  /\ FzFrame

\* degradeMeetingFinalization; a failed persist leaves the receipt as it was.
Degrade(name, canRetry) ==
  /\ \/ Persist(Degraded(receipt, name, canRetry))
     \/ PersistFails(Degraded(receipt, name, canRetry))
  /\ ExitErr

BrainsFor(source) == {b \in brains : b.src = source}

(***************************************************************************)
(* The Brain stage reads memory again: an empty transcript list counts as  *)
(* complete without an output, and a cursor row that has left the list     *)
(* since the snapshot makes an existing output incomplete.                 *)
(***************************************************************************)
FzBrain ==
  /\ fz.pc = "brain" /\ MemFree
  /\ \/ /\ fz.src = {} \/ transcripts = {}
        /\ fz' = [fz EXCEPT !.pc = "markBrain", !.out = 0]
        /\ UNCHANGED <<recVars, wr, faults>>
     \/ /\ fz.src # {} /\ transcripts # {}
        /\ \E b \in BrainsFor(fz.src) : fz' = [fz EXCEPT !.pc = "markBrain", !.out = b.id]
        /\ UNCHANGED <<recVars, wr, faults>>
     \/ /\ fz.src # {} /\ transcripts # {}
        /\ BrainsFor(fz.src) = {} \/ fz.src # transcripts
        /\ To("callBrain")
        /\ UNCHANGED <<recVars, wr, faults>>
     \/ /\ fz.src # {}
        /\ "key" \in Faults
        /\ Degrade("brain", FALSE)
  /\ FzFrame

\* The provider call, then the durable output append; the stage receipt waits
\* for the next pass to discover the output.
FzCallBrain ==
  /\ fz.pc = "callBrain"
  /\ \/ /\ MemFree
        /\ brains' = brains \cup {[src |-> fz.src, id |-> gen]}
        /\ NextPass
        /\ UNCHANGED <<recVars, wr, faults>>
     \/ /\ "provider" \in Faults
        /\ Degrade("brain", TRUE)
        /\ UNCHANGED brains
  /\ UNCHANGED <<transcripts, digest, gen, endVars, archive, mut, jobVars, audit, closer,
                 publishing, crashes>>

\* markFinalizationStage(complete), without a source or revision check.
FzMark(name, out, next) ==
  \/ /\ Persist(Completed(receipt, name, out))
     /\ next
     /\ UNCHANGED wr
  \/ /\ PersistFails(Completed(receipt, name, out))
     /\ ExitErr

FzMarkBrain ==
  /\ fz.pc = "markBrain"
  /\ FzMark("brain", fz.out, To(IF fz.src = {} THEN "markDigest" ELSE "digest"))
  /\ FzFrame

\* meetingFinalizationDigestProgress: no intact Brain leaves nothing to do.
FzDigest ==
  /\ fz.pc = "digest" /\ MemFree
  /\ LET current == digest.id # 0 /\ digest.src = fz.src
         covers(b) == current /\ digest.of = b.id
     IN  \/ /\ \/ BrainsFor(fz.src) = {}
               \/ \E b \in BrainsFor(fz.src) : covers(b)
            /\ IF current
               THEN fz' = [fz EXCEPT !.pc = "markDigest", !.out = digest.id]
                    /\ UNCHANGED <<recVars, wr, faults>>
               ELSE Degrade("digest", TRUE)
         \/ \E b \in BrainsFor(fz.src) :
              /\ \A c \in BrainsFor(fz.src) : ~covers(c)
              /\ fz' = [fz EXCEPT !.pc = "callDigest", !.out = b.id]
              /\ UNCHANGED <<recVars, wr, faults>>
  /\ FzFrame

FzCallDigest ==
  /\ fz.pc = "callDigest"
  /\ \/ /\ MemFree
        /\ digest' = [src |-> fz.src, id |-> gen, of |-> fz.out]
        /\ NextPass
        /\ UNCHANGED <<recVars, wr, faults>>
     \/ /\ "provider" \in Faults
        /\ Degrade("digest", TRUE)
        /\ UNCHANGED digest
  /\ UNCHANGED <<transcripts, brains, gen, endVars, archive, mut, jobVars, audit, closer,
                 publishing, crashes>>

FzMarkDigest ==
  /\ fz.pc = "markDigest"
  /\ FzMark("digest", fz.out, To("markActions"))
  /\ FzFrame

\* An unparsable digest degrades the actions stage instead.
FzMarkActions ==
  /\ fz.pc = "markActions"
  /\ \/ FzMark("actions", fz.out, To(IF fz.src = {} THEN "complete" ELSE "reobserve"))
     \/ fz.src # {} /\ "provider" \in Faults /\ Degrade("actions", TRUE)
  /\ FzFrame

\* The last look at memory before the claim: a new source starts a new pass.
FzResnapshot ==
  /\ fz.pc = "resnapshot" /\ MemFree
  /\ fz' = IF transcripts = fz.src
           THEN [fz EXCEPT !.pc = "complete"]
           ELSE [fz EXCEPT !.pc = "rebegin", !.src = transcripts]
  /\ FzFrame /\ UNCHANGED <<recVars, wr, faults>>

FzRebegin ==
  /\ fz.pc = "rebegin"
  /\ FzBeginAt(fz.src, FALSE, NextPass, NextPass)
  /\ FzFrame

FzComplete ==
  /\ fz.pc = "complete"
  /\ \/ /\ StagesIncomplete(receipt, fz.src)
        /\ ExitErr
        /\ UNCHANGED <<recVars, faults>>
     \/ /\ ~StagesIncomplete(receipt, fz.src)
        /\ SourceAdvanced(receipt)
        /\ NextPass
        /\ UNCHANGED <<recVars, wr, faults>>
     \/ /\ ~StagesIncomplete(receipt, fz.src) /\ ~SourceAdvanced(receipt)
        /\ \/ Persist(Finalized(receipt)) /\ ExitOk
           \/ PersistFails(Finalized(receipt)) /\ ExitErr
  /\ FzFrame

FzExhausted ==
  /\ fz.pc = "exhausted"
  /\ Degrade("brain", TRUE)
  /\ FzFrame

\* Wrong variant: only a failed run refreshes the archive.
FzCancelOnly ==
  /\ fz.pc = "cancel"
  /\ retry' = [retry EXCEPT !["timer"] = "off"]
  /\ To("refresh")
  /\ FzFrame /\ UNCHANGED <<receipt, holders, wr, faults>>

\* A run that succeeded cancels the timer before it refreshes the archive.
FzCancel ==
  /\ fz.pc = "cancel"
  /\ retry' = [retry EXCEPT !["timer"] = "off"]
  /\ To("refresh")
  /\ wr' = [wr EXCEPT !["worker"].pc = "read"]
  /\ FzFrame /\ UNCHANGED <<receipt, holders, faults>>

\* Wrong variant: a signal that arrived while the job was active is dropped.
FzFinishForgetful ==
  /\ fz.pc = "refresh" /\ wr["worker"].pc = "off"
  /\ fz.err => retry["arming"] = "off"
  /\ job' = "none" /\ again' = FALSE
  /\ retry' = IF fz.err THEN [retry EXCEPT !["arming"] = "wanted"] ELSE retry
  /\ fz' = NoFz
  /\ UNCHANGED <<memVars, receipt, holders, endVars, archive, mut, wr, audit, closer,
                 publishing, bndVars>>

\* The worker gives the meeting back: again runs it once more, and a failed run
\* goes on to the retry timer after the queue lock is released.
FzFinish ==
  /\ fz.pc = "refresh" /\ wr["worker"].pc = "off"
  /\ fz.err => retry["arming"] = "off"
  /\ job' = IF again THEN "fresh" ELSE "none"
  /\ again' = FALSE
  /\ retry' = IF fz.err THEN [retry EXCEPT !["arming"] = "wanted"] ELSE retry
  /\ fz' = NoFz
  /\ UNCHANGED <<memVars, receipt, holders, endVars, archive, mut, wr, audit, closer,
                 publishing, bndVars>>

-----------------------------------------------------------------------------
(* The retry timer (scheduleMeetingFinalizationRetry).                      *)

\* The worker's own snapshot is not trusted: the stored receipt is read again.
RetryRead ==
  /\ retry["arming"] = "wanted"
  /\ retry' = [retry EXCEPT !["arming"] =
                 IF receipt.state = "degraded" /\ receipt.retryable THEN "current" ELSE "off"]
  /\ UNCHANGED <<memVars, receipt, holders, endVars, archive, mut, fz, jobVars, wr, audit,
                 closer, publishing, bndVars>>

RetryArm ==
  /\ retry["arming"] \in {"current", "stale"}
  /\ retry' = [retry EXCEPT !["timer"] = retry["arming"], !["arming"] = "off"]
  /\ UNCHANGED <<memVars, receipt, holders, endVars, archive, mut, fz, jobVars, wr, audit,
                 closer, publishing, bndVars>>

\* The callback removes the timer under one lock and re-checks the receipt
\* after it has released that lock.
RetryFire ==
  /\ retry["timer"] # "off" /\ retry["fired"] = "off"
  /\ retry' = [retry EXCEPT !["fired"] = retry["timer"], !["timer"] = "off"]
  /\ UNCHANGED <<memVars, receipt, holders, endVars, archive, mut, fz, jobVars, wr, audit,
                 closer, publishing, bndVars>>

RetryCheck ==
  /\ retry["fired"] # "off"
  /\ retry' = [retry EXCEPT !["fired"] = "off"]
  /\ IF retry["fired"] = "current" THEN ScheduleBacklog ELSE UNCHANGED jobVars
  /\ UNCHANGED <<memVars, receipt, holders, endVars, archive, mut, fz, wr, audit, closer,
                 publishing, bndVars>>

-----------------------------------------------------------------------------
(* Archive writers: refreshMeetingArchiveFinalization (worker and audit)    *)
(* and the manual close.                                                    *)

WrFrame == UNCHANGED <<memVars, endVars, mut, fz, jobVars, audit, closer, publishing, crashes>>
WrTo(p, pc) == wr' = [wr EXCEPT ![p].pc = pc]

WrRead(p) ==
  /\ wr[p].pc = "read"
  /\ IF archived /\ Settled(receipt)
     THEN holders' = holders \cup {p} /\ WrTo(p, "snap")
     ELSE UNCHANGED holders /\ WrTo(p, "off")
  /\ WrFrame /\ UNCHANGED <<receipt, retry, archive, faults>>

\* memory.mu comes before meetingArchiveMu.
WrSnap(p) ==
  /\ wr[p].pc = "snap" /\ MemFree
  /\ wr' = [wr EXCEPT ![p].mem = transcripts, ![p].pc = "lock"]
  /\ WrFrame /\ UNCHANGED <<recVars, archive, faults>>

\* The version check under the archive lock rejects a crossed snapshot.
WrLock(p) ==
  /\ wr[p].pc = "lock" /\ ArchiveFree
  /\ wr' = [wr EXCEPT ![p] = IF p \in holders
                             THEN [@ EXCEPT !.pc = "write", !.emb = EmbedNow]
                             ELSE NoWr]
  /\ WrFrame /\ UNCHANGED <<recVars, archive, faults>>

WrWrite(p) ==
  /\ wr[p].pc = "write"
  /\ LET file == [state |-> wr[p].emb.state, src |-> wr[p].emb.src, mem |-> wr[p].mem]
     IN  \/ /\ archive' = file
            /\ WrTo(p, "mark")
            /\ UNCHANGED faults
         \/ /\ ArchiveFails(file)
            /\ wr' = [wr EXCEPT ![p] = NoWr]
  /\ WrFrame /\ UNCHANGED recVars

\* The manual close repairs only when the receipt is settled at another version.
WrRepair(p) ==
  wr' = [wr EXCEPT ![p] = IF p = "manual" /\ ~Settled(receipt)
                          THEN NoWr ELSE [NoWr EXCEPT !.pc = "truthLock"]]

WrMark(p) ==
  /\ wr[p].pc = "mark"
  /\ \/ /\ Settled(receipt) /\ p \in holders
        /\ Stamp(Synced(receipt))
        /\ wr' = [wr EXCEPT ![p] = NoWr]
        /\ UNCHANGED <<retry, faults>>
     \/ /\ Settled(receipt) /\ p \in holders
        /\ Fault("receipt")
        /\ \/ UNCHANGED <<receipt, holders>>
           \/ Stamp(Synced(receipt))
        /\ UNCHANGED retry
        /\ wr' = [wr EXCEPT ![p] = IF p = "manual" THEN NoWr
                                   ELSE [NoWr EXCEPT !.pc = "truthLock"]]
     \/ /\ ~(Settled(receipt) /\ p \in holders)
        /\ WrRepair(p)
        /\ UNCHANGED <<recVars, faults>>
  /\ WrFrame /\ UNCHANGED archive

\* writeMeetingArchiveFinalizationTruth(record, false): no version check.
WrTruthLock(p) ==
  /\ wr[p].pc = "truthLock" /\ ArchiveFree
  /\ wr' = [wr EXCEPT ![p].pc = "truthWrite", ![p].emb = EmbedNow]
  /\ WrFrame /\ UNCHANGED <<recVars, archive, faults>>

WrTruthWrite(p) ==
  /\ wr[p].pc = "truthWrite"
  /\ LET file == [archive EXCEPT !.state = wr[p].emb.state, !.src = wr[p].emb.src]
     IN  \/ /\ archive' = file
            /\ wr' = [wr EXCEPT ![p] = [NoWr EXCEPT !.pc = wr[p].next]]
            /\ UNCHANGED faults
         \/ /\ ArchiveFails(file)
            /\ wr' = [wr EXCEPT ![p] = NoWr]
  /\ WrFrame /\ UNCHANGED recVars

-----------------------------------------------------------------------------
(* auditMeetingFinalizationsAfterBoot for a receipt that was finalized in   *)
(* the boot snapshot audit.rec.                                             *)

AuditTo(pc) == audit' = [audit EXCEPT !.pc = pc]
AuditFrame == UNCHANGED <<memVars, endVars, archive, mut, fz, closer, publishing, crashes>>

AuditObserve ==
  /\ audit.pc = "observe"
  /\ audit' = [audit EXCEPT !.rev = receipt.obs, !.pc = "snapshot"]
  /\ AuditFrame /\ UNCHANGED <<recVars, jobVars, wr, faults>>

AuditSnapshot ==
  /\ audit.pc = "snapshot" /\ MemFree
  /\ audit' = [audit EXCEPT !.src = transcripts, !.pc = "check"]
  /\ AuditFrame /\ UNCHANGED <<recVars, jobVars, wr, faults>>

AuditCheck ==
  /\ audit.pc = "check" /\ MemFree
  /\ LET bound == [n \in StageName |-> audit.rec.stage[n].out]
         sound == /\ Ready(audit.rec) /\ audit.rec.src = audit.src
                  /\ OutputsReady(audit.src, bound)
     IN  IF ~sound THEN AuditTo("begin") /\ UNCHANGED wr
         ELSE IF archived /\ ~audit.rec.synced
         THEN AuditTo("refresh") /\ wr' = [wr EXCEPT !["audit"].pc = "read"]
         ELSE audit' = NoAudit /\ UNCHANGED wr
  /\ AuditFrame /\ UNCHANGED <<recVars, jobVars, faults>>

AuditRefreshed ==
  /\ audit.pc = "refresh" /\ wr["audit"].pc = "off"
  /\ audit' = NoAudit
  /\ AuditFrame /\ UNCHANGED <<recVars, jobVars, wr, faults>>

AuditBegin ==
  /\ audit.pc = "begin"
  /\ \/ /\ receipt.obs # audit.rev
        /\ audit' = NoAudit
        /\ UNCHANGED <<recVars, faults>>
     \/ /\ receipt.obs = audit.rev
        /\ Persist(Begun(receipt, audit.src, audit.rev, TRUE))
        /\ AuditTo("schedule")
     \/ /\ receipt.obs = audit.rev
        /\ PersistFails(Begun(receipt, audit.src, audit.rev, TRUE))
        /\ audit' = NoAudit
  /\ AuditFrame /\ UNCHANGED <<jobVars, wr>>

AuditSchedule ==
  /\ audit.pc = "schedule"
  /\ ScheduleBacklog
  /\ audit' = NoAudit
  /\ AuditFrame /\ UNCHANGED <<recVars, wr, faults>>

-----------------------------------------------------------------------------
(* The two close paths.                                                     *)

CloserTo(pc) == closer' = [closer EXCEPT !.pc = pc]
CloseFrame == UNCHANGED <<memVars, mut, fz, audit, crashes>>

\* The write side of meetingLifecycleMu waits for accepted mutations.
CloseBegin(mode) ==
  /\ closer.pc = "off" /\ ~ended /\ MemFree
  /\ closer' = [NoCloser EXCEPT !.pc = "snap", !.mode = mode]
  /\ publishing' = (mode = "idle")
  /\ CloseFrame /\ UNCHANGED <<recVars, endVars, archive, jobVars, wr, faults>>

CloseSnap ==
  /\ closer.pc = "snap" /\ MemFree
  /\ closer' = [closer EXCEPT !.src = transcripts,
                              !.pc = IF closer.mode = "idle" THEN "end" ELSE "prewrite"]
  /\ CloseFrame /\ UNCHANGED <<recVars, endVars, archive, jobVars, wr, publishing, faults>>

\* The manual archive is on disk, saying closing, before the record ends.
ClosePrewrite ==
  /\ closer.pc = "prewrite" /\ ArchiveFree
  /\ LET file == [state |-> "closing", src |-> closer.src, mem |-> closer.src]
     IN  \/ /\ archive' = file
            /\ publishing' = TRUE
            /\ CloserTo("end")
            /\ UNCHANGED faults
         \/ /\ ArchiveFails(file)
            /\ closer' = NoCloser
            /\ UNCHANGED publishing
  /\ CloseFrame /\ UNCHANGED <<recVars, endVars, jobVars, wr>>

\* EndedAt and the closing receipt land in one write; an ambiguous write is
\* recognised as the close it is, so failure means rolled back.
CloseEnd ==
  /\ closer.pc = "end"
  /\ \/ /\ Persist(NewReceipt(closer.src, 0))
        /\ ended' = TRUE /\ archived' = (closer.mode = "manual")
        /\ CloserTo(IF closer.mode = "idle" THEN "archive" ELSE "truth")
        /\ UNCHANGED publishing
     \/ /\ Fault("receipt")
        /\ closer' = NoCloser /\ publishing' = FALSE
        /\ UNCHANGED <<recVars, endVars>>
  /\ CloseFrame /\ UNCHANGED <<archive, jobVars, wr>>

\* autoArchiveIdleMeeting: a contentless or unwritable archive is skipped.
CloseArchive ==
  /\ closer.pc = "archive" /\ ArchiveFree
  /\ LET file == [state |-> "closing", src |-> closer.src, mem |-> transcripts]
     IN  \/ /\ archive' = file
            /\ CloserTo("stamp")
            /\ UNCHANGED faults
         \/ /\ (transcripts = {} /\ UNCHANGED <<archive, faults>>) \/ ArchiveFails(file)
            /\ CloserTo("publish")
  /\ CloseFrame /\ UNCHANGED <<recVars, endVars, jobVars, wr, publishing>>

CloseStamp ==
  /\ closer.pc = "stamp"
  /\ \/ archived' = TRUE /\ UNCHANGED faults
     \/ Fault("receipt") /\ archived' \in BOOLEAN
  /\ CloserTo("publish")
  /\ CloseFrame /\ UNCHANGED <<recVars, ended, archive, jobVars, wr, publishing>>

\* The manual close rewrites the embedded receipt outside the lifecycle lock.
CloseTruth ==
  /\ closer.pc = "truth"
  /\ wr' = [wr EXCEPT !["manual"] = [NoWr EXCEPT !.pc = "truthLock",
                                       !.next = IF Settled(receipt) THEN "mark" ELSE "off"]]
  /\ holders' = holders \cup {"manual"}
  /\ CloserTo("marked")
  /\ CloseFrame /\ UNCHANGED <<receipt, retry, endVars, archive, jobVars, publishing, faults>>

CloseMarked ==
  /\ closer.pc = "marked" /\ wr["manual"].pc = "off"
  /\ CloserTo("publish")
  /\ CloseFrame /\ UNCHANGED <<recVars, endVars, archive, jobVars, wr, publishing, faults>>

\* endMeetingArchivePublication(true): schedule first, then lower the flag.
ClosePublish ==
  /\ closer.pc = "publish"
  /\ ScheduleFresh
  /\ CloserTo("clear")
  /\ CloseFrame /\ UNCHANGED <<receipt, holders, endVars, archive, wr, publishing, faults>>

CloseClear ==
  /\ closer.pc = "clear"
  /\ publishing' = FALSE /\ closer' = NoCloser
  /\ CloseFrame /\ UNCHANGED <<recVars, endVars, archive, jobVars, wr, faults>>

(***************************************************************************)
(* A crash at any step, and the boot that follows.  An open record whose   *)
(* memory sitting did not resume is closed (reason restart) before the     *)
(* receipts are resumed; a retryable degraded receipt waits on its timer,  *)
(* a finalized one is audited in the background.                           *)
(***************************************************************************)
Resume(r) ==
  /\ retry' = IF ended' /\ r.state = "degraded" /\ r.retryable
              THEN [NoRetry EXCEPT !["timer"] = "current"] ELSE NoRetry
  /\ job' = IF ended' /\ (r.state = "closing" \/ (r.state = "degraded" /\ ~r.retryable))
            THEN "backlog" ELSE "none"
  /\ audit' = IF ended' /\ r.state = "finalized"
              THEN [NoAudit EXCEPT !.pc = "observe", !.rec = r] ELSE NoAudit

Restart ==
  /\ crashes < MaxCrashes /\ crashes' = crashes + 1
  /\ mut' = NoMut /\ fz' = NoFz /\ again' = FALSE
  /\ wr' = [p \in Writers |-> NoWr] /\ holders' = {}
  /\ closer' = NoCloser /\ publishing' = FALSE
  /\ \/ UNCHANGED <<endVars, receipt>>
     \/ /\ ~ended /\ ended' = TRUE /\ archived' = FALSE
        /\ receipt' = NewReceipt(transcripts, 0)
  /\ Resume(receipt')
  /\ UNCHANGED <<memVars, archive, faults>>

-----------------------------------------------------------------------------
MutStart == \E kind \in {"append", "correct", "delete"}, del, add \in SUBSET Row :
              Cardinality(del) <= 1 /\ Cardinality(add) <= 1 /\ MutBegin(kind, del, add)
MutStep  == MutFence \/ MutLock \/ MutWrite \/ MutCommit \/ MutHook
Tamper   == TamperDigest \/ \E b \in brains : TamperBrain(b)
FzStep   == \/ FzStart \/ FzObserve \/ FzSnapshot \/ FzBegin \/ FzVerify \/ FzForce
            \/ FzBrain \/ FzCallBrain \/ FzMarkBrain \/ FzDigest \/ FzCallDigest
            \/ FzMarkDigest \/ FzMarkActions \/ FzResnapshot \/ FzRebegin
            \/ FzComplete \/ FzExhausted \/ FzCancel \/ FzFinish
RetryStep == RetryRead \/ RetryArm \/ RetryFire \/ RetryCheck
WrStep(p) == \/ WrRead(p) \/ WrSnap(p) \/ WrLock(p) \/ WrWrite(p) \/ WrMark(p)
             \/ WrTruthLock(p) \/ WrTruthWrite(p)
AuditStep == \/ AuditObserve \/ AuditSnapshot \/ AuditCheck \/ AuditRefreshed
             \/ AuditBegin \/ AuditSchedule
CloseStart == \E mode \in CloseModes : CloseBegin(mode)
CloseStep == \/ CloseSnap \/ ClosePrewrite \/ CloseEnd \/ CloseArchive \/ CloseStamp
             \/ CloseTruth \/ CloseMarked \/ ClosePublish \/ CloseClear

Next == \/ MutStart \/ MutStep \/ Tamper \/ FzStep \/ RetryStep
        \/ \E p \in Writers : WrStep(p)
        \/ AuditStep \/ CloseStart \/ CloseStep \/ Restart

Spec == Init /\ [][Next]_vars

\* Every started actor is a goroutine or a timer the runtime keeps scheduling;
\* nobody is obliged to speak, to close a room, to tamper or to crash.
Fairness ==
  /\ WF_vars(MutStep) /\ WF_vars(FzStep) /\ WF_vars(RetryStep)
  /\ \A p \in Writers : WF_vars(WrStep(p))
  /\ WF_vars(AuditStep) /\ WF_vars(CloseStep)

FairSpec == Spec /\ Fairness

-----------------------------------------------------------------------------
(* Properties.                                                              *)

\* A receipt never says finalized for anything but the transcript the memory
\* store holds, not even while a mutation is between its fence and its commit
\* (meeting_finalization.go:246-295, 511-549).
FinalizedCoversSource ==
  ended /\ receipt.state = "finalized" => receipt.src = transcripts

\* The archive file never claims finalized analysis of a source the memory
\* store has moved past (meeting_finalization.go:1039-1119, 1193-1213).
ArchiveNeverOverclaims ==
  archived /\ archive.state = "finalized" => archive.src = transcripts

\* A receipt that says its archive is synced agrees with the file on disk
\* (markFinalizationArchiveSynced, meeting_finalization.go:297-325).
SyncedMatchesArchive ==
  ended /\ receipt.synced => archive.state = receipt.state /\ archive.src = receipt.src

\* A row deleted from memory is out of the owned archive by the time the
\* deletion commits, and a refresh that snapshotted memory before the deletion
\* never puts it back (meeting_finalization.go:1079-1084, 1135-1187).
DeletionReachesArchive ==
  [][/\ \A r \in transcripts \ transcripts' :
          archived /\ mut.kind = "delete" => r \notin archive'.mem
     /\ archived' => archive'.mem \ archive.mem \subseteq transcripts']_vars

\* Nobody is left waiting: while the receipt says closing somebody still owes
\* it a pass (memory.go:460-462, 2274-2276).
ClosingIsOwed ==
  ended /\ receipt.state = "closing" =>
    \/ job # "none" \/ mut.pc # "off" \/ closer.pc # "off" \/ audit.pc = "schedule"

\* A closing receipt settles: finalized, or degraded with a reason
\* (finalizeMeetingCore and its retries, meeting_finalization.go:866-1015).
ClosingSettles == (ended /\ receipt.state = "closing") ~> Settled(receipt)

\* An archived meeting ends up with an archive that is receipted as holding the
\* settled receipt (refreshMeetingArchiveFinalization and the boot audit,
\* meeting_finalization.go:1039-1068, 1631-1634).  Once somebody has edited or
\* deleted output rows behind the receipt this is waived: the audit may then
\* reopen the receipt a worker is just settling, and its signal is swallowed.
ArchiveCatchesUp ==
  (ended /\ archived) ~> ((receipt.synced /\ archive.state = receipt.state) \/ gen > 1)

\* After the last interference the outputs a finalized receipt is bound to are
\* there, or a pass that will notice is owed (meeting_finalization.go:1238-1255).
BrokenOutputsAreOwed ==
  /\ ended /\ receipt.state = "finalized"
  /\ ~OutputsReady(receipt.src, [n \in StageName |-> receipt.stage[n].out])
  => job # "none" \/ audit.pc # "off"

\* The close protocol implements AnalysisReadiness: a claim is the finalized
\* state of the receipt, or of the copy embedded in the owned archive.
ClaimOf(there, state, src) == IF there /\ state = "finalized" THEN {src} ELSE {}

Readiness == INSTANCE AnalysisReadiness WITH
  source <- transcripts,
  claim  <- [w \in {"receipt", "archive"} |->
               IF w = "receipt" THEN ClaimOf(ended, receipt.state, receipt.src)
               ELSE ClaimOf(archived, archive.state, archive.src)]

\* Readers of either store see only claims AnalysisReadiness allows
\* (memory.go:456-461, meeting_finalization.go:1189-1192).
ImplementsReadiness == Readiness!Spec

\* The close queue as this meeting sees it; a close and a late transcript ask
\* until they have been heard.
Asked == {a \in {"close", "late"} :
            IF a = "close" THEN closer.pc = "publish"
            ELSE mut.pc = "hook" /\ ended /\ ~publishing}

Queue == INSTANCE MeetingJob WITH Asker <- {"close", "late"}, Restarts <- TRUE, asked <- Asked

\* What the close, the mutations, the finalizer, the retry timer and the audit do
\* to the meeting's job is what the queue offers, MeetingJob
\* (meeting_finalization.go:1325-1364, 1573-1588).
KeepsToTheQueue == Queue!Spec
=============================================================================
