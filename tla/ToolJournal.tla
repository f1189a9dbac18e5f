---------------------------- MODULE ToolJournal -----------------------------
(***************************************************************************)
(* The storage of the realtime tool journal (openai_tool_journal.go): an    *)
(* authenticated file, replaced as a whole by every write, whose generation *)
(* and digest an external high-water store fences by compare-and-swap.      *)
(* A file is abstracted to its history: the sequence of the writes it       *)
(* holds.  Its generation is the length, its digest the sequence itself,    *)
(* and PreviousDigest the sequence without its last write.  One process at  *)
(* a time holds the journal (the flock of openOpenAIToolJournal), one call  *)
(* at a time its mutex; between two steps of a call the process may die or  *)
(* the machine lose what it has not synced.                                 *)
(***************************************************************************)
EXTENDS Naturals, Sequences, Functions

CONSTANTS
  Faults,        \* the kinds of fault that may strike, a subset of FaultKinds
  MaxWrites,     \* bound: writes issued
  MaxFaults      \* bound: faults that strike

FaultKinds == {"write", "sync", "refuse", "lost", "late", "blind", "restore",
               "verify", "kill", "power", "backup"}

ASSUME ToolJournalConstants ==
  Faults \subseteq FaultKinds /\ MaxWrites \in Nat /\ MaxFaults \in Nat

VARIABLES
  file,          \* the journal file by name; <<>> when there is none
  disk,          \* the same after a power loss
  envs,          \* writes whose encrypted replay envelopes are in the directory
  hw,            \* the anchor in the high-water store
  wire,          \* a swap that timed out on its way there: <<>> or <<from, to>>
  life,          \* whether a process holds the journal, and has poisoned it
  pc, job,       \* where the call under the mutex is, and what it is
  state,         \* journal.state
  anchor,        \* journal.anchor
  issued, faults,
  acked,         \* history: writes whose caller got success
  refused,       \* history: writes whose caller was told they had no effect
  served,        \* history: the state the latest read returned
  scars          \* history: faults after which the journal may not reopen

store == <<file, disk, envs>>
process == <<life, pc, job, state, anchor>>
history == <<acked, refused, served, scars>>
vars == <<store, hw, wire, process, issued, faults, history>>

Id == 1..MaxWrites
Log == Seq(Id)

TypeOK ==
  /\ file \in Log /\ disk \in Log /\ hw \in Log /\ state \in Log /\ anchor \in Log
  /\ wire \in {<<>>} \cup (Log \X Log)
  /\ envs \subseteq Id /\ acked \subseteq Id /\ refused \subseteq Id /\ served \in Log
  /\ life \in {"down", "up", "poisoned"} /\ job \in {"none", "init", "recover", "call"}
  /\ pc \in {"idle", "write", "sync", "cas", "load", "restore", "resync", "verify", "check"}
  /\ (life # "up" => pc = "idle") /\ (pc = "idle" => job = "none")
  /\ (pc \in {"cas", "load"} => job # "none")
  /\ (pc \in {"write", "sync", "restore", "resync", "verify"} => job \in {"init", "call"})
  /\ (job \in {"init", "call"} => issued \in Id /\ pc # "check")
  /\ issued \in 0..MaxWrites /\ faults \in 0..MaxFaults
  /\ scars \subseteq {"blind", "late", "unsynced", "backup"}

Init ==
  /\ file = <<>> /\ disk = <<>> /\ envs = {} /\ hw = <<>> /\ wire = <<>>
  /\ life = "down" /\ pc = "idle" /\ job = "none" /\ state = <<>> /\ anchor = <<>>
  /\ issued = 0 /\ faults = 0
  /\ acked = {} /\ refused = {} /\ served = <<>> /\ scars = {}

Fault(kind) == kind \in Faults /\ faults < MaxFaults /\ faults' = faults + 1
NoFault == UNCHANGED faults

Extends(log, base) == Len(base) <= Len(log) /\ base = SubSeq(log, 1, Len(base))

\* generation = anchor.generation + 1 and previous digest = anchor.digest.
Successor(log, base) == \E id \in Id : log = Append(base, id)

-----------------------------------------------------------------------------
(* How a call ends.                                                         *)

Closed ==
  /\ life' = "down" /\ pc' = "idle" /\ job' = "none"
  /\ state' = <<>> /\ anchor' = <<>>

\* Wrong variant: the call goes on after it has poisoned the journal.
PoisonGoesOn ==
  IF job = "call"
  THEN life' = "poisoned" /\ UNCHANGED <<pc, job, state, anchor>>
  ELSE Closed

\* An open that fails closes its descriptors and forgets the journal.
Poison ==
  IF job = "call"
  THEN /\ life' = "poisoned" /\ pc' = "idle" /\ job' = "none"
       /\ UNCHANGED <<state, anchor>>
  ELSE Closed

\* The caller gets an error that promises no effect, restores its records and
\* unlinks the envelope it wrote.
RollBack ==
  /\ refused' = refused \cup {issued} /\ envs' = envs \ {issued}
  /\ IF job = "call"
     THEN /\ pc' = "idle" /\ job' = "none" /\ state' = anchor
          /\ UNCHANGED <<life, anchor>>
     ELSE Closed

-----------------------------------------------------------------------------
(* Opening.                                                                 *)

\* Wrong variant: any file is taken for the state, whatever its generation.
OpenAny ==
  /\ life = "down" /\ life' = "up"
  /\ anchor' = hw
  /\ \/ /\ file = <<>> /\ hw = <<>> /\ issued < MaxWrites
        /\ issued' = issued + 1 /\ envs' = envs \cup {issued + 1}
        /\ state' = <<issued + 1>> /\ job' = "init" /\ pc' = "write"
     \/ /\ file # <<>>
        /\ state' = file /\ job' = "none" /\ pc' = "idle"
        /\ UNCHANGED <<issued, envs>>
  /\ UNCHANGED <<file, disk, hw, wire, faults, history>>

\* Every other file is a rollback or tampered with, and the open fails: no step.
\* Recovery swaps in a file whose rename nobody may have synced.
\* The initial state refers to no envelope; its write counts as covered.
Open ==
  /\ life = "down" /\ life' = "up"
  /\ anchor' = hw
  /\ \/ /\ file = <<>> /\ hw = <<>> /\ issued < MaxWrites
        /\ issued' = issued + 1 /\ envs' = envs \cup {issued + 1}
        /\ state' = <<issued + 1>> /\ job' = "init" /\ pc' = "write"
     \/ /\ file = hw /\ file # <<>>
        /\ state' = file /\ job' = "none" /\ pc' = "check"
        /\ UNCHANGED <<issued, envs>>
     \/ /\ Successor(file, hw)
        /\ state' = file /\ job' = "recover" /\ pc' = "cas"
        /\ UNCHANGED <<issued, envs>>
  /\ scars' = IF file # <<>> /\ file # hw /\ file # disk THEN scars \cup {"unsynced"} ELSE scars
  /\ UNCHANGED <<file, disk, hw, wire, faults, acked, refused, served>>

\* The requireUsableLocked that ends a successful load.
OpenCheck ==
  /\ pc = "check"
  /\ \/ /\ hw = anchor
        /\ pc' = "idle" /\ job' = "none"
        /\ UNCHANGED <<life, state, anchor>>
     \/ hw # anchor /\ Closed
  /\ UNCHANGED <<store, hw, wire, issued, faults, history>>

Close ==
  /\ life # "down" /\ pc = "idle" /\ Closed
  /\ UNCHANGED <<store, hw, wire, issued, faults, history>>

-----------------------------------------------------------------------------
(* Calls on an open journal.                                                *)

Idle == life = "up" /\ pc = "idle"

\* Wrong variant: a read trusts memory.
ServeUnchecked ==
  /\ Idle
  /\ served' = state
  /\ UNCHANGED <<store, hw, wire, process, issued, faults, acked, refused, scars>>

\* Record, RunOperations and the other reads, after requireUsableLocked.
Serve ==
  /\ Idle /\ hw = anchor
  /\ served' = state
  /\ UNCHANGED <<store, hw, wire, process, issued, faults, acked, refused, scars>>

\* requireUsableLocked finds the high-water moved.
Diverge ==
  /\ Idle /\ hw # anchor
  /\ life' = "poisoned"
  /\ UNCHANGED <<store, hw, wire, pc, job, state, anchor, issued, faults, history>>

\* A mutating call up to the rename in persistLocked: its envelope is durable,
\* or an fsync left that in doubt and the journal is poisoned.
Begin ==
  /\ Idle /\ hw = anchor /\ issued < MaxWrites
  /\ issued' = issued + 1 /\ envs' = envs \cup {issued + 1}
  /\ \/ /\ NoFault
        /\ state' = Append(state, issued + 1) /\ pc' = "write" /\ job' = "call"
        /\ UNCHANGED life
     \/ /\ Fault("sync")
        /\ life' = "poisoned"
        /\ UNCHANGED <<state, pc, job>>
  /\ UNCHANGED <<file, disk, hw, wire, anchor, history>>

Write ==
  /\ pc = "write"
  /\ \/ /\ file' = state /\ pc' = "sync"
        /\ UNCHANGED <<envs, life, job, state, anchor, refused, faults>>
     \/ Fault("write") /\ RollBack /\ UNCHANGED file
  /\ UNCHANGED <<disk, hw, wire, issued, acked, served, scars>>

\* Wrong variant: nothing syncs the directory before the swap.
SyncSkipped ==
  /\ pc = "sync" /\ pc' = "cas"
  /\ UNCHANGED <<store, hw, wire, life, job, state, anchor, issued, faults, history>>

\* Wrong variant: an fsync failure after the rename is reported as no effect.
SyncRefuses ==
  /\ pc = "sync"
  /\ \/ /\ disk' = file /\ pc' = "cas"
        /\ UNCHANGED <<envs, life, job, state, anchor, refused, faults>>
     \/ Fault("sync") /\ RollBack /\ disk' \in {disk, file}
  /\ UNCHANGED <<file, hw, wire, issued, acked, served, scars>>

\* A sync that fails, or a reread after it, leaves open what a power loss finds.
Sync ==
  /\ pc = "sync"
  /\ \/ /\ disk' = file /\ pc' = "cas"
        /\ UNCHANGED <<life, job, state, anchor, faults>>
     \/ Fault("sync") /\ Poison /\ disk' \in {disk, file}
  /\ UNCHANGED <<file, envs, hw, wire, issued, history>>

-----------------------------------------------------------------------------
(* The swap of the anchor and what follows it.                              *)

\* The new generation is the journal's.
Adopt ==
  /\ anchor' = state
  /\ pc' = IF job = "recover" THEN "check" ELSE "verify"

CasReplies ==
  /\ pc = "cas" /\ hw = anchor /\ hw' = state
  /\ Adopt
  /\ UNCHANGED <<store, wire, life, job, state, issued, faults, history>>

\* An error: the store refused, applied it and lost the reply, or has it still
\* to come when the caller's context ends.
CasErrs ==
  /\ pc = "cas" /\ pc' = "load"
  /\ \/ hw # anchor /\ NoFault /\ UNCHANGED <<hw, wire, scars>>
     \/ Fault("refuse") /\ UNCHANGED <<hw, wire, scars>>
     \/ hw = anchor /\ Fault("lost") /\ hw' = state /\ UNCHANGED <<wire, scars>>
     \/ /\ wire = <<>> /\ Fault("late")
        /\ wire' = <<anchor, state>> /\ scars' = scars \cup {"late"} /\ UNCHANGED hw
  /\ UNCHANGED <<store, life, job, state, anchor, issued, acked, refused, served>>

WireLands ==
  /\ wire # <<>> /\ wire' = <<>>
  /\ hw' = IF hw = wire[1] THEN wire[2] ELSE hw
  /\ UNCHANGED <<store, process, issued, faults, history>>

\* Wrong variant: the error of a swap is believed without asking.
LoadSkipped ==
  /\ pc = "load"
  /\ IF job = "recover"
     THEN Closed
     ELSE pc' = "restore" /\ UNCHANGED <<life, job, state, anchor>>
  /\ UNCHANGED <<store, hw, wire, issued, faults, history>>

\* The Load that decides; one that fails itself counts as a refusal.
Load ==
  /\ pc = "load"
  /\ \/ /\ hw = state /\ NoFault
        /\ Adopt /\ UNCHANGED <<life, job, state, scars>>
     \/ /\ \/ hw # state /\ NoFault /\ UNCHANGED scars
           \/ Fault("blind") /\ scars' = scars \cup {"blind"}
        /\ IF job = "recover"
           THEN Closed
           ELSE pc' = "restore" /\ UNCHANGED <<life, job, state, anchor>>
  /\ UNCHANGED <<store, hw, wire, issued, acked, refused, served>>

\* The previous file is written back, or removed when there was none.
Restore ==
  /\ pc = "restore"
  /\ \/ /\ file' = anchor /\ pc' = "resync"
        /\ UNCHANGED <<life, job, state, anchor, faults>>
     \/ Fault("restore") /\ Poison /\ UNCHANGED file
  /\ UNCHANGED <<disk, envs, hw, wire, issued, history>>

\* Wrong variant: the caller is told before the old file is durable again.
RestoreSyncIgnored ==
  /\ pc = "resync"
  /\ \/ disk' = file /\ RollBack /\ NoFault
     \/ Fault("restore") /\ RollBack /\ disk' \in {disk, file}
  /\ UNCHANGED <<file, hw, wire, issued, acked, served, scars>>

RestoreSync ==
  /\ pc = "resync"
  /\ \/ disk' = file /\ RollBack /\ NoFault
     \/ Fault("restore") /\ Poison /\ disk' \in {disk, file} /\ UNCHANGED <<envs, refused>>
  /\ UNCHANGED <<file, hw, wire, issued, acked, served, scars>>

\* The reread after the swap, and success to the caller.
Verify ==
  /\ pc = "verify"
  /\ \/ /\ acked' = acked \cup {issued} /\ NoFault
        /\ pc' = "idle" /\ job' = "none"
        /\ UNCHANGED <<life, state, anchor>>
     \/ Fault("verify") /\ Poison /\ UNCHANGED acked
  /\ UNCHANGED <<store, hw, wire, issued, refused, served, scars>>

-----------------------------------------------------------------------------
(* The environment.                                                         *)

Kill ==
  /\ life # "down" /\ Fault("kill") /\ Closed
  /\ UNCHANGED <<store, hw, wire, issued, history>>

PowerLoss ==
  /\ Fault("power") /\ Closed
  /\ file' = disk
  /\ UNCHANGED <<disk, envs, hw, wire, issued, history>>

\* An older copy of the file is put back while nobody holds the journal.
RestoreBackup ==
  /\ life = "down" /\ Fault("backup")
  /\ \E n \in 0..(Len(file) - 1) :
       file' = SubSeq(file, 1, n) /\ disk' = SubSeq(file, 1, n)
  /\ scars' = scars \cup {"backup"}
  /\ UNCHANGED <<envs, hw, wire, process, issued, acked, refused, served>>

Next ==
  \/ Open \/ OpenCheck \/ Close
  \/ Serve \/ Diverge \/ Begin \/ Write \/ Sync
  \/ CasReplies \/ CasErrs \/ WireLands \/ Load \/ Restore \/ RestoreSync \/ Verify
  \/ Kill \/ PowerLoss \/ RestoreBackup

Spec == Init /\ [][Next]_vars

-----------------------------------------------------------------------------
(* What the journal promises.                                               *)

\* A write whose caller got success stays in the high-water log, and in the
\* file as seen now and after a power loss, until somebody puts back a backup
\* (persistLocked acknowledges after rename, fsync, swap and reread).
AckedSurvives ==
  /\ acked \subseteq Range(hw)
  /\ "backup" \notin scars => acked \subseteq Range(file) \cap Range(disk)

\* A write whose caller was told it had no effect is in no file, can come back
\* from no restart, and was never read (the restore after a high-water conflict).
RefusedStaysOut ==
  refused \cap (Range(file) \cup Range(disk) \cup Range(served)) = {}

\* Every record in the file, now or after a power loss, still has the replay
\* envelope without which loadOrInitialize and readEnvelope fail (the envelope
\* is written before the journal and unlinked only after the restore).
EnvelopesCover == Range(file) \cup Range(disk) \subseteq envs

\* An unheld journal opens, whatever refusals, lost replies, failed fsyncs and
\* crashes came before, unless a swap landed late, the Load after a failed
\* swap failed too, recovery adopted a rename that was then lost, or somebody
\* put back a backup (the two rollback checks of loadOrInitialize).
Reopens ==
  life = "down" /\ scars = {} => file = hw \/ Successor(file, hw)

\* Reads never go back: what one read returned, the next one extends, across
\* restarts and whatever copy of the file they find (requireUsableLocked).
ReadsExtend == [][Extends(served', served)]_vars

\* No caller is told that a write had no effect once the high-water store has
\* fenced it ("advanced high-water poisons instead of rolling back memory").
AdvancedHighWaterPoisons == refused \cap Range(hw) = {}

\* The journal implements the promise.
HighWater == INSTANCE HighWaterLog WITH Write <- Id, log <- hw, shown <- served

\* Every step of the journal is one of the promise or leaves it as it is.
ImplementsHighWaterLog == HighWater!Spec
=============================================================================
