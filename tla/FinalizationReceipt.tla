------------------------- MODULE FinalizationReceipt -------------------------
(***************************************************************************)
(* The durable close receipt of one ended meeting and the transitions the  *)
(* meeting store makes on it (meeting_finalization.go:159-549).  Every     *)
(* operator maps a receipt to the receipt the store persists; which actor  *)
(* may apply it, and what happens when the persist fails, is the business  *)
(* of MeetingFinalization.                                                 *)
(*                                                                         *)
(* A source high-water is abstracted to the exact set of transcript rows   *)
(* whose manifest digest it carries: two high-waters are equal exactly     *)
(* when the row sets are.  A stage's output binding is the number of the   *)
(* generation that produced the bound output, 0 when there is none.        *)
(***************************************************************************)
EXTENDS Naturals

CONSTANT Row        \* transcript rows (one id, text and metadata each)

Source == SUBSET Row

Stage == [st : {"pending", "complete", "degraded"}, out : Nat]
Pending == [st |-> "pending", out |-> 0]

StageName == {"brain", "digest", "actions"}

\* retryable: LastError is a retryable code, so RetryAfter is set.
\* synced: ArchiveSyncedAt is set.
Receipt == [state    : {"closing", "finalized", "degraded"},
            src      : Source,       obs    : Nat,
            srcObs   : Nat,          stage  : [StageName -> Stage],
            retryable : BOOLEAN,     synced : BOOLEAN]

NewReceipt(source, revision) ==
  [state |-> "closing", src |-> source, obs |-> revision, srcObs |-> revision,
   stage |-> [n \in StageName |-> Pending], retryable |-> FALSE, synced |-> FALSE]

Settled(r) == r.state \in {"finalized", "degraded"}

Ready(r) == r.state = "finalized" /\ \A n \in StageName : r.stage[n].st = "complete"

(***************************************************************************)
(* beginFinalizationAtRevision after its revision check: a new source       *)
(* starts over; the same source is reopened only when something is wrong   *)
(* with what it already holds.                                             *)
(***************************************************************************)
NeedsReopen(r, revision, force) ==
  \/ force
  \/ r.srcObs # revision
  \/ r.state = "degraded"
  \/ r.state = "finalized" /\ ~Ready(r)

Reopened(r, revision, force) ==
  [r EXCEPT !.state = "closing", !.srcObs = revision,
            !.retryable = FALSE, !.synced = FALSE,
            !.stage = [n \in StageName |->
                         IF force \/ r.stage[n].st = "degraded" THEN Pending ELSE r.stage[n]]]

Begun(r, source, revision, force) ==
  IF r.src # source THEN NewReceipt(source, revision)
  ELSE IF NeedsReopen(r, revision, force) THEN Reopened(r, revision, force)
  ELSE r

\* Wrong variants of the next operator: the revision is not advanced; the
\* archive receipt is not withdrawn.
ObservedUncounted(r) ==
  [r EXCEPT !.state = "closing", !.retryable = FALSE, !.synced = FALSE]
ObservedStillSynced(r) ==
  [r EXCEPT !.obs = @ + 1, !.state = "closing", !.retryable = FALSE]

\* observeEndedTranscript: the write-ahead half of every accepted mutation.
Observed(r) ==
  [r EXCEPT !.obs = @ + 1, !.state = "closing", !.retryable = FALSE, !.synced = FALSE]

\* Wrong variant: the receipt's state constant where the stage's belongs.
CompletedAsReceipt(r, name, out) ==
  [r EXCEPT !.stage[name] = [st |-> "finalized", out |-> out]]

\* markFinalizationStage; no source or revision is compared.
Completed(r, name, out) == [r EXCEPT !.stage[name] = [st |-> "complete", out |-> out]]

Degraded(r, name, canRetry) ==
  [r EXCEPT !.stage[name] = [st |-> "degraded", out |-> 0],
            !.state = "degraded", !.synced = FALSE, !.retryable = canRetry]

\* markFinalizationComplete's two refusals, in the order the code tests them.
StagesIncomplete(r, source) ==
  r.src # source \/ \E n \in StageName : r.stage[n].st # "complete"
\* Wrong variant: the claim is made without looking at the revision.
SourceNeverAdvances(r) == FALSE
SourceAdvanced(r) == r.obs # r.srcObs

Finalized(r) == [r EXCEPT !.state = "finalized", !.retryable = FALSE, !.synced = FALSE]

\* markFinalizationArchiveSynced.
Synced(r) == [r EXCEPT !.synced = TRUE]
=============================================================================
