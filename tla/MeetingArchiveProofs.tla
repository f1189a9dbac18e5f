------------------------- MODULE MeetingArchiveProofs -------------------------
(***************************************************************************)
(* The archive file of the close protocol for every value of the           *)
(* constants: it holds what its synced receipt says, and a deleted row is   *)
(* out of it for good once the deletion commits.                           *)
(***************************************************************************)
EXTENDS MeetingFinalizationProofs

\* The file embeds the stored receipt.
Match == archive.state = receipt.state /\ archive.src = receipt.src

\* Somebody vouches, or may vouch with its next step, that the file does.
Vouched == receipt.synced \/ \E p \in holders : wr[p].pc = "mark"

\* A writer holds the archive lock with a receipt copy in its hand.
InFlight(p) == wr[p].pc \in {"write", "truthWrite"}

\* While somebody vouches every copy in flight is the stored receipt, so that
\* the write it ends in changes nothing; a copy held at the stored version is
\* the stored receipt in any case.
SyncInv ==
  /\ receipt.synced => archived
  /\ Vouched => Match
  /\ Vouched /\ mut.pc = "write" => mut.emb = EmbedNow
  /\ \A p \in Writers : InFlight(p) /\ (Vouched \/ p \in holders) => wr[p].emb = EmbedNow
  /\ \A p, q \in Writers : InFlight(p) /\ InFlight(q) => p = q

\* A memory snapshot that still passes the version check, or has passed it, is
\* what memory holds; neither is there once the fence is up, so a committing
\* deletion is the last to have touched the archived rows.
RowsInv ==
  /\ \A p \in Writers : wr[p].pc = "write" => wr[p].mem = transcripts /\ mut.pc # "commit"
  /\ \A p \in holders : wr[p].pc = "lock" => wr[p].mem = transcripts /\ ~Fenced
  /\ mut.pc = "commit" /\ mut.kind = "delete" /\ archived => mut.del \cap archive.mem = {}

FileInv == SyncInv /\ RowsInv

-----------------------------------------------------------------------------
(* Steps that leave the file alone.                                         *)

\* A stored write clears the holders; what it stores is unsynced or embeds the
\* same.  The failed persist of a writer's own mark is among them.
ReceiptTouched ==
  \/ UNCHANGED <<receipt, holders>>
  \/ /\ holders' = {}
     /\ receipt'.synced => receipt.synced /\ EmbedNow' = EmbedNow

\* What the actors other than the archive writers do between two lock regions.
Touched ==
  /\ UNCHANGED <<transcripts, archive>>
  /\ mut' = mut \/ mut'.pc \notin {"lock", "write", "commit"}
  /\ archived' = archived \/ (~receipt'.synced /\ mut'.pc # "commit")
  /\ \A p \in Writers : wr'[p] = wr[p] \/ wr'[p].pc \in {"off", "read"}
  /\ ReceiptTouched

LEMMA TouchedKeeps ==
  ASSUME TypeOK, TypeOK', FileInv, Touched
  PROVE  FileInv'
<1>a. holders \subseteq Writers /\ holders' \subseteq Writers BY DEF TypeOK
<1>b. \A p \in Writers : wr'[p] = wr[p] \/ wr'[p].pc \in {"off", "read"} BY DEF Touched
<1>c. \A p \in holders' : p \in holders BY DEF Touched, ReceiptTouched
<1>1. Vouched' => Vouched /\ EmbedNow' = EmbedNow
  <2>1. CASE UNCHANGED <<receipt, holders>>
    BY <1>a, <1>b, <2>1 DEF Vouched, EmbedNow
  <2>2. CASE holders' = {} /\ (receipt'.synced => receipt.synced /\ EmbedNow' = EmbedNow)
    BY <2>2 DEF Vouched
  <2> QED BY <2>1, <2>2 DEF Touched, ReceiptTouched
<1>2. \A p \in holders' : EmbedNow' = EmbedNow
  BY DEF Touched, ReceiptTouched, EmbedNow
<1>3. SyncInv'
  <2>1. receipt'.synced => archived'
    BY DEF Touched, ReceiptTouched, FileInv, SyncInv
  <2>2. Vouched' => Match'
    <3>1. EmbedNow' = EmbedNow => receipt'.state = receipt.state /\ receipt'.src = receipt.src
      BY DEF EmbedNow
    <3> QED BY <1>1, <3>1 DEF Touched, FileInv, SyncInv, Match
  <2>3. Vouched' /\ mut'.pc = "write" => mut'.emb = EmbedNow'
    BY <1>1 DEF Touched, FileInv, SyncInv
  <2>4. ASSUME NEW p \in Writers, InFlight(p)', Vouched' \/ p \in holders'
        PROVE  wr'[p].emb = EmbedNow'
    <3>1. wr'[p] = wr[p] /\ InFlight(p) BY <1>b, <2>4 DEF InFlight
    <3>2. EmbedNow' = EmbedNow /\ (Vouched \/ p \in holders) BY <1>1, <1>2, <1>c, <2>4
    <3> QED BY <3>1, <3>2 DEF FileInv, SyncInv
  <2>5. \A p, q \in Writers : InFlight(p)' /\ InFlight(q)' => p = q
    BY <1>b DEF InFlight, FileInv, SyncInv
  <2> QED BY <2>1, <2>2, <2>3, <2>4, <2>5 DEF SyncInv
<1>4. RowsInv'
  <2>1. \A p \in Writers : wr'[p].pc = "write" => wr'[p].mem = transcripts' /\ mut'.pc # "commit"
    BY <1>b DEF Touched, FileInv, RowsInv
  <2>2. \A p \in holders' : wr'[p].pc = "lock" => wr'[p].mem = transcripts' /\ ~Fenced'
    BY <1>a, <1>b, <1>c DEF Touched, FileInv, RowsInv, Fenced
  <2>3. mut'.pc = "commit" /\ mut'.kind = "delete" /\ archived' => mut'.del \cap archive'.mem = {}
    BY DEF Touched, FileInv, RowsInv
  <2> QED BY <2>1, <2>2, <2>3 DEF RowsInv
<1> QED BY <1>3, <1>4 DEF FileInv

\* The receipts the store writes, by what they keep.
LEMMA UnsyncedWrites ==
  ASSUME NEW r \in Receipt, NEW s \in Source, NEW k \in Nat, NEW f \in BOOLEAN,
         NEW n \in StageName
  PROVE  /\ ~NewReceipt(s, k).synced /\ ~Observed(r).synced /\ ~Finalized(r).synced
         /\ ~Degraded(r, n, f).synced
         /\ Begun(r, s, k, f) = r \/ ~Begun(r, s, k, f).synced
         /\ LET c == Completed(r, n, k)
            IN  c.synced = r.synced /\ c.state = r.state /\ c.src = r.src
<1>1. ~NewReceipt(s, k).synced BY DEF NewReceipt
<1>2. ~Observed(r).synced BY DEF Observed, Receipt
<1>3. ~Finalized(r).synced BY DEF Finalized, Receipt
<1>4. ~Degraded(r, n, f).synced BY DEF Degraded, Receipt
<1>5. ~Reopened(r, k, f).synced BY DEF Reopened, Receipt
<1>6. Begun(r, s, k, f) = r \/ ~Begun(r, s, k, f).synced BY <1>1, <1>5 DEF Begun
<1>7. /\ Completed(r, n, k).synced = r.synced /\ Completed(r, n, k).state = r.state
      /\ Completed(r, n, k).src = r.src
  BY DEF Completed, Receipt
<1> QED BY <1>1, <1>2, <1>3, <1>4, <1>6, <1>7

\* A persist that lands, fails, or is skipped.
LEMMA PersistTouches ==
  ASSUME NEW r, Persist(r) \/ PersistFails(r) \/ UNCHANGED <<recVars, faults>>,
         \/ ~r.synced
         \/ r.synced = receipt.synced /\ r.state = receipt.state /\ r.src = receipt.src
  PROVE  ReceiptTouched
<1>1. UNCHANGED <<receipt, holders>> \/ (receipt' = r /\ holders' = {})
  BY DEF Persist, PersistFails, Stamp, recVars
<1>2. CASE receipt' = r /\ holders' = {}
  BY <1>2 DEF ReceiptTouched, EmbedNow
<1> QED BY <1>1, <1>2 DEF ReceiptTouched

LEMMA DegradeTouches ==
  ASSUME TypeOK, NEW n \in StageName, NEW f \in BOOLEAN, Degrade(n, f)
  PROVE  ReceiptTouched
<1>1. receipt \in Receipt /\ {} \in Source /\ 0 \in Nat BY DEF TypeOK, Source
<1>2. ~Degraded(receipt, n, f).synced BY <1>1, UnsyncedWrites
<1> QED BY <1>2, PersistTouches DEF Degrade

LEMMA MarkTouches ==
  ASSUME TypeOK, NEW n \in StageName, NEW next, FzMark(n, fz.out, next)
  PROVE  ReceiptTouched
<1>1. receipt \in Receipt /\ {} \in Source /\ fz.out \in Nat BY DEF TypeOK, Source, FzState
<1>2. LET c == Completed(receipt, n, fz.out)
      IN  c.synced = receipt.synced /\ c.state = receipt.state /\ c.src = receipt.src
  BY <1>1, UnsyncedWrites
<1> QED BY <1>2, PersistTouches DEF FzMark

LEMMA BeginTouches ==
  ASSUME TypeOK, NEW s \in Source, NEW k \in Nat, NEW f \in BOOLEAN,
         \/ Persist(Begun(receipt, s, k, f)) \/ PersistFails(Begun(receipt, s, k, f))
         \/ UNCHANGED <<recVars, faults>>
  PROVE  ReceiptTouched
<1>1. receipt \in Receipt /\ "brain" \in StageName BY DEF TypeOK, StageName
<1>2. Begun(receipt, s, k, f) = receipt \/ ~Begun(receipt, s, k, f).synced
  BY <1>1, UnsyncedWrites
<1> QED BY <1>2, PersistTouches

\* The finalizer: every receipt it stores is new to the file, but for a
\* completed stage, which changes nothing the file embeds.
LEMMA FzTouched ==
  ASSUME TypeOK, FzStep
  PROVE  Touched
<1>a. fz.src \in Source /\ fz.rev \in Nat BY DEF TypeOK, FzState
<1>b. "brain" \in StageName /\ "digest" \in StageName /\ "actions" \in StageName BY DEF StageName
<1>1. UNCHANGED <<receipt, holders>> => ReceiptTouched BY DEF ReceiptTouched
<1>2. \A n \in StageName, f \in BOOLEAN : Degrade(n, f) => ReceiptTouched BY DegradeTouches
<1>3. ReceiptTouched
  <2>1. CASE FzStart \/ FzObserve \/ FzSnapshot \/ FzVerify \/ FzResnapshot \/ FzCancel \/ FzFinish
    BY <1>1, <2>1 DEF FzStart, FzObserve, FzSnapshot, FzVerify, FzResnapshot, FzCancel, FzFinish, recVars
  <2>2. CASE FzBegin \/ FzForce \/ FzRebegin
    BY <1>a, <2>2, BeginTouches DEF FzBegin, FzForce, FzRebegin, FzBeginAt
  <2>3. CASE FzBrain \/ FzCallBrain \/ FzDigest \/ FzCallDigest \/ FzExhausted
    BY <1>b, <1>1, <1>2, <2>3 DEF FzBrain, FzCallBrain, FzDigest, FzCallDigest, FzExhausted, recVars
  <2>4. CASE FzMarkBrain \/ FzMarkDigest \/ FzMarkActions
    BY <1>b, <1>2, <2>4, MarkTouches DEF FzMarkBrain, FzMarkDigest, FzMarkActions
  <2>5. CASE FzComplete
    <3>1. receipt \in Receipt /\ {} \in Source /\ 0 \in Nat BY DEF TypeOK, Source
    <3>2. ~Finalized(receipt).synced BY <1>b, <3>1, UnsyncedWrites
    <3> QED BY <2>5, <3>2, PersistTouches DEF FzComplete
  <2> QED BY <2>1, <2>2, <2>3, <2>4, <2>5 DEF FzStep
<1>4. \A p \in Writers : wr'[p] = wr[p] \/ wr'[p].pc = "read"
  BY FzWr DEF WrStarts, TypeOK, WrState
<1> QED BY <1>3, <1>4, FzFrames DEF Touched

LEMMA RetryTouched ==
  ASSUME RetryStep
  PROVE  Touched
BY DEF RetryStep, RetryRead, RetryArm, RetryFire, RetryCheck, Touched, ReceiptTouched, memVars, endVars

\* The boot audit: a begin, or the start of a refresh.
LEMMA AuditTouched ==
  ASSUME TypeOK, AuditStep
  PROVE  Touched
<1>a. audit.src \in Source /\ audit.rev \in Nat /\ wr \in [Writers -> WrState]
  BY DEF TypeOK, AuditState
<1>1. UNCHANGED <<transcripts, archived, archive, mut>>
  BY DEF AuditStep, AuditFrame, memVars, endVars, AuditObserve, AuditSnapshot, AuditCheck,
         AuditRefreshed, AuditBegin, AuditSchedule
<1>2. ReceiptTouched
  <2>1. CASE AuditBegin BY <1>a, <2>1, BeginTouches DEF AuditBegin, recVars
  <2>2. CASE ~AuditBegin
    BY <2>2 DEF AuditStep, AuditObserve, AuditSnapshot, AuditCheck, AuditRefreshed, AuditSchedule,
           ReceiptTouched, recVars
  <2> QED BY <2>1, <2>2
<1>3. wr' = wr \/ wr' = [wr EXCEPT !["audit"].pc = "read"]
  BY DEF AuditStep, AuditObserve, AuditSnapshot, AuditCheck, AuditRefreshed, AuditBegin, AuditSchedule
<1>4. \A p \in Writers : wr'[p] = wr[p] \/ wr'[p].pc = "read" BY <1>a, <1>3 DEF WrState
<1> QED BY <1>1, <1>2, <1>4 DEF Touched

\* A restart loses every actor; a meeting it ends has no archive.
LEMMA RestartTouched ==
  ASSUME Restart
  PROVE  Touched
<1>1. UNCHANGED <<transcripts, archive>> BY DEF Restart, memVars
<1>2. /\ mut' = NoMut /\ wr' = [p \in Writers |-> NoWr] /\ holders' = {}
      /\ \/ UNCHANGED <<archived, receipt>>
         \/ receipt' = NewReceipt(transcripts, 0)
  BY DEF Restart, endVars
<1>3. mut'.pc = "off" /\ \A p \in Writers : wr'[p].pc = "off" BY <1>2 DEF NoMut, NoWr
<1>4. archived' = archived \/ ~receipt'.synced BY <1>2 DEF NewReceipt
<1>5. ReceiptTouched
  <2>1. CASE receipt' = receipt BY <1>2, <2>1 DEF ReceiptTouched, EmbedNow
  <2>2. CASE receipt' = NewReceipt(transcripts, 0)
    BY <1>2, <2>2 DEF ReceiptTouched, NewReceipt
  <2> QED BY <1>2, <2>1, <2>2
<1> QED BY <1>1, <1>3, <1>4, <1>5 DEF Touched

-----------------------------------------------------------------------------
(* Mutations.                                                               *)

\* A mutation that begins, is refused by its fence, or runs its hook.
LEMMA MutTouched ==
  ASSUME TypeOK,
         \/ MutStart \/ Tamper \/ MutHook
         \/ MutFence /\ mut'.pc \in {"hook", "off"}
  PROVE  Touched
<1>1. CASE MutStart \/ Tamper \/ MutHook
  <2>1. CASE MutStart
    <3>1. PICK kind \in {"append", "correct", "delete"}, del \in SUBSET Row, add \in SUBSET Row :
            MutBegin(kind, del, add)
      BY <2>1 DEF MutStart
    <3>2. mut'.pc = "fence" BY <3>1 DEF MutBegin, NoMut
    <3>3. UNCHANGED <<transcripts, archive, archived, wr, receipt, holders>>
      BY <3>1 DEF MutBegin, memVars, recVars, endVars
    <3> QED BY <3>2, <3>3 DEF Touched, ReceiptTouched
  <2>2. CASE Tamper
    BY <2>2 DEF Tamper, TamperBrain, TamperDigest, Touched, ReceiptTouched, endVars
  <2>3. CASE MutHook
    BY <2>3 DEF MutHook, NoMut, Touched, ReceiptTouched, memVars, endVars
  <2> QED BY <1>1, <2>1, <2>2, <2>3
<1>2. CASE MutFence /\ mut'.pc \in {"hook", "off"}
  <2>1. receipt \in Receipt /\ {} \in Source /\ 0 \in Nat /\ "brain" \in StageName
    BY DEF TypeOK, Source, StageName
  <2>2. ~Observed(receipt).synced BY <2>1, UnsyncedWrites
  <2>3. ReceiptTouched BY <1>2, <2>2, PersistTouches DEF MutFence
  <2>4. UNCHANGED <<transcripts, archived, archive, wr>> BY <1>2 DEF MutFence, memVars, endVars
  <2> QED BY <1>2, <2>3, <2>4 DEF Touched
<1> QED BY <1>1, <1>2

\* The fence: no snapshot taken so far passes the version check any more, and
\* no copy in flight vouches for anything.
LEMMA FenceFile ==
  ASSUME TypeOK, IInv, FileInv, MutFence, mut'.pc \notin {"hook", "off"}
  PROVE  FileInv'
<1>a. receipt \in Receipt /\ {} \in Source /\ 0 \in Nat /\ "brain" \in StageName /\ mut \in MutState
  BY DEF TypeOK, Source, StageName
<1>b. UNCHANGED <<transcripts, archived, archive, wr>> BY DEF MutFence, memVars, endVars
<1>1. mut'.pc \in {"lock", "commit"} /\ (mut'.pc = "commit" => ~archived)
  <2>1. ~ended => ~archived BY DEF IInv, OpenInv
  <2> QED BY <1>a, <2>1 DEF MutFence, FenceRefused, NoMut, MutState
<1>2. \/ archived /\ ~receipt'.synced /\ holders' = {}
      \/ ~archived /\ ~receipt'.synced
  <2>1. ~Observed(receipt).synced BY <1>a, UnsyncedWrites
  <2>2. \/ receipt' = receipt /\ ~ended
        \/ receipt' = Observed(receipt) /\ holders' = {}
    <3>1. FenceRefused => mut'.pc \in {"hook", "off"} BY <1>a DEF FenceRefused, NoMut, MutState
    <3> QED BY <3>1 DEF MutFence, Persist, Stamp, recVars
  <2>3. ~ended => ~archived /\ ~receipt.synced BY DEF IInv, OpenInv, FileInv, SyncInv
  <2> QED BY <2>1, <2>2, <2>3
<1>3. CASE archived /\ ~receipt'.synced /\ holders' = {}
  <2>1. ~Vouched' BY <1>3 DEF Vouched
  <2>2. SyncInv' BY <1>b, <1>3, <2>1 DEF FileInv, SyncInv, InFlight
  <2>3. RowsInv' BY <1>b, <1>1, <1>3 DEF FileInv, RowsInv
  <2> QED BY <2>2, <2>3 DEF FileInv
\* Without an archive there is no writer past its first look.
<1>4. CASE ~archived /\ ~receipt'.synced
  <2>1. \A p \in Writers : wr'[p].pc \in {"off", "read"} BY <1>b, <1>4 DEF IInv, ArchiveInv
  <2>2. holders' \subseteq Writers BY <1>a DEF TypeOK, MutFence, Persist, Stamp, recVars, PersistFails
  <2>3. ~Vouched' BY <1>4, <2>1, <2>2 DEF Vouched
  <2>4. SyncInv' BY <1>4, <2>1, <2>3 DEF SyncInv, InFlight
  <2>5. RowsInv' BY <1>b, <1>4, <2>1, <2>2 DEF RowsInv
  <2> QED BY <2>4, <2>5 DEF FileInv
<1> QED BY <1>2, <1>3, <1>4

\* The downgrade under the archive lock, and the commit it makes room for.
LEMMA MutFile ==
  ASSUME TypeOK, IInv, FileInv, MutLock \/ MutWrite \/ MutCommit
  PROVE  FileInv'
<1>a. mut \in MutState /\ holders \subseteq Writers BY DEF TypeOK
<1>b. UNCHANGED <<receipt, holders, archived, wr>>
  BY DEF MutLock, MutWrite, MutCommit, recVars, endVars
<1>c. (Vouched' <=> Vouched) /\ EmbedNow' = EmbedNow BY <1>b DEF Vouched, EmbedNow
<1>1. CASE MutLock
  <2>1. /\ mut.pc = "lock" /\ mut'.pc = "write" /\ mut'.emb = EmbedNow
        /\ UNCHANGED <<transcripts, archive>>
    BY <1>a, <1>1 DEF MutLock, MutState, memVars
  <2>2. SyncInv' BY <1>b, <1>c, <2>1 DEF FileInv, SyncInv, Match, InFlight
  <2>3. RowsInv' BY <1>b, <2>1 DEF FileInv, RowsInv, Fenced
  <2> QED BY <2>2, <2>3 DEF FileInv
<1>2. CASE MutWrite
  <2>1. /\ mut.pc = "write" /\ mut'.pc \in {"commit", "hook", "off"}
        /\ UNCHANGED transcripts
        /\ mut'.pc = "commit" => mut'.del = mut.del /\ mut'.kind = mut.kind
        /\ \/ archive' = archive /\ mut'.pc # "commit"
           \/ /\ archive'.state = mut.emb.state /\ archive'.src = mut.emb.src
              /\ archive'.mem = IF mut.kind = "delete" THEN archive.mem \ mut.del ELSE archive.mem
    <3>1. FenceRefused => mut'.pc \in {"hook", "off"} BY <1>a DEF FenceRefused, NoMut, MutState
    <3>2. mut' = [mut EXCEPT !.pc = "commit"] =>
            mut'.pc = "commit" /\ mut'.del = mut.del /\ mut'.kind = mut.kind
      BY <1>a DEF MutState
    <3> QED BY <1>2, <3>1, <3>2 DEF MutWrite, ArchiveFails, memVars
  <2>2. \A p \in Writers : ~InFlight(p) BY <2>1 DEF IInv, ArchiveInv, InFlight
  <2>3. Vouched => Match'
    <3>1. Vouched => mut.emb = EmbedNow /\ Match BY <2>1 DEF FileInv, SyncInv
    <3> QED BY <1>b, <2>1, <3>1 DEF Match, EmbedNow
  <2>4. SyncInv' BY <1>b, <1>c, <2>1, <2>2, <2>3 DEF FileInv, SyncInv, InFlight
  <2>5. RowsInv' BY <1>b, <2>1, <2>2 DEF FileInv, RowsInv, Fenced, InFlight
  <2> QED BY <2>4, <2>5 DEF FileInv
<1>3. CASE MutCommit
  <2>1. mut.pc = "commit" /\ mut'.pc = "hook" /\ UNCHANGED archive
    BY <1>a, <1>3 DEF MutCommit, MutState
  <2>2. SyncInv' BY <1>b, <1>c, <2>1 DEF FileInv, SyncInv, Match, InFlight
  <2>3. Fenced BY <2>1 DEF Fenced
  <2>4. RowsInv' BY <1>a, <1>b, <2>1, <2>3 DEF FileInv, RowsInv
  <2> QED BY <2>2, <2>4 DEF FileInv
<1> QED BY <1>1, <1>2, <1>3

-----------------------------------------------------------------------------
(* The close paths.                                                         *)

\* A close step that neither writes the file nor starts the manual rewrite.
LEMMA CloseTouched ==
  ASSUME TypeOK, IInv, FileInv, CloseStart \/ CloseStep, ~CloseTruth, archive' = archive
  PROVE  Touched
<1>1. UNCHANGED <<transcripts, mut>>
  BY DEF CloseStart, CloseBegin, CloseStep, CloseFrame, CloseSnap, ClosePrewrite, CloseEnd, CloseArchive,
         CloseStamp, CloseTruth, CloseMarked, ClosePublish, CloseClear, memVars
<1>2. wr' = wr
  BY DEF CloseStart, CloseBegin, CloseStep, CloseSnap, ClosePrewrite, CloseEnd, CloseArchive,
         CloseStamp, CloseMarked, ClosePublish, CloseClear
<1>3. CASE CloseEnd
  <2>1. ~ended /\ mut.pc = "off" BY <1>3 DEF CloseEnd, IInv, LifecycleInv, LifecycleFree
  <2>2. \/ receipt' = NewReceipt(closer.src, 0) /\ holders' = {}
        \/ UNCHANGED <<receipt, holders, archived>>
    BY <1>3 DEF CloseEnd, Persist, Stamp, recVars, endVars
  <2>3. ~NewReceipt(closer.src, 0).synced BY DEF NewReceipt
  <2> QED BY <1>1, <1>2, <2>1, <2>2, <2>3 DEF Touched, ReceiptTouched
<1>4. CASE CloseStamp
  <2>1. ~archived /\ mut.pc = "off" BY <1>4 DEF CloseStamp, IInv, LifecycleInv, LifecycleFree
  <2>2. UNCHANGED <<receipt, holders>> /\ ~receipt.synced
    BY <1>4, <2>1 DEF CloseStamp, recVars, FileInv, SyncInv
  <2> QED BY <1>1, <1>2, <2>1, <2>2 DEF Touched, ReceiptTouched
<1>5. CASE ~CloseEnd /\ ~CloseStamp
  <2>1. UNCHANGED <<receipt, holders, archived>>
    BY <1>5 DEF CloseStart, CloseBegin, CloseStep, CloseSnap, ClosePrewrite, CloseArchive,
           CloseMarked, ClosePublish, CloseClear, recVars, endVars
  <2> QED BY <1>1, <1>2, <2>1 DEF Touched, ReceiptTouched
<1> QED BY <1>3, <1>4, <1>5

\* The two close paths write the file when nobody else may and nobody vouches.
LEMMA CloseFile ==
  ASSUME TypeOK, IInv, FileInv, ClosePrewrite \/ CloseArchive
  PROVE  FileInv'
<1>1. UNCHANGED <<transcripts, receipt, holders, archived, wr, mut>>
  BY DEF ClosePrewrite, CloseArchive, CloseFrame, memVars, recVars, endVars
<1>2. ~archived /\ mut.pc = "off"
  BY DEF ClosePrewrite, CloseArchive, IInv, LifecycleInv, LifecycleFree, OpenInv
<1>3. \A p \in Writers : wr[p].pc \in {"off", "read"} BY <1>2 DEF IInv, ArchiveInv
<1>4. holders \subseteq Writers BY DEF TypeOK
<1>5. ~Vouched' BY <1>1, <1>2, <1>3, <1>4 DEF Vouched, FileInv, SyncInv
<1>6. SyncInv' BY <1>1, <1>3, <1>5 DEF FileInv, SyncInv, InFlight
<1>7. RowsInv' BY <1>1, <1>2, <1>3, <1>4 DEF RowsInv
<1> QED BY <1>6, <1>7 DEF FileInv

\* The manual rewrite starts from the stored receipt.
LEMMA TruthFile ==
  ASSUME TypeOK, IInv, FileInv, CloseTruth
  PROVE  FileInv'
<1>a. wr \in [Writers -> WrState] /\ holders \subseteq Writers /\ "manual" \in Writers
  BY DEF TypeOK, Writers
<1>1. UNCHANGED <<transcripts, receipt, archived, archive, mut>> /\ holders' = holders \cup {"manual"}
  BY DEF CloseTruth, CloseFrame, memVars, endVars
<1>2. wr'["manual"].pc = "truthLock" /\ \A p \in Writers : p # "manual" => wr'[p] = wr[p]
  BY <1>a DEF CloseTruth, NoWr
<1>3. Vouched' => Vouched BY <1>a, <1>1, <1>2 DEF Vouched
<1>4. \A p \in Writers : InFlight(p)' => p # "manual" /\ InFlight(p) BY <1>2 DEF InFlight
<1>5. EmbedNow' = EmbedNow /\ (Match' <=> Match) BY <1>1 DEF EmbedNow, Match
<1>6. SyncInv' BY <1>1, <1>2, <1>3, <1>4, <1>5 DEF FileInv, SyncInv
<1>7. RowsInv' BY <1>a, <1>1, <1>2 DEF FileInv, RowsInv, Fenced
<1> QED BY <1>6, <1>7 DEF FileInv

-----------------------------------------------------------------------------
(* The archive writers.                                                     *)

\* What every step of one writer leaves alone.
LEMMA WrFrames ==
  ASSUME TypeOK, NEW p \in Writers, WrStep(p)
  PROVE  /\ UNCHANGED <<transcripts, archived, mut>>
         /\ \A q \in Writers : q # p => wr'[q] = wr[q]
         /\ \A q \in holders' : q = p \/ q \in holders
<1>1. UNCHANGED <<transcripts, archived, mut>>
  BY DEF WrStep, WrFrame, memVars, endVars, WrRead, WrSnap, WrLock, WrWrite, WrMark, WrTruthLock, WrTruthWrite
<1>2. wr \in [Writers -> WrState] BY DEF TypeOK
<1>3. \A q \in Writers : q # p => wr'[q] = wr[q]
  BY <1>2 DEF WrStep, WrRead, WrTo, WrSnap, WrLock, WrWrite, WrMark, WrRepair, WrTruthLock, WrTruthWrite
<1>4. \A q \in holders' : q = p \/ q \in holders
  BY DEF WrStep, WrRead, WrSnap, WrLock, WrWrite, WrMark, WrTruthLock, WrTruthWrite, Stamp, recVars
<1> QED BY <1>1, <1>3, <1>4

\* A step outside the archive lock: nobody new vouches, nobody new is in
\* flight, and a snapshot is taken while no mutation holds memory.mu.
LEMMA WrOutside ==
  ASSUME TypeOK, IInv, FileInv, NEW p \in Writers, WrRead(p) \/ WrSnap(p)
  PROVE  FileInv'
<1>a. wr \in [Writers -> WrState] /\ holders \subseteq Writers BY DEF TypeOK
<1>b. /\ UNCHANGED <<transcripts, archived, mut>>
      /\ \A q \in Writers : q # p => wr'[q] = wr[q]
      /\ \A q \in holders' : q = p \/ q \in holders
  BY WrFrames DEF WrStep
<1>1. UNCHANGED <<receipt, archive>> BY DEF WrRead, WrSnap, recVars
<1>2. /\ wr'[p].pc \in {"off", "snap", "lock"}
      /\ wr'[p].pc = "lock" => mut.pc = "off" /\ wr'[p].mem = transcripts
  BY <1>a DEF WrRead, WrSnap, WrTo, MemFree, WrState
<1>3. Vouched' => Vouched BY <1>a, <1>b, <1>1, <1>2 DEF Vouched
<1>4. \A q \in Writers : InFlight(q)' => q # p /\ InFlight(q) BY <1>b, <1>2 DEF InFlight
<1>5. EmbedNow' = EmbedNow /\ (Match' <=> Match) BY <1>1 DEF EmbedNow, Match
<1>6. SyncInv' BY <1>b, <1>1, <1>3, <1>4, <1>5 DEF FileInv, SyncInv
<1>7. RowsInv'
  <2>1. \A q \in Writers : wr'[q].pc = "write" => wr'[q].mem = transcripts' /\ mut'.pc # "commit"
    BY <1>b, <1>2 DEF FileInv, RowsInv
  <2>2. ASSUME NEW q \in holders', wr'[q].pc = "lock"
        PROVE  wr'[q].mem = transcripts' /\ ~Fenced'
    <3>1. CASE q = p BY <1>b, <1>2, <2>2, <3>1 DEF Fenced
    <3>2. CASE q # p BY <1>a, <1>b, <2>2, <3>2 DEF FileInv, RowsInv, Fenced
    <3> QED BY <3>1, <3>2
  <2> QED BY <1>b, <1>1, <2>1, <2>2 DEF FileInv, RowsInv
<1> QED BY <1>6, <1>7 DEF FileInv

\* Taking the archive lock: the copy is read under it, the version check has
\* rejected every snapshot a fence has crossed.
LEMMA WrLocks ==
  ASSUME TypeOK, IInv, FileInv, NEW p \in Writers, WrLock(p) \/ WrTruthLock(p)
  PROVE  FileInv'
<1>a. wr \in [Writers -> WrState] /\ holders \subseteq Writers BY DEF TypeOK
<1>b. /\ UNCHANGED <<transcripts, archived, mut>>
      /\ \A q \in Writers : q # p => wr'[q] = wr[q]
  BY WrFrames DEF WrStep
<1>1. UNCHANGED <<receipt, holders, archive>> BY DEF WrLock, WrTruthLock, recVars
<1>2. mut.pc # "write" /\ \A q \in Writers : ~InFlight(q)
  BY DEF WrLock, WrTruthLock, ArchiveFree, InFlight
<1>3. \/ /\ wr'[p].pc = "write" /\ wr'[p].emb = EmbedNow /\ wr'[p].mem = wr[p].mem
         /\ wr[p].pc = "lock" /\ p \in holders
      \/ wr'[p].pc = "truthWrite" /\ wr'[p].emb = EmbedNow
      \/ wr'[p].pc = "off"
  <2>1. ASSUME NEW w \in WrState
        PROVE  /\ LET x == [w EXCEPT !.pc = "write", !.emb = EmbedNow]
                  IN  x.pc = "write" /\ x.emb = EmbedNow /\ x.mem = w.mem
               /\ LET x == [w EXCEPT !.pc = "truthWrite", !.emb = EmbedNow]
                  IN  x.pc = "truthWrite" /\ x.emb = EmbedNow
    BY DEF WrState
  <2>2. wr[p] \in WrState /\ NoWr.pc = "off" BY <1>a DEF NoWr
  <2>3. CASE WrLock(p)
    <3>1. /\ wr[p].pc = "lock"
          /\ \/ p \in holders /\ wr' = [wr EXCEPT ![p] = [wr[p] EXCEPT !.pc = "write", !.emb = EmbedNow]]
             \/ wr' = [wr EXCEPT ![p] = NoWr]
      BY <2>3 DEF WrLock
    <3>2. \/ p \in holders /\ wr'[p] = [wr[p] EXCEPT !.pc = "write", !.emb = EmbedNow]
          \/ wr'[p] = NoWr
      BY <1>a, <3>1
    <3> QED BY <2>1, <2>2, <3>1, <3>2
  <2>4. CASE WrTruthLock(p)
    <3>1. wr'[p] = [wr[p] EXCEPT !.pc = "truthWrite", !.emb = EmbedNow]
      BY <1>a, <2>4 DEF WrTruthLock
    <3> QED BY <2>1, <2>2, <3>1
  <2> QED BY <2>3, <2>4
<1>4. Vouched' => Vouched BY <1>a, <1>b, <1>1, <1>3 DEF Vouched
<1>5. \A q \in Writers : InFlight(q)' => q = p /\ wr'[p].emb = EmbedNow
  BY <1>b, <1>2, <1>3 DEF InFlight
<1>6. EmbedNow' = EmbedNow /\ (Match' <=> Match) BY <1>1 DEF EmbedNow, Match
<1>7. SyncInv' BY <1>b, <1>1, <1>2, <1>4, <1>5, <1>6 DEF FileInv, SyncInv
<1>8. RowsInv'
  <2>1. ASSUME NEW q \in Writers, wr'[q].pc = "write"
        PROVE  wr'[q].mem = transcripts' /\ mut'.pc # "commit"
    <3>1. CASE q = p BY <1>b, <1>3, <2>1, <3>1 DEF FileInv, RowsInv, Fenced
    <3>2. CASE q # p BY <1>b, <2>1, <3>2 DEF FileInv, RowsInv
    <3> QED BY <3>1, <3>2
  <2>2. \A q \in holders' : wr'[q].pc = "lock" => wr'[q].mem = transcripts' /\ ~Fenced'
    BY <1>a, <1>b, <1>1, <1>3 DEF FileInv, RowsInv, Fenced
  <2> QED BY <1>b, <1>1, <2>1, <2>2 DEF FileInv, RowsInv
<1> QED BY <1>7, <1>8 DEF FileInv

\* The write itself: whoever vouches afterwards holds the stored receipt, and
\* that is what has just been written.
LEMMA WrWrites ==
  ASSUME TypeOK, IInv, FileInv, NEW p \in Writers, WrWrite(p) \/ WrTruthWrite(p)
  PROVE  FileInv'
<1>a. /\ wr \in [Writers -> WrState] /\ holders \subseteq Writers
      /\ archive \in [state : {"closing", "finalized", "degraded"}, src : Source, mem : Source]
  BY DEF TypeOK
<1>b. /\ UNCHANGED <<transcripts, archived, mut>>
      /\ \A q \in Writers : q # p => wr'[q] = wr[q]
  BY WrFrames DEF WrStep
<1>1. UNCHANGED <<receipt, holders>> BY DEF WrWrite, WrTruthWrite, recVars
<1>2. /\ InFlight(p)
      /\ \/ archive' = archive /\ wr'[p].pc = "off"
         \/ /\ archive'.state = wr[p].emb.state /\ archive'.src = wr[p].emb.src
            /\ wr'[p].pc \in {"off", "mark"}
            /\ \/ archive'.mem = archive.mem
               \/ archive'.mem = wr[p].mem /\ wr[p].pc = "write"
  <2>1. NoWr.pc = "off" BY DEF NoWr
  <2>2. CASE WrWrite(p)
    <3>1. WrTo(p, "mark") => wr'[p].pc = "mark" BY <1>a DEF WrTo, WrState
    <3>2. wr' = [wr EXCEPT ![p] = NoWr] => wr'[p].pc = "off" BY <1>a, <2>1
    <3> QED BY <2>2, <3>1, <3>2 DEF WrWrite, ArchiveFails, InFlight
  <2>3. CASE WrTruthWrite(p)
    <3>1. wr[p].pc = "truthWrite" /\ wr[p].next \in {"off", "mark"}
      BY <1>a, <2>3 DEF WrTruthWrite, WrState
    <3>2. wr' = [wr EXCEPT ![p] = [NoWr EXCEPT !.pc = wr[p].next]] => wr'[p].pc \in {"off", "mark"}
      BY <1>a, <3>1 DEF NoWr
    <3>3. wr' = [wr EXCEPT ![p] = NoWr] => wr'[p].pc = "off" BY <1>a, <2>1
    <3>4. archive' = [archive EXCEPT !.state = wr[p].emb.state, !.src = wr[p].emb.src] =>
            archive'.state = wr[p].emb.state /\ archive'.src = wr[p].emb.src /\ archive'.mem = archive.mem
      BY <1>a
    <3> QED BY <2>3, <3>1, <3>2, <3>3, <3>4 DEF WrTruthWrite, ArchiveFails, InFlight
  <2> QED BY <2>2, <2>3
<1>3. \A q \in Writers : InFlight(q) => q = p BY <1>2 DEF FileInv, SyncInv
<1>4. mut.pc # "write" BY <1>2 DEF IInv, ArchiveInv, InFlight
<1>5. \A q \in Writers : ~InFlight(q)'
  <2>1. ~InFlight(p)' BY <1>2 DEF InFlight
  <2>2. \A q \in Writers : q # p => ~InFlight(q)' BY <1>b, <1>3 DEF InFlight
  <2> QED BY <2>1, <2>2
\* A new voucher is p itself, at the stored version.
<1>6. Vouched' => Match' /\ archived'
  <2>1. SUFFICES ASSUME Vouched' PROVE Match' /\ archived' OBVIOUS
  <2>2. archived' BY <1>b, <1>2 DEF IInv, ArchiveInv, InFlight
  <2>3. CASE archive' = archive /\ wr'[p].pc = "off"
    <3>1. Vouched BY <1>a, <1>b, <1>1, <2>1, <2>3 DEF Vouched
    <3> QED BY <1>1, <2>2, <2>3, <3>1 DEF Match, FileInv, SyncInv
  <2>4. CASE archive'.state = wr[p].emb.state /\ archive'.src = wr[p].emb.src
    <3>1. Vouched \/ p \in holders BY <1>a, <1>b, <1>1, <2>1 DEF Vouched
    <3>2. wr[p].emb = EmbedNow BY <1>2, <3>1 DEF FileInv, SyncInv
    <3> QED BY <1>1, <2>2, <2>4, <3>2 DEF Match, EmbedNow
  <2> QED BY <1>2, <2>3, <2>4
<1>7. SyncInv' BY <1>b, <1>4, <1>5, <1>6 DEF SyncInv, Vouched
<1>8. RowsInv'
  <2>1. mut.pc = "commit" => wr[p].pc # "write" BY DEF FileInv, RowsInv
  <2>2. mut.pc = "commit" => archive'.mem = archive.mem BY <1>2, <2>1
  <2>3. \A q \in holders' : wr'[q].pc = "lock" => wr'[q].mem = transcripts' /\ ~Fenced'
    BY <1>a, <1>b, <1>1, <1>2 DEF FileInv, RowsInv, Fenced
  <2>4. \A q \in Writers : wr'[q].pc # "write" BY <1>5 DEF InFlight
  <2> QED BY <1>b, <2>2, <2>3, <2>4 DEF FileInv, RowsInv
<1> QED BY <1>7, <1>8 DEF FileInv

\* The mark: the version is still the one that was written, so the receipt may
\* say so; otherwise the file is rewritten from the stored receipt.
LEMMA WrMarks ==
  ASSUME TypeOK, IInv, FileInv, NEW p \in Writers, WrMark(p)
  PROVE  FileInv'
<1>a. wr \in [Writers -> WrState] /\ holders \subseteq Writers /\ receipt \in Receipt
  BY DEF TypeOK
<1>b. /\ UNCHANGED <<transcripts, archived, mut>>
      /\ \A q \in Writers : q # p => wr'[q] = wr[q]
  BY WrFrames DEF WrStep
<1>1. archive' = archive /\ wr[p].pc = "mark" /\ archived
  BY DEF WrMark, IInv, ArchiveInv
<1>2. wr'[p].pc \in {"off", "truthLock"} BY <1>a DEF WrMark, WrRepair, NoWr
<1>3. \/ UNCHANGED <<receipt, holders>>
      \/ p \in holders /\ receipt' = Synced(receipt) /\ holders' = {}
  BY DEF WrMark, Stamp, recVars
<1>4. EmbedNow' = EmbedNow /\ (Match' <=> Match)
  <2>1. Synced(receipt).state = receipt.state /\ Synced(receipt).src = receipt.src
    BY <1>a DEF Synced, Receipt
  <2>2. receipt'.state = receipt.state /\ receipt'.src = receipt.src BY <1>3, <2>1
  <2> QED BY <1>1, <2>2 DEF EmbedNow, Match
<1>5. Vouched' => Vouched
  <2>1. CASE UNCHANGED <<receipt, holders>> BY <1>a, <1>b, <1>2, <2>1 DEF Vouched
  <2>2. CASE p \in holders BY <1>1, <2>2 DEF Vouched
  <2> QED BY <1>3, <2>1, <2>2
<1>6. \A q \in Writers : InFlight(q)' => q # p /\ InFlight(q) BY <1>b, <1>2 DEF InFlight
<1>7. \A q \in holders' : q \in holders BY <1>3
<1>8. SyncInv' BY <1>b, <1>1, <1>4, <1>5, <1>6, <1>7 DEF FileInv, SyncInv
<1>9. RowsInv' BY <1>a, <1>b, <1>1, <1>2, <1>7 DEF FileInv, RowsInv, Fenced
<1> QED BY <1>8, <1>9 DEF FileInv

-----------------------------------------------------------------------------
(* The invariant and what follows from it.                                  *)

LEMMA FileInit == Init => FileInv
<1> SUFFICES ASSUME Init PROVE FileInv OBVIOUS
<1>1. receipt = NewReceipt({}, 0) /\ holders = {} /\ mut.pc = "off"
  BY DEF Init, NoMut
<1>2. \A p \in Writers : wr[p].pc = "off" BY DEF Init, NoWr
<1>3. ~receipt.synced BY <1>1 DEF NewReceipt
<1>4. ~Vouched BY <1>1, <1>3 DEF Vouched
<1> QED BY <1>1, <1>2, <1>3, <1>4 DEF FileInv, SyncInv, RowsInv, InFlight

LEMMA FileStep == TypeOK /\ TypeOK' /\ IInv /\ FileInv /\ [Next]_vars => FileInv'
<1> SUFFICES ASSUME TypeOK, TypeOK', IInv, FileInv, [Next]_vars PROVE FileInv' OBVIOUS
<1>1. CASE MutStart \/ Tamper BY <1>1, MutTouched, TouchedKeeps
<1>2. CASE MutStep
  <2>1. CASE MutFence BY <2>1, FenceFile, MutTouched, TouchedKeeps
  <2>2. CASE MutHook BY <2>2, MutTouched, TouchedKeeps
  <2>3. CASE MutLock \/ MutWrite \/ MutCommit BY <2>3, MutFile
  <2> QED BY <1>2, <2>1, <2>2, <2>3 DEF MutStep
<1>3. CASE FzStep BY <1>3, FzTouched, TouchedKeeps
<1>4. CASE RetryStep BY <1>4, RetryTouched, TouchedKeeps
<1>5. ASSUME NEW p \in Writers, WrStep(p) PROVE FileInv'
  BY <1>5, WrOutside, WrLocks, WrWrites, WrMarks DEF WrStep
<1>6. CASE AuditStep BY <1>6, AuditTouched, TouchedKeeps
<1>7. CASE CloseStart \/ CloseStep
  <2>1. CASE CloseTruth BY <2>1, TruthFile
  <2>2. CASE ClosePrewrite \/ CloseArchive BY <2>2, CloseFile
  <2>3. CASE ~(CloseTruth \/ ClosePrewrite \/ CloseArchive)
    <3>1. archive' = archive
      BY <1>7, <2>3 DEF CloseStart, CloseBegin, CloseStep, CloseSnap, CloseEnd, CloseStamp, CloseMarked,
             ClosePublish, CloseClear
    <3> QED BY <1>7, <2>3, <3>1, CloseTouched, TouchedKeeps
  <2> QED BY <2>1, <2>2, <2>3
<1>8. CASE Restart BY <1>8, RestartTouched, TouchedKeeps
<1>9. CASE UNCHANGED vars
  <2>1. Touched BY <1>9 DEF vars, Touched, ReceiptTouched
  <2> QED BY <2>1, TouchedKeeps
<1> QED BY <1>1, <1>2, <1>3, <1>4, <1>5, <1>6, <1>7, <1>8, <1>9 DEF Next

\* The archive file, the writers' copies and their snapshots agree in every
\* reachable state.
THEOREM FileHolds == Spec => []FileInv
<1>1. TypeOK /\ TypeOK' /\ IInv /\ FileInv /\ [Next]_vars => FileInv' BY FileStep
<1> QED BY <1>1, FileInit, TypeCorrect, InvariantHolds, PTL DEF Spec

\* A receipt that says its archive is synced agrees with the file on disk,
\* whichever writers, mutations, failed writes and restarts came in between
\* (markFinalizationArchiveSynced, meeting_finalization.go:297-325).
THEOREM SyncedIsTrue == Spec => []SyncedMatchesArchive
<1>1. FileInv => SyncedMatchesArchive
  BY DEF FileInv, SyncInv, Vouched, Match, SyncedMatchesArchive
<1> QED BY <1>1, FileHolds, PTL

\* What a step may do to the archived rows.
RowsStep ==
  /\ \A r \in transcripts \ transcripts' :
       archived /\ mut.kind = "delete" => r \notin archive'.mem
  /\ archived' => archive'.mem \ archive.mem \subseteq transcripts'

LEMMA RowsAdded ==
  ASSUME TypeOK, IInv, FileInv, Next, transcripts' = transcripts
  PROVE  archive'.mem \ archive.mem \subseteq transcripts
<1>a. archive \in [state : {"closing", "finalized", "degraded"}, src : Source, mem : Source]
  BY DEF TypeOK
<1>1. CASE MutStart \/ Tamper \/ FzStep \/ RetryStep \/ AuditStep \/ Restart
  <2>1. archive' = archive
    BY <1>1, FzFrames DEF MutStart, MutBegin, Tamper, TamperBrain, TamperDigest, RetryStep, RetryRead,
           RetryArm, RetryFire, RetryCheck, AuditStep, AuditFrame, AuditObserve, AuditSnapshot, AuditCheck,
           AuditRefreshed, AuditBegin, AuditSchedule, Restart
  <2> QED BY <2>1
<1>2. CASE MutStep
  BY <1>2 DEF MutStep, MutFence, MutLock, MutWrite, ArchiveFails, MutCommit, MutHook
<1>3. ASSUME NEW p \in Writers, WrStep(p)
      PROVE  archive'.mem \ archive.mem \subseteq transcripts
  <2>1. CASE WrWrite(p)
    BY <2>1 DEF WrWrite, ArchiveFails, FileInv, RowsInv
  <2>2. CASE WrTruthWrite(p)
    <3>1. archive'.mem = archive.mem BY <1>a, <2>2 DEF WrTruthWrite, ArchiveFails
    <3> QED BY <3>1
  <2>3. CASE ~WrWrite(p) /\ ~WrTruthWrite(p)
    BY <1>3, <2>3 DEF WrStep, WrRead, WrSnap, WrLock, WrMark, WrTruthLock
  <2> QED BY <2>1, <2>2, <2>3
<1>4. CASE CloseStart \/ CloseStep
  <2>1. CASE ClosePrewrite
    <3>1. closer.src = transcripts BY <2>1 DEF ClosePrewrite, IInv, LifecycleInv
    <3> QED BY <2>1, <3>1 DEF ClosePrewrite, ArchiveFails
  <2>2. CASE CloseArchive BY <2>2 DEF CloseArchive, ArchiveFails
  <2>3. CASE ~ClosePrewrite /\ ~CloseArchive
    BY <1>4, <2>3 DEF CloseStart, CloseBegin, CloseStep, CloseSnap, CloseEnd, CloseStamp, CloseTruth,
           CloseMarked, ClosePublish, CloseClear
  <2> QED BY <2>1, <2>2, <2>3
<1> QED BY <1>1, <1>2, <1>3, <1>4 DEF Next

LEMMA RowsMove ==
  ASSUME TypeOK, IInv, FileInv, [Next]_vars
  PROVE  [RowsStep]_vars
<1>1. CASE Next
  <2>1. CASE transcripts' = transcripts BY <1>1, <2>1, RowsAdded DEF RowsStep
  <2>2. CASE MutCommit /\ UNCHANGED <<ended, archived, receipt, archive>>
    <3>1. mut.pc = "commit" /\ transcripts \ transcripts' \subseteq mut.del
      BY <2>2 DEF MutCommit
    <3> QED BY <2>2, <3>1 DEF RowsStep, FileInv, RowsInv
  <2> QED BY <1>1, <2>1, <2>2, OneStore
<1>2. CASE UNCHANGED vars BY <1>2
<1> QED BY <1>1, <1>2

\* A deleted row is out of the owned archive by the time the deletion commits,
\* and no refresh that snapshotted memory before it puts the row back
\* (meeting_finalization.go:1079-1084, 1135-1187).
THEOREM DeletedRowsStayOut == Spec => DeletionReachesArchive
<1>1. TypeOK /\ IInv /\ FileInv /\ [Next]_vars => [RowsStep]_vars BY RowsMove
<1> QED BY <1>1, FileHolds, TypeCorrect, InvariantHolds, PTL DEF Spec, DeletionReachesArchive, RowsStep
=============================================================================
