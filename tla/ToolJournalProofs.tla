------------------------- MODULE ToolJournalProofs --------------------------
(***************************************************************************)
(* Proofs about ToolJournal, for any set of faults and any bounds: what the *)
(* file may hold in each step of a call, that it implements HighWaterLog    *)
(* and what follows from that, that without one of the four named scars it  *)
(* reopens, and that without two of them no fenced write is refused.        *)
(***************************************************************************)
EXTENDS ToolJournal, TLAPS

-----------------------------------------------------------------------------
(* Logs.                                                                    *)

\* No write is in a log twice.
Simple(log) == \A i, j \in DOMAIN log : log[i] = log[j] => i = j

LEMMA EmptyLog == <<>> \in Log /\ Range(<<>>) = {} /\ Simple(<<>>)
  BY DEF Log, Range, Simple

LEMMA AppendLog ==
  ASSUME NEW s \in Log, NEW e \in Id
  PROVE  /\ Append(s, e) \in Log
         /\ Append(s, e) # <<>> /\ (e \notin Range(s) => Append(s, e) # s)
         /\ Range(Append(s, e)) = Range(s) \cup {e}
         /\ Simple(Append(s, e)) <=> Simple(s) /\ e \notin Range(s)
         /\ Extends(Append(s, e), s)
<1> DEFINE t == Append(s, e)
<1>1. t \in Log /\ Len(t) = Len(s) + 1 /\ t[Len(s) + 1] = e
      /\ \A i \in 1..Len(s) : t[i] = s[i]
  BY DEF Log
<1>2. DOMAIN t = 1..(Len(s) + 1) /\ DOMAIN s = 1..Len(s) /\ Len(s) \in Nat
  BY <1>1 DEF Log
<1>3. Range(t) = Range(s) \cup {e}
  BY <1>1, <1>2 DEF Range
<1>4. t # <<>> /\ (e \notin Range(s) => t # s)
  BY <1>3, EmptyLog
<1>5. Simple(t) <=> Simple(s) /\ e \notin Range(s)
  <2>1. Simple(s) /\ e \notin Range(s) => Simple(t)
    BY <1>1, <1>2 DEF Simple, Range
  <2>2. Simple(t) => Simple(s)
    BY <1>1, <1>2 DEF Simple
  <2>3. Simple(t) => e \notin Range(s)
    BY <1>1, <1>2 DEF Simple, Range
  <2> QED
    BY <2>1, <2>2, <2>3
<1>6. Extends(t, s)
  BY <1>1, <1>2 DEF Extends, Log
<1> QED
  BY <1>1, <1>3, <1>4, <1>5, <1>6

LEMMA CutLog ==
  ASSUME NEW s \in Log, NEW n \in 0..(Len(s) - 1)
  PROVE  /\ SubSeq(s, 1, n) \in Log
         /\ Range(SubSeq(s, 1, n)) \subseteq Range(s)
         /\ Simple(s) => Simple(SubSeq(s, 1, n))
<1> DEFINE t == SubSeq(s, 1, n)
<1>1. t \in Log /\ Len(t) = n /\ \A i \in 1..n : t[i] = s[i]
  BY DEF Log
<1>2. DOMAIN t = 1..n /\ DOMAIN s = 1..Len(s) /\ Len(s) \in Nat
  BY <1>1 DEF Log
<1> QED
  BY <1>1, <1>2 DEF Range, Simple

LEMMA ExtendsSelf == ASSUME NEW s \in Log PROVE Extends(s, s)
  BY DEF Extends, Log

LEMMA ExtendsOn ==
  ASSUME NEW s \in Log, NEW t \in Log, NEW e \in Id, Extends(s, t)
  PROVE  Extends(Append(s, e), t)
<1>1. Len(Append(s, e)) = Len(s) + 1 /\ \A i \in 1..Len(s) : Append(s, e)[i] = s[i]
  BY DEF Log
<1>2. Len(t) \in Nat /\ Len(s) \in Nat /\ Len(t) <= Len(s) /\ Append(s, e) \in Seq(Id)
  BY DEF Log, Extends
<1>3. SubSeq(Append(s, e), 1, Len(t)) = SubSeq(s, 1, Len(t))
  BY <1>1, <1>2 DEF Log
<1> QED
  BY <1>1, <1>2, <1>3 DEF Extends

LEMMA Grown ==
  ASSUME NEW s \in Log, NEW t \in Log, NEW u, Extends(s, t),
         u = s \/ \E id \in Id : u = Append(s, id)
  PROVE  Range(s) \subseteq Range(u) /\ Extends(u, t)
<1>1. CASE u = s
  BY <1>1
<1>2. CASE u # s
  <2>1. PICK id \in Id : u = Append(s, id)
    BY <1>2
  <2>2. Extends(u, t)
    BY <2>1, ExtendsOn
  <2> QED
    BY <2>1, <2>2, AppendLog
<1> QED
  BY <1>1, <1>2

\* A log is in Log, and its writes are writes.
LEMMA LogRange == ASSUME NEW s \in Log PROVE Range(s) \subseteq Id
  BY DEF Log, Range

-----------------------------------------------------------------------------
(* Types.                                                                   *)

LEMMA InitType == Init => TypeOK
<1> SUFFICES ASSUME Init PROVE TypeOK
  OBVIOUS
<1>1. 0 \in 0..MaxWrites /\ 0 \in 0..MaxFaults
  BY ToolJournalConstants
<1> QED
  BY <1>1, EmptyLog DEF Init, TypeOK

LEMMA FaultCounted ==
  ASSUME TypeOK, NEW kind, Fault(kind) \/ NoFault
  PROVE  faults' \in 0..MaxFaults
  BY ToolJournalConstants DEF TypeOK, Fault, NoFault

LEMMA NextType == TypeOK /\ [Next]_vars => TypeOK'
<1> SUFFICES ASSUME TypeOK, [Next]_vars PROVE TypeOK'
  OBVIOUS
<1> USE DEF TypeOK, store, process, history
<1>1. CASE Open
  <2>1. issued < MaxWrites => issued + 1 \in Id /\ issued + 1 \in 0..MaxWrites
    BY ToolJournalConstants DEF Id
  <2>2. issued < MaxWrites => <<issued + 1>> \in Log
    BY <2>1 DEF Log
  <2> QED
    BY <1>1, <2>1, <2>2 DEF Open
<1>2. CASE OpenCheck
  BY <1>2, EmptyLog DEF OpenCheck, Closed
<1>3. CASE Close
  BY <1>3, EmptyLog DEF Close, Closed
<1>4. CASE Serve
  BY <1>4 DEF Serve
<1>5. CASE Diverge
  BY <1>5 DEF Diverge, Idle
<1>6. CASE Begin
  <2>1. issued + 1 \in Id /\ issued + 1 \in 0..MaxWrites
    BY <1>6, ToolJournalConstants DEF Begin, Id
  <2>2. Append(state, issued + 1) \in Log
    BY <2>1, AppendLog
  <2> QED
    BY <1>6, <2>1, <2>2, FaultCounted DEF Begin, Idle
<1>7. CASE Write
  BY FaultCounted, <1>7, EmptyLog DEF Write, RollBack, Closed
<1>8. CASE Sync
  BY FaultCounted, <1>8, EmptyLog DEF Sync, Poison, Closed
<1>9. CASE CasReplies
  BY <1>9 DEF CasReplies, Adopt
<1>10. CASE CasErrs
  <2>1. faults' \in 0..MaxFaults
    BY FaultCounted, <1>10 DEF CasErrs
  <2>2. wire' \in {<<>>} \cup (Log \X Log) /\ hw' \in Log
    BY <1>10 DEF CasErrs
  <2> QED
    BY <1>10, <2>1, <2>2 DEF CasErrs
<1>11. CASE WireLands
  BY <1>11 DEF WireLands
<1>12. CASE Load
  BY FaultCounted, <1>12, EmptyLog DEF Load, Adopt, Closed
<1>13. CASE Restore
  BY FaultCounted, <1>13, EmptyLog DEF Restore, Poison, Closed
<1>14. CASE RestoreSync
  BY FaultCounted, <1>14, EmptyLog DEF RestoreSync, RollBack, Poison, Closed
<1>15. CASE Verify
  BY FaultCounted, <1>15, EmptyLog DEF Verify, Poison, Closed
<1>16. CASE Kill
  BY FaultCounted, <1>16, EmptyLog DEF Kill, Closed
<1>17. CASE PowerLoss
  BY FaultCounted, <1>17, EmptyLog DEF PowerLoss, Closed
<1>18. CASE RestoreBackup
  BY FaultCounted, <1>18, CutLog DEF RestoreBackup
<1>19. CASE UNCHANGED vars
  BY <1>19 DEF vars
<1> QED
  BY <1>1, <1>2, <1>3, <1>4, <1>5, <1>6, <1>7, <1>8, <1>9, <1>10, <1>11, <1>12,
     <1>13, <1>14, <1>15, <1>16, <1>17, <1>18, <1>19 DEF Next

\* The journal keeps its types.
THEOREM JournalTypeCorrect == Spec => []TypeOK
  BY InitType, NextType, PTL DEF Spec

-----------------------------------------------------------------------------
(* The inductive invariant.                                                 *)

Issued == 1..issued

\* Only issued writes are anywhere, and a log holds each of them once.
Bounded ==
  /\ Range(file) \cup Range(disk) \cup Range(hw) \cup Range(state) \cup Range(anchor) \subseteq Issued
  /\ acked \cup refused \cup Range(served) \subseteq Issued
  /\ Simple(file) /\ Simple(disk) /\ Simple(hw) /\ Simple(state) /\ Simple(anchor)
  /\ wire # <<>> => \E id \in Issued \ Range(wire[1]) : wire[2] = Append(wire[1], id)

\* A call's own write is the last one issued, and nobody knows its outcome.
Own == job \in {"init", "call"} /\ pc # "verify"

\* Where the call is tells what the file, the disk and memory hold.
Flight ==
  /\ Own => /\ state = Append(anchor, issued)
            /\ issued \notin Range(anchor) \cup acked \cup refused \cup Range(served)
  /\ job = "recover" /\ pc # "check" => \E id \in Id \ Range(anchor) : state = Append(anchor, id)
  /\ pc = "write" => issued \notin Range(file) \cup Range(disk)
  /\ pc \in {"sync", "cas", "load", "restore"} => file = state
  /\ pc \in {"cas", "load", "restore"} /\ Own => disk = state
  /\ pc = "resync" => file = anchor
  /\ pc = "verify" => /\ anchor = state /\ file = state /\ disk = state
                      /\ issued \in Range(state) \cap Range(hw) /\ issued \notin refused
  /\ life = "up" /\ pc \in {"idle", "check"} => anchor = state

\* Acknowledged writes are wherever the journal will look for them, and a
\* reader has seen no more than the high-water log.
Kept ==
  /\ acked \subseteq Range(hw)
  /\ life # "down" => acked \subseteq Range(anchor)
  /\ "backup" \notin scars => acked \subseteq Range(file) \cap Range(disk)
  /\ Extends(hw, served)

\* Refused writes are nowhere but, perhaps, in the high-water log.
Hidden ==
  /\ RefusedStaysOut
  /\ life # "down" => refused \cap (Range(state) \cup Range(anchor)) = {}

\* Whatever the journal may write back has its envelopes.
Covered ==
  /\ EnvelopesCover
  /\ life # "down" => Range(state) \cup Range(anchor) \subseteq envs

IInv == TypeOK /\ Bounded /\ Flight /\ Kept /\ Hidden /\ Covered

\* A new write is a fresh one.
LEMMA FreshWrite ==
  ASSUME TypeOK, issued < MaxWrites, issued' = issued + 1
  PROVE  /\ issued' \in Id /\ issued' \notin Issued
         /\ Issued' = Issued \cup {issued'} /\ Issued \subseteq Id
  BY ToolJournalConstants DEF TypeOK, Issued, Id

LEMMA SameIssued ==
  ASSUME TypeOK, issued' = issued
  PROVE  Issued' = Issued /\ Issued \subseteq Id /\ (issued \in Id => issued \in Issued)
  BY ToolJournalConstants DEF TypeOK, Issued, Id

LEMMA OneWrite ==
  ASSUME NEW e \in Id
  PROVE  <<e>> \in Log /\ Range(<<e>>) = {e} /\ Simple(<<e>>) /\ <<e>> = Append(<<>>, e)
<1>1. <<e>> = Append(<<>>, e)
  OBVIOUS
<1>2. /\ Append(<<>>, e) \in Log /\ Range(Append(<<>>, e)) = Range(<<>>) \cup {e}
      /\ Simple(Append(<<>>, e)) <=> Simple(<<>>) /\ e \notin Range(<<>>)
  BY AppendLog, EmptyLog
<1>3. /\ Append(<<>>, e) \in Log /\ Range(Append(<<>>, e)) = {e} /\ Simple(Append(<<>>, e))
  BY <1>2, EmptyLog
<1> QED
  BY <1>1, <1>3

LEMMA InitIInv == Init => IInv
<1> SUFFICES ASSUME Init PROVE IInv
  OBVIOUS
<1>1. Extends(hw, served)
  BY EmptyLog, ExtendsSelf DEF Init
<1> QED
  BY <1>1, InitType, EmptyLog
     DEF Init, IInv, Bounded, Own, Flight, Kept, Hidden, Covered, RefusedStaysOut, EnvelopesCover

\* What a swap, on its way or under way, adds to the log is one issued write.
LEMMA Swapping ==
  ASSUME IInv, pc \in {"cas", "load"}
  PROVE  \E id \in Issued \ Range(anchor) :
           /\ state = Append(anchor, id) /\ Range(state) = Range(anchor) \cup {id}
           /\ id \in Id /\ state # anchor
<1>1. PICK id \in Id : state = Append(anchor, id) /\ id \notin Range(anchor)
  BY DEF IInv, TypeOK, Flight, Own
<1>2. Range(state) = Range(anchor) \cup {id} /\ state # anchor
  BY <1>1, AppendLog DEF IInv, TypeOK
<1> QED
  BY <1>1, <1>2 DEF IInv, Bounded

LEMMA OnTheWire ==
  ASSUME IInv, wire # <<>>
  PROVE  /\ wire[1] \in Log /\ wire[2] \in Log
         /\ \E id \in Issued \ Range(wire[1]) :
              /\ id \in Id /\ wire[2] = Append(wire[1], id)
              /\ Range(wire[2]) = Range(wire[1]) \cup {id}
              /\ Simple(wire[1]) => Simple(wire[2])
<1>1. wire[1] \in Log /\ wire[2] \in Log
  BY DEF IInv, TypeOK
<1>2. PICK id \in Issued \ Range(wire[1]) : wire[2] = Append(wire[1], id)
  BY DEF IInv, Bounded
<1>3. id \in Id
  BY SameIssued, <1>1, <1>2, ToolJournalConstants DEF IInv, TypeOK, Issued, Id
<1>4. Range(wire[2]) = Range(wire[1]) \cup {id} /\ (Simple(wire[1]) => Simple(wire[2]))
  BY <1>1, <1>2, <1>3, AppendLog
<1> QED
  BY <1>1, <1>2, <1>3, <1>4

\* Nothing but an issued write ever gets into a log.
LEMMA NextBounded == IInv /\ [Next]_vars => Bounded'
<1> SUFFICES ASSUME IInv, [Next]_vars PROVE Bounded'
  OBVIOUS
<1> USE DEF IInv, TypeOK, Bounded, Own, Flight, store, process, history
<1>1. CASE Open
  BY <1>1, FreshWrite, SameIssued, OneWrite, EmptyLog DEF Open
<1>2. CASE OpenCheck
  BY <1>2, SameIssued, EmptyLog DEF OpenCheck, Closed
<1>3. CASE Close
  BY <1>3, SameIssued, EmptyLog DEF Close, Closed
<1>4. CASE Serve
  BY <1>4, SameIssued, EmptyLog DEF Serve, Idle
<1>5. CASE Diverge
  BY <1>5, SameIssued, EmptyLog DEF Diverge, Idle
<1>6. CASE Begin
  <2>1. /\ issued' \in Id /\ issued' \notin Issued /\ issued' = issued + 1
        /\ Issued' = Issued \cup {issued'} /\ Issued \subseteq Id
    BY <1>6, FreshWrite DEF Begin
  <2>2. /\ Range(Append(state, issued')) = Range(state) \cup {issued'}
        /\ issued' \notin Range(state) => Simple(Append(state, issued'))
    BY <2>1, AppendLog
  <2>3. state' = state \/ state' = Append(state, issued')
    BY <1>6, <2>1 DEF Begin
  <2> QED
    BY <1>6, <2>1, <2>2, <2>3 DEF Begin
<1>7. CASE Write
  <2>1. issued \in Issued /\ Issued' = Issued
    BY <1>7, SameIssued DEF Write
  <2>2. refused' \subseteq refused \cup {issued}
    BY <1>7 DEF Write, RollBack
  <2> QED
    BY <1>7, <2>1, <2>2, EmptyLog DEF Write, RollBack, Closed
<1>8. CASE Sync
  BY <1>8, SameIssued, EmptyLog DEF Sync, Poison, Closed
<1>9. CASE CasReplies
  BY <1>9, SameIssued, EmptyLog DEF CasReplies, Adopt
<1>10. CASE CasErrs
  <2>1. Issued' = Issued
    BY <1>10, SameIssued DEF CasErrs
  <2>2. wire' # <<>> => \E id \in Issued \ Range(wire'[1]) : wire'[2] = Append(wire'[1], id)
    BY <1>10, Swapping DEF CasErrs
  <2> QED
    BY <1>10, <2>1, <2>2 DEF CasErrs
<1>11. CASE WireLands
  <2>1. Issued' = Issued
    BY <1>11, SameIssued DEF WireLands
  <2>2. Range(hw') \subseteq Issued /\ Simple(hw')
    BY <1>11, OnTheWire DEF WireLands
  <2> QED
    BY <1>11, <2>1, <2>2 DEF WireLands
<1>12. CASE Load
  BY <1>12, SameIssued, EmptyLog DEF Load, Adopt, Closed
<1>13. CASE Restore
  BY <1>13, SameIssued, EmptyLog DEF Restore, Poison, Closed
<1>14. CASE RestoreSync
  <2>1. issued \in Issued /\ Issued' = Issued
    BY <1>14, SameIssued DEF RestoreSync
  <2>2. refused' \subseteq refused \cup {issued}
    BY <1>14 DEF RestoreSync, RollBack
  <2> QED
    BY <1>14, <2>1, <2>2, EmptyLog DEF RestoreSync, RollBack, Poison, Closed
<1>15. CASE Verify
  BY <1>15, SameIssued, EmptyLog DEF Verify, Poison, Closed
<1>16. CASE Kill
  BY <1>16, SameIssued, EmptyLog DEF Kill, Closed
<1>17. CASE PowerLoss
  BY <1>17, SameIssued, EmptyLog DEF PowerLoss, Closed
<1>18. CASE RestoreBackup
  BY <1>18, SameIssued, CutLog DEF RestoreBackup
<1>19. CASE UNCHANGED vars
  BY <1>19, SameIssued DEF vars
<1> QED
  BY <1>1, <1>2, <1>3, <1>4, <1>5, <1>6, <1>7, <1>8, <1>9, <1>10, <1>11, <1>12,
     <1>13, <1>14, <1>15, <1>16, <1>17, <1>18, <1>19 DEF Next

\* A call's steps leave what the next one expects.
LEMMA NextFlight == IInv /\ [Next]_vars => Flight'
<1> SUFFICES ASSUME IInv, [Next]_vars PROVE Flight'
  OBVIOUS
<1> USE DEF IInv, TypeOK, Own, Flight, Bounded, store, process, history
<1>1. CASE Open
  <2>1. CASE pc' = "write"
    <3>1. issued' \in Id /\ issued' \notin Issued /\ state' = <<issued'>>
      BY <1>1, <2>1, FreshWrite DEF Open
    <3>2. state' = Append(<<>>, issued') /\ Range(state') = {issued'}
      BY <3>1, OneWrite
    <3> QED
      BY <1>1, <2>1, <3>1, <3>2, EmptyLog DEF Open
  <2>2. CASE pc' # "write" /\ Successor(file, hw)
    <3>1. PICK id \in Id : file = Append(hw, id)
      BY <2>2 DEF Successor
    <3>2. id \notin Range(hw) /\ Range(file) = Range(hw) \cup {id}
      BY <3>1, AppendLog
    <3> QED
      BY <1>1, <2>2, <3>1, <3>2 DEF Open
  <2>3. CASE pc' = "check"
    BY <1>1, <2>3 DEF Open
  <2> QED
    BY <1>1, <2>1, <2>2, <2>3 DEF Open
<1>2. CASE OpenCheck
  BY <1>2, EmptyLog DEF OpenCheck, Closed
<1>3. CASE Close
  BY <1>3, EmptyLog DEF Close, Closed
<1>4. CASE Serve
  BY <1>4, EmptyLog DEF Serve, Idle
<1>5. CASE Diverge
  BY <1>5, EmptyLog DEF Diverge, Idle
<1>6. CASE Begin
  BY <1>6, FreshWrite, AppendLog DEF Begin, Idle, NoFault
<1>7. CASE Write
  BY <1>7, EmptyLog DEF Write, RollBack, Closed
<1>8. CASE Sync
  BY <1>8, EmptyLog DEF Sync, Poison, Closed
<1>9. CASE CasReplies
  BY <1>9, Swapping DEF CasReplies, Adopt
<1>10. CASE CasErrs
  BY <1>10, AppendLog DEF CasErrs
<1>11. CASE WireLands
  BY <1>11, OnTheWire DEF WireLands
<1>12. CASE Load
  BY <1>12, Swapping, EmptyLog DEF Load, Adopt, Closed
<1>13. CASE Restore
  BY <1>13, EmptyLog DEF Restore, Poison, Closed
<1>14. CASE RestoreSync
  BY <1>14, EmptyLog DEF RestoreSync, RollBack, Poison, Closed
<1>15. CASE Verify
  BY <1>15, EmptyLog DEF Verify, Poison, Closed
<1>16. CASE Kill
  BY <1>16, EmptyLog DEF Kill, Closed
<1>17. CASE PowerLoss
  BY <1>17, EmptyLog DEF PowerLoss, Closed
<1>18. CASE RestoreBackup
  BY <1>18, EmptyLog DEF RestoreBackup
<1>19. CASE UNCHANGED vars
  BY <1>19 DEF vars
<1> QED
  BY <1>1, <1>2, <1>3, <1>4, <1>5, <1>6, <1>7, <1>8, <1>9, <1>10, <1>11, <1>12,
     <1>13, <1>14, <1>15, <1>16, <1>17, <1>18, <1>19 DEF Next

\* No step loses an acknowledged write or overtakes the high-water log.
LEMMA NextKept == IInv /\ [Next]_vars => Kept'
<1> SUFFICES ASSUME IInv, [Next]_vars PROVE Kept'
  OBVIOUS
<1> USE DEF IInv, TypeOK, Own, Flight, Bounded, Kept, store, process, history
<1>1. CASE Open
  BY <1>1, AppendLog, EmptyLog DEF Open
<1>2. CASE OpenCheck
  BY <1>2, EmptyLog DEF OpenCheck, Closed
<1>3. CASE Close
  BY <1>3, EmptyLog DEF Close, Closed
<1>4. CASE Serve
  BY <1>4, ExtendsSelf DEF Serve, Idle
<1>5. CASE Diverge
  BY <1>5, EmptyLog DEF Diverge, Idle
<1>6. CASE Begin
  BY <1>6, EmptyLog DEF Begin, Idle, NoFault
<1>7. CASE Write
  BY <1>7, AppendLog, EmptyLog DEF Write, RollBack, Closed
<1>8. CASE Sync
  BY <1>8, EmptyLog DEF Sync, Poison, Closed
<1>9. CASE CasReplies
  <2>1. hw' = hw \/ \E id \in Id : hw' = Append(hw, id)
    BY <1>9, Swapping DEF CasReplies
  <2>2. Range(hw) \subseteq Range(hw') /\ Extends(hw', served)
    BY <2>1, Grown
  <2> QED
    BY <1>9, <2>2, Swapping DEF CasReplies, Adopt
<1>10. CASE CasErrs
  <2>1. hw' = hw \/ \E id \in Id : hw' = Append(hw, id)
    BY <1>10, Swapping DEF CasErrs
  <2>2. Range(hw) \subseteq Range(hw') /\ Extends(hw', served)
    BY <2>1, Grown
  <2> QED
    BY <1>10, <2>2, Swapping DEF CasErrs
<1>11. CASE WireLands
  <2>1. hw' = hw \/ \E id \in Id : hw' = Append(hw, id)
    BY <1>11, OnTheWire DEF WireLands
  <2>2. Range(hw) \subseteq Range(hw') /\ Extends(hw', served)
    BY <2>1, Grown
  <2> QED
    BY <1>11, <2>2, OnTheWire DEF WireLands
<1>12. CASE Load
  BY <1>12, AppendLog, EmptyLog DEF Load, Adopt, Closed
<1>13. CASE Restore
  BY <1>13, EmptyLog DEF Restore, Poison, Closed
<1>14. CASE RestoreSync
  BY <1>14, EmptyLog DEF RestoreSync, RollBack, Poison, Closed
<1>15. CASE Verify
  BY <1>15, EmptyLog DEF Verify, Poison, Closed
<1>16. CASE Kill
  BY <1>16, EmptyLog DEF Kill, Closed
<1>17. CASE PowerLoss
  BY <1>17, EmptyLog DEF PowerLoss, Closed
<1>18. CASE RestoreBackup
  BY <1>18, EmptyLog DEF RestoreBackup
<1>19. CASE UNCHANGED vars
  BY <1>19 DEF vars
<1> QED
  BY <1>1, <1>2, <1>3, <1>4, <1>5, <1>6, <1>7, <1>8, <1>9, <1>10, <1>11, <1>12,
     <1>13, <1>14, <1>15, <1>16, <1>17, <1>18, <1>19 DEF Next

\* A refused write stays out of every file and every read.
LEMMA NextHidden == IInv /\ [Next]_vars => Hidden'
<1> SUFFICES ASSUME IInv, [Next]_vars PROVE Hidden'
  OBVIOUS
<1> USE DEF IInv, TypeOK, Own, Flight, Bounded, Hidden, RefusedStaysOut, store, process, history
<1>1. CASE Open
  <2>1. CASE pc' = "write"
    <3>1. issued' \in Id /\ issued' \notin Issued /\ state' = <<issued'>>
      BY <1>1, <2>1, FreshWrite DEF Open
    <3>2. state' = Append(<<>>, issued') /\ Range(state') = {issued'}
      BY <3>1, OneWrite
    <3> QED
      BY <1>1, <2>1, <3>1, <3>2, EmptyLog DEF Open
  <2>2. CASE pc' # "write" /\ Successor(file, hw)
    <3>1. PICK id \in Id : file = Append(hw, id)
      BY <2>2 DEF Successor
    <3>2. id \notin Range(hw) /\ Range(file) = Range(hw) \cup {id}
      BY <3>1, AppendLog
    <3> QED
      BY <1>1, <2>2, <3>1, <3>2 DEF Open
  <2>3. CASE pc' = "check"
    BY <1>1, <2>3 DEF Open
  <2> QED
    BY <1>1, <2>1, <2>2, <2>3 DEF Open
<1>2. CASE OpenCheck
  BY <1>2, EmptyLog, AppendLog DEF OpenCheck, Closed
<1>3. CASE Close
  BY <1>3, EmptyLog, AppendLog DEF Close, Closed
<1>4. CASE Serve
  BY <1>4, EmptyLog, AppendLog DEF Serve, Idle
<1>5. CASE Diverge
  BY <1>5, EmptyLog, AppendLog DEF Diverge, Idle
<1>6. CASE Begin
  <2>1. /\ issued' \in Id /\ issued' \notin Issued /\ issued' = issued + 1
    BY <1>6, FreshWrite DEF Begin
  <2>2. Range(Append(state, issued')) = Range(state) \cup {issued'}
    BY <2>1, AppendLog
  <2>3. state' = state \/ state' = Append(state, issued')
    BY <1>6, <2>1 DEF Begin
  <2>4. /\ refused' = refused /\ refused \subseteq Issued
        /\ anchor' = anchor /\ UNCHANGED <<file, disk, served>>
    BY <1>6 DEF Begin
  <2>5. refused \cap (Range(state) \cup Range(anchor)) = {}
    BY <1>6 DEF Begin, Idle
  <2>6. issued' \notin refused
    BY <2>1, <2>4
  <2>7. Range(state') \subseteq Range(state) \cup {issued'}
    BY <2>2, <2>3
  <2>8. refused' \cap (Range(state') \cup Range(anchor')) = {}
    BY <2>4, <2>5, <2>6, <2>7
  <2>9. RefusedStaysOut'
    BY <2>4
  <2> QED
    BY <2>8, <2>9
<1>7. CASE Write
  BY <1>7, EmptyLog, AppendLog DEF Write, RollBack, Closed
<1>8. CASE Sync
  BY <1>8, EmptyLog, AppendLog DEF Sync, Poison, Closed
<1>9. CASE CasReplies
  BY <1>9, EmptyLog, AppendLog DEF CasReplies, Adopt
<1>10. CASE CasErrs
  BY <1>10, EmptyLog, AppendLog DEF CasErrs
<1>11. CASE WireLands
  BY <1>11, EmptyLog, AppendLog DEF WireLands
<1>12. CASE Load
  BY <1>12, EmptyLog, AppendLog DEF Load, Adopt, Closed
<1>13. CASE Restore
  BY <1>13, EmptyLog, AppendLog DEF Restore, Poison, Closed
<1>14. CASE RestoreSync
  BY <1>14, EmptyLog, AppendLog DEF RestoreSync, RollBack, Poison, Closed
<1>15. CASE Verify
  BY <1>15, EmptyLog, AppendLog DEF Verify, Poison, Closed
<1>16. CASE Kill
  BY <1>16, EmptyLog, AppendLog DEF Kill, Closed
<1>17. CASE PowerLoss
  BY <1>17, EmptyLog, AppendLog DEF PowerLoss, Closed
<1>18. CASE RestoreBackup
  BY <1>18, CutLog DEF RestoreBackup
<1>19. CASE UNCHANGED vars
  BY <1>19 DEF vars
<1> QED
  BY <1>1, <1>2, <1>3, <1>4, <1>5, <1>6, <1>7, <1>8, <1>9, <1>10, <1>11, <1>12,
     <1>13, <1>14, <1>15, <1>16, <1>17, <1>18, <1>19 DEF Next

\* An envelope is unlinked only when no file can refer to it.
LEMMA NextCovered == IInv /\ [Next]_vars => Covered'
<1> SUFFICES ASSUME IInv, [Next]_vars PROVE Covered'
  OBVIOUS
<1> USE DEF IInv, TypeOK, Own, Flight, Bounded, Covered, EnvelopesCover, store, process, history
<1>1. CASE Open
  <2>1. CASE pc' = "write"
    <3>1. issued' \in Id /\ issued' \notin Issued /\ state' = <<issued'>>
      BY <1>1, <2>1, FreshWrite DEF Open
    <3>2. state' = Append(<<>>, issued') /\ Range(state') = {issued'}
      BY <3>1, OneWrite
    <3> QED
      BY <1>1, <2>1, <3>1, <3>2, EmptyLog DEF Open
  <2>2. CASE pc' # "write" /\ Successor(file, hw)
    <3>1. PICK id \in Id : file = Append(hw, id)
      BY <2>2 DEF Successor
    <3>2. id \notin Range(hw) /\ Range(file) = Range(hw) \cup {id}
      BY <3>1, AppendLog
    <3> QED
      BY <1>1, <2>2, <3>1, <3>2 DEF Open
  <2>3. CASE pc' = "check"
    BY <1>1, <2>3 DEF Open
  <2> QED
    BY <1>1, <2>1, <2>2, <2>3 DEF Open
<1>2. CASE OpenCheck
  BY <1>2, EmptyLog, AppendLog DEF OpenCheck, Closed
<1>3. CASE Close
  BY <1>3, EmptyLog, AppendLog DEF Close, Closed
<1>4. CASE Serve
  BY <1>4, EmptyLog, AppendLog DEF Serve, Idle
<1>5. CASE Diverge
  BY <1>5, EmptyLog, AppendLog DEF Diverge, Idle
<1>6. CASE Begin
  <2>1. /\ issued' \in Id /\ issued' \notin Issued /\ issued' = issued + 1
    BY <1>6, FreshWrite DEF Begin
  <2>2. Range(Append(state, issued')) = Range(state) \cup {issued'}
    BY <2>1, AppendLog
  <2>3. state' = state \/ state' = Append(state, issued')
    BY <1>6, <2>1 DEF Begin
  <2>4. envs' = envs \cup {issued'} /\ anchor' = anchor /\ file' = file /\ disk' = disk
    BY <1>6, <2>1 DEF Begin
  <2>5. Range(state) \cup Range(anchor) \subseteq envs
    BY <1>6 DEF Begin, Idle
  <2> QED
    BY <2>2, <2>3, <2>4, <2>5
<1>7. CASE Write
  BY <1>7, EmptyLog, AppendLog DEF Write, RollBack, Closed
<1>8. CASE Sync
  BY <1>8, EmptyLog, AppendLog DEF Sync, Poison, Closed
<1>9. CASE CasReplies
  BY <1>9, EmptyLog, AppendLog DEF CasReplies, Adopt
<1>10. CASE CasErrs
  BY <1>10, EmptyLog, AppendLog DEF CasErrs
<1>11. CASE WireLands
  BY <1>11, EmptyLog, AppendLog DEF WireLands
<1>12. CASE Load
  BY <1>12, EmptyLog, AppendLog DEF Load, Adopt, Closed
<1>13. CASE Restore
  BY <1>13, EmptyLog, AppendLog DEF Restore, Poison, Closed
<1>14. CASE RestoreSync
  BY <1>14, EmptyLog, AppendLog DEF RestoreSync, RollBack, Poison, Closed
<1>15. CASE Verify
  BY <1>15, EmptyLog, AppendLog DEF Verify, Poison, Closed
<1>16. CASE Kill
  BY <1>16, EmptyLog, AppendLog DEF Kill, Closed
<1>17. CASE PowerLoss
  BY <1>17, EmptyLog, AppendLog DEF PowerLoss, Closed
<1>18. CASE RestoreBackup
  BY <1>18, CutLog DEF RestoreBackup
<1>19. CASE UNCHANGED vars
  BY <1>19 DEF vars
<1> QED
  BY <1>1, <1>2, <1>3, <1>4, <1>5, <1>6, <1>7, <1>8, <1>9, <1>10, <1>11, <1>12,
     <1>13, <1>14, <1>15, <1>16, <1>17, <1>18, <1>19 DEF Next

\* The inductive invariant: every step of the journal, every fault included, keeps
\* what the properties below rest on.
THEOREM JournalInvariant == Spec => []IInv
<1>1. IInv /\ [Next]_vars => IInv'
  BY NextType, NextBounded, NextFlight, NextKept, NextHidden, NextCovered DEF IInv
<1> QED
  BY <1>1, InitIInv, PTL DEF Spec
\* Acknowledged writes survive every fault but a restored backup.
THEOREM AckedWritesSurvive == Spec => []AckedSurvives
<1>1. IInv => AckedSurvives
  BY DEF IInv, Kept, AckedSurvives
<1> QED
  BY <1>1, JournalInvariant, PTL

\* A write whose caller was told it had no effect has none.
THEOREM RefusedWritesStayOut == Spec => []RefusedStaysOut
<1>1. IInv => RefusedStaysOut
  BY DEF IInv, Hidden
<1> QED
  BY <1>1, JournalInvariant, PTL

\* No record of the file is without its replay envelope.
THEOREM EnvelopesNeverMissing == Spec => []EnvelopesCover
<1>1. IInv => EnvelopesCover
  BY DEF IInv, Covered
<1> QED
  BY <1>1, JournalInvariant, PTL

-----------------------------------------------------------------------------
(* Reads.                                                                   *)

\* What a read returns is the high-water log of that moment.
LEMMA ReadsTheLog ==
  ASSUME IInv, [Next]_vars
  PROVE  \/ served' = served
         \/ /\ served' = hw /\ Range(hw) \cap refused = {}
            /\ UNCHANGED <<hw, acked, refused>>
<1> USE DEF IInv, TypeOK, store, process, history
<1>1. CASE Serve
  BY <1>1 DEF Serve, Idle, Flight, Hidden
<1>2. CASE Next /\ ~Serve
  BY <1>2 DEF Next, Open, OpenCheck, Close, Diverge, Begin, Write, Sync, CasReplies, CasErrs,
     WireLands, Load, Restore, RestoreSync, Verify, Kill, PowerLoss, RestoreBackup
<1>3. CASE UNCHANGED vars
  BY <1>3 DEF vars
<1> QED
  BY <1>1, <1>2, <1>3

\* Reads never go back.
THEOREM ReadsNeverGoBack == Spec => ReadsExtend
<1>1. IInv /\ [Next]_vars => [Extends(served', served)]_vars
  <2> SUFFICES ASSUME IInv, [Next]_vars PROVE Extends(served', served)
    OBVIOUS
  <2>1. served \in Log /\ Extends(hw, served)
    BY DEF IInv, TypeOK, Kept
  <2>2. served' = served \/ served' = hw
    BY ReadsTheLog
  <2> QED
    BY <2>1, <2>2, ExtendsSelf
<1> QED
  BY <1>1, JournalInvariant, PTL DEF Spec, ReadsExtend

-----------------------------------------------------------------------------
(* The refinement.                                                          *)

\* The high-water log changes by fresh appends only.
LEMMA LogAppends ==
  ASSUME IInv, [Next]_vars
  PROVE  \/ hw' = hw
         \/ /\ \E id \in Id \ Range(hw) : hw' = Append(hw, id)
            /\ UNCHANGED <<acked, refused, served>>
<1> USE DEF store, process, history
<1>1. CASE CasReplies
  BY <1>1, Swapping DEF CasReplies
<1>2. CASE CasErrs
  BY <1>2, Swapping DEF CasErrs
<1>3. CASE WireLands
  BY <1>3, OnTheWire DEF WireLands
<1>4. CASE Next /\ ~CasReplies /\ ~CasErrs /\ ~WireLands
  BY <1>4 DEF Next, Open, OpenCheck, Close, Serve, Diverge, Begin, Write, Sync,
     Load, Restore, RestoreSync, Verify, Kill, PowerLoss, RestoreBackup
<1>5. CASE UNCHANGED vars
  BY <1>5 DEF vars
<1> QED
  BY <1>1, <1>2, <1>3, <1>4, <1>5

\* Only a verified write is acknowledged, and only a write nobody has read refused.
LEMMA Answers ==
  ASSUME IInv, [Next]_vars
  PROVE  \/ UNCHANGED <<acked, refused>>
         \/ /\ issued \in Range(hw) \ refused /\ acked' = acked \cup {issued}
            /\ UNCHANGED <<hw, refused, served>>
         \/ /\ issued \in Id \ (acked \cup Range(served)) /\ refused' = refused \cup {issued}
            /\ UNCHANGED <<hw, acked, served>>
<1> USE DEF IInv, TypeOK, Own, Flight, store, process, history
<1>1. CASE Verify
  BY <1>1 DEF Verify, Poison, Closed
<1>2. CASE Write
  BY <1>2 DEF Write, RollBack
<1>3. CASE RestoreSync
  BY <1>3 DEF RestoreSync, RollBack
<1>4. CASE Next /\ ~Verify /\ ~Write /\ ~RestoreSync
  BY <1>4 DEF Next, Open, OpenCheck, Close, Serve, Diverge, Begin, Sync, CasReplies, CasErrs,
     WireLands, Load, Restore, Kill, PowerLoss, RestoreBackup
<1>5. CASE UNCHANGED vars
  BY <1>5 DEF vars
<1> QED
  BY <1>1, <1>2, <1>3, <1>4, <1>5

\* The journal implements the log it promises: every step of it, faults included.
THEOREM JournalImplementsHighWaterLog == Spec => ImplementsHighWaterLog
<1>1. Init => HighWater!Init
  BY DEF Init, HighWater!Init
<1>2. IInv /\ [Next]_vars => [HighWater!Next]_(HighWater!vars)
  <2> SUFFICES ASSUME IInv, [Next]_vars PROVE [HighWater!Next]_(HighWater!vars)
    OBVIOUS
  <2>1. CASE hw' # hw
    BY <2>1, LogAppends DEF HighWater!Next, HighWater!Advance, HighWater!Range, Range
  <2>2. CASE served' # served
    BY <2>2, ReadsTheLog DEF HighWater!Next, HighWater!Show, HighWater!Range, Range
  <2>3. CASE ~ UNCHANGED <<acked, refused>>
    BY <2>3, Answers DEF HighWater!Next, HighWater!Acknowledge, HighWater!Refuse,
     HighWater!Range, Range
  <2>4. CASE UNCHANGED <<hw, acked, refused, served>>
    BY <2>4 DEF HighWater!vars
  <2> QED
    BY <2>1, <2>2, <2>3, <2>4
<1> QED
  BY <1>1, <1>2, JournalInvariant, PTL DEF Spec, ImplementsHighWaterLog, HighWater!Spec

-----------------------------------------------------------------------------
(* What the promise is good for: these follow from it alone.                *)

\* What a log keeps that does no step but those of HighWaterLog.
PromiseInv ==
  /\ hw \in Log /\ served \in Log /\ Extends(hw, served)
  /\ acked \subseteq Range(hw) /\ acked \cap refused = {}
  /\ Range(served) \cap refused = {}

LEMMA PromiseStep ==
  PromiseInv /\ [HighWater!Next]_(HighWater!vars) => PromiseInv' /\ Extends(served', served)
<1> SUFFICES ASSUME PromiseInv, [HighWater!Next]_(HighWater!vars)
             PROVE  PromiseInv' /\ Extends(served', served)
  OBVIOUS
<1> USE DEF PromiseInv
<1>0. Extends(served, served)
  BY ExtendsSelf
<1>1. CASE HighWater!Advance
  <2>1. PICK id \in Id \ Range(hw) : hw' = Append(hw, id)
    BY <1>1 DEF HighWater!Advance, HighWater!Range, Range
  <2>2. hw' \in Log /\ Range(hw') = Range(hw) \cup {id} /\ Extends(hw', served)
    BY <2>1, AppendLog, ExtendsOn
  <2> QED
    BY <1>0, <1>1, <2>2 DEF HighWater!Advance
<1>2. CASE HighWater!Acknowledge
  BY <1>0, <1>2 DEF HighWater!Acknowledge, HighWater!Range, Range
<1>3. CASE HighWater!Refuse
  BY <1>0, <1>3 DEF HighWater!Refuse, HighWater!Range, Range
<1>4. CASE HighWater!Show
  <2>1. Range(hw) \cap refused = {} /\ served' = hw /\ UNCHANGED <<hw, acked, refused>>
    BY <1>4 DEF HighWater!Show, HighWater!Range, Range
  <2> QED
    BY <2>1, ExtendsSelf
<1>5. CASE UNCHANGED HighWater!vars
  BY <1>0, <1>5 DEF HighWater!vars
<1> QED
  BY <1>1, <1>2, <1>3, <1>4, <1>5 DEF HighWater!Next

LEMMA PromiseHolds == ImplementsHighWaterLog => []PromiseInv
<1>1. HighWater!Init => PromiseInv
  BY EmptyLog, ExtendsSelf DEF HighWater!Init, PromiseInv
<1> QED
  BY <1>1, PromiseStep, PTL DEF ImplementsHighWaterLog, HighWater!Spec

\* Whatever implements the promise has reads that never go back.
THEOREM PromiseOrdersReads == ImplementsHighWaterLog => ReadsExtend
<1>1. PromiseInv /\ [HighWater!Next]_(HighWater!vars) => [Extends(served', served)]_vars
  BY PromiseStep
<1> QED
  BY <1>1, PromiseHolds, PTL DEF ImplementsHighWaterLog, HighWater!Spec, ReadsExtend

\* Whatever implements the promise keeps what it acknowledged, and no write is
\* both acknowledged and refused, or both read and refused.
THEOREM PromiseKeepsAnswers ==
  ImplementsHighWaterLog =>
    [](acked \subseteq Range(hw) /\ (acked \cup Range(served)) \cap refused = {})
<1>1. PromiseInv => acked \subseteq Range(hw) /\ (acked \cup Range(served)) \cap refused = {}
  BY DEF PromiseInv
<1> QED
  BY <1>1, PromiseHolds, PTL

-----------------------------------------------------------------------------
(* Reopening.                                                               *)

Near(log, base) == log = base \/ Successor(log, base)

\* Without a scar, file and disk are at most one write ahead of the high-water
\* log, which is what memory has taken it for, or the swap under way.
Straight ==
  scars = {} =>
    /\ wire = <<>> /\ Near(file, hw) /\ Near(disk, hw)
    /\ life # "down" => hw = anchor \/ (pc = "load" /\ hw = state)
    /\ job = "recover" /\ pc # "check" => disk = file

\* No step but the four that scar it takes the file out of reach.
LEMMA NextStraight == IInv /\ Straight /\ [Next]_vars => Straight'
<1> SUFFICES ASSUME IInv, Straight, [Next]_vars, scars' = {} PROVE Straight'
  BY DEF Straight
<1>0. scars = {}
  BY DEF Next, vars, history, Open, OpenCheck, Close, Serve, Diverge, Begin, Write, Sync, CasReplies,
     CasErrs, WireLands, Load, Restore, RestoreSync, Verify, Kill, PowerLoss, RestoreBackup
<1> USE <1>0 DEF IInv, TypeOK, Straight, store, process, history
<1>1. CASE Open
  <2>1. Successor(file, hw) => file # hw /\ file # <<>>
    <3> SUFFICES ASSUME NEW id \in Id, file = Append(hw, id) PROVE file # hw /\ file # <<>>
      BY DEF Successor
    <3> QED
      BY AppendLog DEF Bounded
  <2> QED
    BY <1>1, <2>1 DEF Open
<1>2. CASE OpenCheck
  BY <1>2 DEF OpenCheck, Closed
<1>3. CASE Close
  BY <1>3 DEF Close, Closed
<1>4. CASE Serve
  BY <1>4 DEF Serve, Idle
<1>5. CASE Diverge
  BY <1>5 DEF Diverge, Idle
<1>6. CASE Begin
  BY <1>6 DEF Begin, Idle, NoFault
<1>7. CASE Write
  <2>1. Successor(state, anchor)
    BY <1>7 DEF Write, Flight, Own, Successor
  <2> QED
    BY <1>7, <2>1 DEF Write, RollBack, Closed, Near
<1>8. CASE Sync
  BY <1>8 DEF Sync, Poison, Closed
<1>9. CASE CasReplies
  <2>1. disk = file /\ file = state
    BY <1>9 DEF CasReplies, Flight, Own
  <2> QED
    BY <1>9, <2>1 DEF CasReplies, Adopt, Near
<1>10. CASE CasErrs
  <2>1. disk = file /\ file = state
    BY <1>10 DEF CasErrs, Flight, Own
  <2> QED
    BY <1>10, <2>1 DEF CasErrs, Near
<1>11. CASE WireLands
  BY <1>11 DEF WireLands
<1>12. CASE Load
  BY <1>12 DEF Load, Adopt, Closed
<1>13. CASE Restore
  BY <1>13 DEF Restore, Poison, Closed, Near
<1>14. CASE RestoreSync
  BY <1>14 DEF RestoreSync, RollBack, Poison, Closed, Near, Flight
<1>15. CASE Verify
  BY <1>15 DEF Verify, Poison, Closed
<1>16. CASE Kill
  BY <1>16 DEF Kill, Closed
<1>17. CASE PowerLoss
  BY <1>17 DEF PowerLoss, Closed
<1>18. CASE RestoreBackup
  BY <1>18 DEF RestoreBackup
<1>19. CASE UNCHANGED vars
  BY <1>19 DEF vars
<1> QED
  BY <1>1, <1>2, <1>3, <1>4, <1>5, <1>6, <1>7, <1>8, <1>9, <1>10, <1>11, <1>12,
     <1>13, <1>14, <1>15, <1>16, <1>17, <1>18, <1>19 DEF Next

\* Refusals, lost replies, failed fsyncs and crashes never wedge the journal.
THEOREM JournalReopens == Spec => []Reopens
<1>1. Init => Straight
  BY DEF Init, Straight, Near
<1>2. IInv /\ IInv' /\ Straight /\ [Next]_vars => Straight'
  BY NextStraight
<1>3. Straight => Reopens
  BY DEF Straight, Reopens, Near
<1> QED
  BY <1>1, <1>2, <1>3, JournalInvariant, PTL DEF Spec

-----------------------------------------------------------------------------
(* Refusals and the high-water store.                                       *)

\* As long as every swap has been answered, by its reply or by the Load after it,
\* a write under way is in the high-water log only if the call knows or will ask.
Answered == "blind" \notin scars /\ "late" \notin scars

Told ==
  Answered =>
    /\ wire = <<>> /\ refused \cap Range(hw) = {}
    /\ Own /\ pc \notin {"idle", "check", "load"} => issued \notin Range(hw)
    /\ Own /\ pc = "load" => issued \notin Range(hw) \/ hw = state

LEMMA NextTold == IInv /\ IInv' /\ Told /\ [Next]_vars => Told'
<1> SUFFICES ASSUME IInv, IInv', Told, [Next]_vars, Answered' PROVE Told'
  BY DEF Told
<1>0. Answered
  BY DEF Answered, Next, vars, history, Open, OpenCheck, Close, Serve, Diverge, Begin, Write, Sync, CasReplies,
     CasErrs, WireLands, Load, Restore, RestoreSync, Verify, Kill, PowerLoss, RestoreBackup
<1> USE <1>0 DEF IInv, TypeOK, Told, Own, store, process, history
<1>1. CASE Open
  BY <1>1, EmptyLog DEF Open
<1>2. CASE OpenCheck
  BY <1>2 DEF OpenCheck, Closed
<1>3. CASE Close
  BY <1>3 DEF Close, Closed
<1>4. CASE Serve
  BY <1>4 DEF Serve, Idle
<1>5. CASE Diverge
  BY <1>5 DEF Diverge, Idle
<1>6. CASE Begin
  BY <1>6, FreshWrite DEF Begin, Idle, NoFault, Bounded
<1>7. CASE Write
  BY <1>7 DEF Write, RollBack, Closed
<1>8. CASE Sync
  BY <1>8 DEF Sync, Poison, Closed
<1>9. CASE CasReplies
  BY <1>9 DEF CasReplies, Adopt, Hidden
<1>10. CASE CasErrs
  BY <1>10 DEF CasErrs, Hidden, Answered
<1>11. CASE WireLands
  BY <1>11 DEF WireLands
<1>12. CASE Load
  BY <1>12 DEF Load, Adopt, Closed, Answered
<1>13. CASE Restore
  BY <1>13 DEF Restore, Poison, Closed
<1>14. CASE RestoreSync
  BY <1>14 DEF RestoreSync, RollBack, Poison, Closed
<1>15. CASE Verify
  BY <1>15 DEF Verify, Poison, Closed
<1>16. CASE Kill
  BY <1>16 DEF Kill, Closed
<1>17. CASE PowerLoss
  BY <1>17 DEF PowerLoss, Closed
<1>18. CASE RestoreBackup
  BY <1>18 DEF RestoreBackup
<1>19. CASE UNCHANGED vars
  BY <1>19 DEF vars
<1> QED
  BY <1>1, <1>2, <1>3, <1>4, <1>5, <1>6, <1>7, <1>8, <1>9, <1>10, <1>11, <1>12,
     <1>13, <1>14, <1>15, <1>16, <1>17, <1>18, <1>19 DEF Next

\* No caller is told that a fenced write had no effect as long as every swap has
\* been answered: the two accidents are all that AdvancedHighWaterPoisons fails to.
THEOREM AnsweredSwapsPoison == Spec => [](Answered => AdvancedHighWaterPoisons)
<1>1. Init => Told
  BY EmptyLog DEF Init, Told, Own
<1>2. IInv /\ IInv' /\ Told /\ [Next]_vars => Told'
  BY NextTold
<1>3. Told => (Answered => AdvancedHighWaterPoisons)
  BY DEF Told, AdvancedHighWaterPoisons
<1> QED
  BY <1>1, <1>2, <1>3, JournalInvariant, PTL DEF Spec
=============================================================================
