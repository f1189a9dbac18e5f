--------------------------- MODULE ToolLoopProofs ---------------------------
(***************************************************************************)
(* Proofs about ToolLoop, for any numbers of carriers, requests, effects    *)
(* and texts, any turn limit and any number of faults.                      *)
(***************************************************************************)
EXTENDS ToolLoop, FiniteSetTheorems, TLAPS

-----------------------------------------------------------------------------
(* The inductive invariant.                                                 *)

LockedPcs == {"reconcile", "attempt", "execute", "commit", "mark", "complete"}
ResumePcs == {"lock", "reconcile", "attempt", "execute", "commit", "mark"}
UsePcs == {"use", "complete", "close"}
EndPcs == {"inspect", "finalize", "condemn"} \cup UsePcs
TodoPcs == ResumePcs \cup {"condemn", "use", "complete"}

Known(r) == r \in Run /\ runs[r].state # "none"

\* A run is settled with operations, and is of a request.
RunsInv ==
  \A r \in Run :
    /\ runs[r].state = "none" => runs[r] = NoRun
    /\ runs[r].state # "none" => runs[r].req \in Request
    /\ runs[r].state = "completed" => Members(r) # {}

\* An operation is in a run; a completed one has its receipt, which is the final
\* use of the artifact and pins the run and its text.
OpInv(e) ==
  /\ ops[e].state = "none" => ops[e] = NoOp
  /\ ops[e].state # "none" => Known(ops[e].run)
  /\ ops[e].state = "completed" => ops[e].fin # NoUse
  /\ ops[e].fin # NoUse =>
       /\ ops[e].fin = final
       /\ ops[e].run = final.run /\ ops[e].text = final.text
       /\ InOrder(final.run, final.ids)

OpsInv == \A e \in Effect : OpInv(e)

FinalInv == final # NoUse => final.text # None

\* A carrier works on a run there is, for a request, with operations of that run.
WorkInv(c) ==
  /\ cs[c].pc # "off" => cs[c].req \in Request
  /\ cs[c].pc \notin {"off", "begin"} => Known(cs[c].run)
  /\ cs[c].pc = "begin" => cs[c].ids = <<>>
  /\ \A i \in DOMAIN cs[c].ids : cs[c].ids[i] \in Members(cs[c].run)
  /\ cs[c].pc \in TodoPcs \cup {"reserve"} => cs[c].todo # <<>>
  /\ cs[c].pc \in TodoPcs =>
       \A i \in DOMAIN cs[c].todo : cs[c].todo[i] \in Members(cs[c].run)

CarrierInv == \A c \in Carrier : WorkInv(c)

\* Who goes on to record or to use a text has one, and operations; the final use
\* stands from the moment a carrier receipts it.
EndInv(c) ==
  /\ \/ cs[c].pc \in EndPcs \cup {"record"}
     \/ cs[c].pc \in ResumePcs /\ cs[c].after = "record"
     => cs[c].text \in Text
  /\ cs[c].pc \in EndPcs => cs[c].ids # <<>>
  /\ cs[c].pc \in UsePcs => final = Use(c)

TextInv == \A c \in Carrier : EndInv(c)

\* The holder of an operation's lock knows whether the effect took place, and no
\* two carriers hold the lock of one operation.
Informed(c) ==
  /\ cs[c].pc \in {"attempt", "execute"} => applied[Head(cs[c].todo)] = 0
  /\ cs[c].pc = "commit" => applied[Head(cs[c].todo)] = 1

Apart(c, d) ==
  /\ cs[c].pc \in LockedPcs /\ cs[d].pc \in LockedPcs
  /\ Head(cs[c].todo) = Head(cs[d].todo)
  => c = d

HoldInv == \A c, d \in Carrier : Informed(c) /\ Apart(c, d)

AnswersInv ==
  /\ answers \subseteq {final}
  /\ final = NoUse => answers = {}
  /\ \A a \in answers : a.run \in Run

\* A turn is counted in the journal before its answer is asked for.
Asking(r) == {c \in Carrier : cs[c].pc = "respond" /\ cs[c].run = r}
TurnsInv == \A r \in Run : asked[r] + Cardinality(Asking(r)) <= runs[r].turns

IInv ==
  /\ TypeOK /\ RunsInv /\ OpsInv /\ FinalInv /\ CarrierInv /\ TextInv /\ HoldInv
  /\ AnswersInv /\ TurnsInv
  /\ EffectsOnce /\ RunsInSequence /\ AnswersAreFinal /\ OneRunPerRequest

-----------------------------------------------------------------------------
(* Types.                                                                   *)

CState == [pc : Pcs, req : Request \cup {None}, run : 0..MaxRuns,
           ids : Seq(Effect), next : Nat, todo : Seq(Effect),
           after : {"survey", "turn", "record"},
           path : {"none", "resumed", "terminal"}, text : Text \cup {None}]

LEMMA CsType == TypeOK => cs \in [Carrier -> CState]
  BY DEF TypeOK, CState

LEMMA StepType ==
  ASSUME TypeOK, NEW c \in Carrier, NEW s \in CState, Step(c, s)
  PROVE  /\ cs' \in [Carrier -> CState] /\ cs'[c] = s
         /\ \A d \in Carrier \ {c} : cs'[d] = cs[d]
  BY CsType DEF Step

LEMMA OffType == Off \in CState
<1>1. 0 \in 0..MaxRuns /\ <<>> \in Seq(Effect) /\ 0 \in Nat
  BY ToolLoopConstants
<1> QED
  BY <1>1 DEF Off, CState, Pcs

LEMMA ResumingType ==
  ASSUME NEW s \in CState, NEW todo \in Seq(Effect), NEW after \in {"survey", "turn", "record"}
  PROVE  Resuming(s, todo, after) \in CState
<1>1. "lock" \in Pcs /\ after \in Pcs
  BY DEF Pcs
<1> DEFINE pc == IF todo = <<>> THEN after ELSE "lock"
<1>2. pc \in Pcs
  BY <1>1
<1> HIDE DEF pc
<1>3. [s EXCEPT !.pc = pc, !.todo = todo, !.after = after] \in CState
  BY <1>2 DEF CState
<1> QED
  BY <1>3 DEF Resuming, pc

LEMMA AdvanceType ==
  ASSUME NEW s \in CState, s.todo # <<>>, NEW again \in Pcs, NEW after \in Pcs
  PROVE  Advance(s, again, after) \in CState
<1>1. Tail(s.todo) \in Seq(Effect)
  BY DEF CState
<1> QED
  BY <1>1 DEF Advance, CState

LEMMA NoUseType == NoUse \in Digests
<1>1. 0 \in 0..MaxRuns /\ <<>> \in Seq(Effect)
  BY ToolLoopConstants
<1> QED
  BY <1>1 DEF NoUse, Digest, Digests

LEMMA UseType == ASSUME TypeOK, NEW c \in Carrier PROVE Use(c) \in Digests
  BY DEF TypeOK, Use, Digest, Digests

LEMMA MembersFinite ==
  ASSUME NEW r
  PROVE  /\ Members(r) \subseteq Effect /\ IsFiniteSet(Members(r))
         /\ Cardinality(Members(r)) \in Nat
<1>1. Members(r) \subseteq Effect
  BY DEF Members
<1>2. IsFiniteSet(Members(r))
  BY <1>1, FS_Subset, ToolLoopConstants
<1> QED
  BY <1>1, <1>2, FS_CardinalityType

LEMMA Listing ==
  ASSUME NEW r, Contiguous(r)
  PROVE  /\ RunOperations(r) \in Seq(Effect)
         /\ DOMAIN RunOperations(r) = 1..Cardinality(Members(r))
         /\ Len(RunOperations(r)) = Cardinality(Members(r))
         /\ \A i \in DOMAIN RunOperations(r) : RunOperations(r)[i] \in Members(r)
<1> DEFINE n == Cardinality(Members(r))
           s == RunOperations(r)
<1>1. n \in Nat /\ Members(r) \subseteq Effect
  BY MembersFinite
<1>2. s = [i \in 1..n |-> CHOOSE e \in Members(r) : ops[e].seq = i - 1]
  BY DEF RunOperations
<1>3. \A i \in 1..n : s[i] \in Members(r)
  BY <1>2 DEF Contiguous
<1>4. s \in [1..n -> Effect] /\ DOMAIN s = 1..n
  BY <1>1, <1>2, <1>3
<1>5. s \in Seq(Effect) /\ Len(s) = n
  BY <1>1, <1>4
<1> QED
  BY <1>3, <1>4, <1>5

LEMMA InitType == Init => TypeOK
<1> SUFFICES ASSUME Init PROVE TypeOK
  OBVIOUS
<1>1. 0 \in 0..MaxRuns /\ 0 \in 0..MaxStarts /\ 0 \in 0..MaxFaults /\ 0 \in 0..TurnLimit
  BY ToolLoopConstants
<1>2. cs \in [Carrier -> CState]
  BY OffType DEF Init
<1> QED
  BY <1>1, <1>2, NoUseType DEF Init, TypeOK, CState, NoRun, NoOp, RunStates, OpStates

RunRec == [state : RunStates, req : Request \cup {None}, turns : 0..TurnLimit]
OpRec == [state : OpStates, run : 0..MaxRuns, seq : Nat, text : Text \cup {None}, fin : Digests]

LEMMA Typed ==
  TypeOK <=> /\ runs \in [Run -> RunRec] /\ ops \in [Effect -> OpRec]
             /\ applied \in [Effect -> Nat] /\ final \in Digests
             /\ cs \in [Carrier -> CState]
             /\ starts \in 0..MaxStarts /\ faults \in 0..MaxFaults
             /\ asked \in [Run -> Nat] /\ answers \subseteq Digests
  BY DEF TypeOK, RunRec, OpRec, CState

LEMMA TypedNext ==
  ASSUME runs' \in [Run -> RunRec], ops' \in [Effect -> OpRec],
         applied' \in [Effect -> Nat], final' \in Digests, cs' \in [Carrier -> CState],
         starts' \in 0..MaxStarts, faults' \in 0..MaxFaults,
         asked' \in [Run -> Nat], answers' \subseteq Digests
  PROVE  TypeOK'
  BY DEF TypeOK, RunRec, OpRec, CState

LEMMA RunType ==
  ASSUME NEW r \in RunRec
  PROVE  /\ r.state \in RunStates /\ r.req \in Request \cup {None} /\ r.turns \in 0..TurnLimit
         /\ \A st \in RunStates : [r EXCEPT !.state = st] \in RunRec
         /\ \A n \in 0..TurnLimit : [r EXCEPT !.turns = n] \in RunRec
  BY DEF RunRec

LEMMA OpType ==
  ASSUME NEW o \in OpRec
  PROVE  /\ o.state \in OpStates /\ o.run \in 0..MaxRuns /\ o.seq \in Nat
         /\ o.text \in Text \cup {None} /\ o.fin \in Digests
         /\ \A st \in OpStates : [o EXCEPT !.state = st] \in OpRec
         /\ \A t \in Text \cup {None} : [o EXCEPT !.text = t] \in OpRec
         /\ \A f \in Digests, st \in OpStates : [o EXCEPT !.fin = f, !.state = st] \in OpRec
  BY DEF OpRec

LEMMA CarrierFields ==
  ASSUME NEW s \in CState
  PROVE  /\ s.pc \in Pcs /\ s.req \in Request \cup {None} /\ s.run \in 0..MaxRuns
         /\ s.ids \in Seq(Effect) /\ s.next \in Nat /\ s.todo \in Seq(Effect)
         /\ s.after \in {"survey", "turn", "record"} /\ s.text \in Text \cup {None}
  BY DEF CState

LEMMA CarrierType ==
  ASSUME NEW s \in CState
  PROVE  /\ \A pc \in Pcs : [s EXCEPT !.pc = pc] \in CState
         /\ \A pc \in Pcs, todo \in Seq(Effect) : [s EXCEPT !.pc = pc, !.todo = todo] \in CState
         /\ \A todo \in Seq(Effect) : [s EXCEPT !.todo = todo] \in CState
         /\ \A ids \in Seq(Effect), n \in Nat : [s EXCEPT !.ids = ids, !.next = n] \in CState
         /\ \A t \in Text : [s EXCEPT !.text = t] \in CState
         /\ \A pc \in Pcs, r \in 0..MaxRuns : [s EXCEPT !.pc = pc, !.run = r] \in CState
         /\ \A pc \in Pcs, p \in {"resumed", "terminal"} : [s EXCEPT !.pc = pc, !.path = p] \in CState
         /\ \A pc \in Pcs, t \in Text \cup {None}, p \in {"resumed", "terminal"} :
              [s EXCEPT !.pc = pc, !.text = t, !.path = p] \in CState
  BY DEF CState

LEMMA HeadOf ==
  ASSUME TypeOK, CarrierInv, NEW c \in Carrier, cs[c].pc \in TodoPcs \cup {"reserve"}
  PROVE  /\ cs[c].todo \in Seq(Effect) /\ cs[c].todo # <<>>
         /\ Head(cs[c].todo) \in Effect /\ Head(cs[c].todo) = cs[c].todo[1]
         /\ 1 \in DOMAIN cs[c].todo
         /\ cs[c].pc \in TodoPcs => Head(cs[c].todo) \in Members(cs[c].run)
<1>1. cs[c].todo \in Seq(Effect) /\ cs[c].todo # <<>>
  BY DEF TypeOK, CarrierInv, WorkInv
<1>2. Head(cs[c].todo) \in Effect /\ Head(cs[c].todo) = cs[c].todo[1] /\ 1 \in DOMAIN cs[c].todo
  BY <1>1
<1> QED
  BY <1>1, <1>2 DEF CarrierInv, WorkInv

LEMMA FaultCounted ==
  ASSUME TypeOK, NEW kind, Fault(kind) PROVE faults' \in 0..MaxFaults
  BY ToolLoopConstants DEF TypeOK, Fault

LEMMA QuarantineType ==
  ASSUME TypeOK, NEW e \in Effect, Quarantine(e)
  PROVE  ops' \in [Effect -> OpRec]
<1>1. [ops[e] EXCEPT !.state = "quarantined"] \in OpRec
  BY Typed, OpType DEF OpStates
<1> QED
  BY <1>1, Typed DEF Quarantine

LEMMA ActionType ==
  ASSUME TypeOK, CarrierInv, NEW c \in Carrier, CarrierStep(c)
  PROVE  TypeOK'
<1> DEFINE s == cs[c]
<1>0. s \in CState
  BY Typed
<1>p. \A pc \in Pcs : [s EXCEPT !.pc = pc] \in CState
  BY <1>0, CarrierType
<1>1. CASE Recover(c)
  <2>1. starts' \in 0..MaxStarts
    <3>1. starts < MaxStarts /\ starts' = starts + 1 /\ starts \in 0..MaxStarts
      BY <1>1, Typed DEF Recover
    <3> QED
      BY <3>1, ToolLoopConstants
  <2>2. \A q \in Request : [Off EXCEPT !.pc = "begin", !.req = q] \in CState
    BY OffType DEF CState, Pcs
  <2>3. \A q \in Request, r \in 0..MaxRuns :
          [Off EXCEPT !.pc = "load", !.req = q, !.run = r] \in CState
    BY OffType DEF CState, Pcs
  <2>4. cs' \in [Carrier -> CState]
    <3>1. PICK q \in Request :
            \/ Step(c, [Off EXCEPT !.pc = "begin", !.req = q])
            \/ \E r \in LiveRuns : Step(c, [Off EXCEPT !.pc = "load", !.req = q, !.run = r])
      BY <1>1 DEF Recover
    <3>2. LiveRuns \subseteq 0..MaxRuns
      BY ToolLoopConstants DEF LiveRuns, Run
    <3> QED
      BY <3>1, <3>2, <2>2, <2>3, StepType
  <2> QED
    BY <1>1, <2>1, <2>4, Typed, TypedNext DEF Recover, journal, world, history
<1>2. CASE Begin(c)
  <2>1. cs' \in [Carrier -> CState]
    <3>1. PICK r \in Run : Step(c, [s EXCEPT !.pc = "load", !.run = r])
      BY <1>2 DEF Begin, SameRequest
    <3>2. r \in 0..MaxRuns /\ "load" \in Pcs
      BY ToolLoopConstants DEF Run, Pcs
    <3> QED
      BY <1>0, <3>1, <3>2, CarrierType, StepType
  <2>2. runs' \in [Run -> RunRec]
    <3>1. [state |-> "active", req |-> s.req, turns |-> 0] \in RunRec
      BY <1>0, CarrierFields, ToolLoopConstants DEF RunRec, RunStates
    <3> QED
      BY <1>2, <3>1, Typed DEF Begin
  <2> QED
    BY <1>2, <2>1, <2>2, Typed, TypedNext DEF Begin, world, bounds, history
<1>3. CASE Load(c)
  <2>1. RunOperations(s.run) \in Seq(Effect) /\ Len(RunOperations(s.run)) \in Nat
    BY <1>3, Listing DEF Load
  <2>2. [s EXCEPT !.ids = RunOperations(s.run), !.next = Len(RunOperations(s.run))] \in CState
    BY <1>0, <2>1, CarrierType
  <2>3. cs' \in [Carrier -> CState]
    BY <1>3, <2>1, <2>2, ResumingType, StepType DEF Load
  <2> QED
    BY <1>3, <2>3, Typed, TypedNext DEF Load, journal, world, bounds, history
<1>4. CASE Lock(c) \/ Attempt(c) \/ Execute(c) \/ CommitEffect(c)
  <2>1. \E pc \in Pcs : Step(c, [s EXCEPT !.pc = pc])
    BY <1>4 DEF Lock, Attempt, Execute, CommitEffect, Goto, Pcs
  <2>2. cs' \in [Carrier -> CState]
    BY <1>p, <2>1, StepType
  <2>3. Head(s.todo) \in Effect
    BY <1>4, HeadOf DEF Lock, Attempt, Execute, CommitEffect, TodoPcs, ResumePcs
  <2>4. CASE Execute(c)
    <3>1. applied' \in [Effect -> Nat]
      BY <2>3, <2>4, Typed DEF Execute
    <3> QED
      BY <2>2, <2>4, <3>1, Typed, TypedNext DEF Execute, journal, bounds, history
  <2>5. CASE CommitEffect(c)
    <3>1. [ops[Head(s.todo)] EXCEPT !.state = "committed"] \in OpRec
      BY <2>3, Typed, OpType DEF OpStates
    <3>2. ops' \in [Effect -> OpRec]
      BY <2>3, <2>5, <3>1, Typed DEF CommitEffect
    <3> QED
      BY <2>2, <2>5, <3>2, Typed, TypedNext DEF CommitEffect, world, bounds, history
  <2>6. CASE Lock(c)
    BY <2>2, <2>6, Typed, TypedNext DEF Lock, journal, world, bounds, history
  <2>7. CASE Attempt(c)
    BY <2>2, <2>7, Typed, TypedNext DEF Attempt, journal, world, bounds, history
  <2> QED
    BY <1>4, <2>4, <2>5, <2>6, <2>7
<1>5. CASE Reconcile(c)
  <2>1. Head(s.todo) \in Effect
    BY <1>5, HeadOf DEF Reconcile, TodoPcs, ResumePcs
  <2>2. cs' \in [Carrier -> CState]
    <3>1. Step(c, Off) \/ \E pc \in Pcs : Step(c, [s EXCEPT !.pc = pc])
      BY <1>5 DEF Reconcile, Goto, Pcs
    <3> QED
      BY <1>p, <3>1, OffType, StepType
  <2>3. ops' \in [Effect -> OpRec]
    <3>1. ops' = ops \/ Quarantine(Head(s.todo))
      BY <1>5 DEF Reconcile
    <3> QED
      BY <2>1, <3>1, QuarantineType, Typed
  <2>4. faults' \in 0..MaxFaults
    <3>1. faults' = faults \/ Fault("ambiguous")
      BY <1>5 DEF Reconcile
    <3> QED
      BY <3>1, FaultCounted, Typed
  <2> QED
    BY <1>5, <2>2, <2>3, <2>4, Typed, TypedNext DEF Reconcile, world, history
<1>6. CASE Mark(c)
  <2>1. Head(s.todo) \in Effect /\ s.todo # <<>>
    BY <1>6, HeadOf DEF Mark, TodoPcs, ResumePcs
  <2>2. cs' \in [Carrier -> CState]
    <3>1. "lock" \in Pcs /\ s.after \in Pcs
      BY <1>0, CarrierFields DEF Pcs
    <3>2. Advance(s, "lock", s.after) \in CState
      BY <1>0, <2>1, <3>1, AdvanceType
    <3> QED
      BY <1>6, <3>2, StepType DEF Mark
  <2>3. ops' \in [Effect -> OpRec]
    <3>1. [ops[Head(s.todo)] EXCEPT !.state = "sent"] \in OpRec
      BY <2>1, Typed, OpType DEF OpStates
    <3> QED
      BY <1>6, <2>1, <3>1, Typed DEF Mark
  <2> QED
    BY <1>6, <2>2, <2>3, Typed, TypedNext DEF Mark, world, bounds, history
<1>7. CASE Survey(c)
  <2>1. cs' \in [Carrier -> CState]
    <3>1. \/ Step(c, [s EXCEPT !.pc = "turn"])
          \/ /\ s.ids # <<>>
             /\ Step(c, [s EXCEPT !.pc = "inspect", !.text = ops[s.ids[1]].text, !.path = "resumed"])
      BY <1>7 DEF Survey, Goto
    <3>2. s.ids # <<>> => s.ids[1] \in Effect
      <4>1. s.ids \in Seq(Effect)
        BY <1>0, CarrierFields
      <4> QED
        BY <4>1
    <3>3. s.ids # <<>> => ops[s.ids[1]].text \in Text \cup {None}
      BY <3>2, Typed, OpType
    <3>4. s.ids # <<>> =>
            [s EXCEPT !.pc = "inspect", !.text = ops[s.ids[1]].text, !.path = "resumed"] \in CState
      BY <1>0, <3>3, CarrierType DEF Pcs
    <3>5. [s EXCEPT !.pc = "turn"] \in CState
      BY <1>p DEF Pcs
    <3> QED
      BY <3>1, <3>4, <3>5, StepType
  <2> QED
    BY <1>7, <2>1, Typed, TypedNext DEF Survey, journal, world, bounds, history
<1>8. CASE BeginProviderTurn(c)
  <2>1. cs' \in [Carrier -> CState]
    <3>1. Step(c, Off) \/ \E pc \in Pcs : Step(c, [s EXCEPT !.pc = pc])
      BY <1>8 DEF BeginProviderTurn, Goto, Pcs
    <3> QED
      BY <1>p, <3>1, OffType, StepType
  <2>2. runs' \in [Run -> RunRec]
    <3>0. ASSUME s.run \in Run PROVE runs' \in [Run -> RunRec]
      <4>1. runs[s.run] \in RunRec
        BY <3>0, Typed
      <4>2. [runs[s.run] EXCEPT !.state = "blocked"] \in RunRec
        BY <4>1, RunType DEF RunStates
      <4>3. CASE runs[s.run].turns >= TurnLimit
        BY <1>8, <3>0, <4>2, <4>3, Typed DEF BeginProviderTurn
      <4>4. CASE ~(runs[s.run].turns >= TurnLimit)
        <5>1. runs[s.run].turns + 1 \in 0..TurnLimit
          BY <4>1, <4>4, RunType, ToolLoopConstants
        <5>2. [runs[s.run] EXCEPT !.turns = runs[s.run].turns + 1] \in RunRec
          BY <4>1, <5>1, RunType
        <5> QED
          BY <1>8, <3>0, <4>4, <5>2, Typed DEF BeginProviderTurn
      <4> QED
        BY <4>3, <4>4
    <3> QED
      BY <1>8, <3>0 DEF CarrierInv, WorkInv, Known, BeginProviderTurn
  <2> QED
    BY <1>8, <2>1, <2>2, Typed, TypedNext DEF BeginProviderTurn, world, bounds, history
<1>9. CASE Respond(c)
  <2>1. \A t \in Text : [s EXCEPT !.text = t] \in CState
    BY <1>0, CarrierType
  <2>2. \A e \in Effect : [s EXCEPT !.pc = "reserve", !.todo = <<e>>] \in CState
    <3>1. \A e \in Effect : <<e>> \in Seq(Effect)
      OBVIOUS
    <3> QED
      BY <1>0, <3>1, CarrierType DEF Pcs
  <2>3. s.ids \in Seq(Effect)
    BY <1>0, CarrierFields
  <2>4. cs' \in [Carrier -> CState]
    <3>1. \/ \E t \in Text : Step(c, Resuming([s EXCEPT !.text = t], s.ids, "record"))
          \/ \E e \in Effect : Step(c, [s EXCEPT !.pc = "reserve", !.todo = <<e>>])
      BY <1>9 DEF Respond
    <3> QED
      BY <2>1, <2>2, <2>3, <3>1, ResumingType, StepType
  <2>5. asked' \in [Run -> Nat]
    <3>0. s.run \in Run
      BY <1>9 DEF Respond, CarrierInv, WorkInv, Known
    <3>1. asked[s.run] + 1 \in Nat
      BY <3>0, Typed
    <3> QED
      BY <1>9, <3>1, Typed DEF Respond
  <2> QED
    BY <1>9, <2>4, <2>5, Typed, TypedNext DEF Respond, journal, world, bounds
<1>10. CASE Reserve(c)
  <2>1. Head(s.todo) \in Effect
    BY <1>10, HeadOf DEF Reserve
  <2>2. ASSUME NEW next \in Nat, Joined(c, Head(s.todo), next)
        PROVE  cs' \in [Carrier -> CState]
    <3> DEFINE ids == IF Listed(Head(s.todo), s.ids) THEN s.ids ELSE Append(s.ids, Head(s.todo))
    <3>1. ids \in Seq(Effect) /\ <<Head(s.todo)>> \in Seq(Effect)
      <4>1. s.ids \in Seq(Effect)
        BY <1>0, CarrierFields
      <4> QED
        BY <2>1, <4>1
    <3>2. [s EXCEPT !.ids = ids, !.next = next] \in CState
      BY <1>0, <3>1, CarrierType
    <3>3. Step(c, Resuming([s EXCEPT !.ids = ids, !.next = next], <<Head(s.todo)>>, "turn"))
      BY <2>2 DEF Joined
    <3> HIDE DEF ids
    <3> QED
      BY <3>1, <3>2, <3>3, ResumingType, StepType
  <2>3. CASE Collide(c)
    <3>1. faults' \in 0..MaxFaults
      BY <2>3, FaultCounted DEF Collide
    <3>2. cs' \in [Carrier -> CState]
      BY <2>3, OffType, StepType DEF Collide
    <3>3. PICK e \in Effect : Quarantine(e)
      BY <2>3 DEF Collide
    <3>4. ops' \in [Effect -> OpRec]
      BY <3>3, QuarantineType
    <3> QED
      BY <1>10, <3>1, <3>2, <3>4, Typed, TypedNext DEF Reserve, world, history
  <2>4. CASE Replay(c)
    <3>1. cs' \in [Carrier -> CState]
      BY <1>0, <2>2, <2>4, CarrierFields DEF Replay
    <3> QED
      BY <1>10, <2>4, <3>1, Typed, TypedNext DEF Reserve, Replay, world, history
  <2>5. CASE Create(c)
    <3>1. s.next \in Nat /\ s.next + 1 \in Nat /\ s.run \in 0..MaxRuns
      BY <1>0, CarrierFields
    <3>2. cs' \in [Carrier -> CState]
      BY <3>1, <2>2, <2>5 DEF Create
    <3>3. [NoOp EXCEPT !.state = "reserved", !.run = s.run, !.seq = s.next] \in OpRec
      BY <3>1, NoUseType DEF NoOp, OpRec, OpStates
    <3>4. ops' \in [Effect -> OpRec]
      BY <2>1, <2>5, <3>3, Typed DEF Create
    <3> QED
      BY <1>10, <2>5, <3>2, <3>4, Typed, TypedNext DEF Reserve, Create, world, history
  <2> QED
    BY <1>10, <2>3, <2>4, <2>5 DEF Reserve
<1>11. CASE RecordRunTerminalResponse(c)
  <2>1. cs' \in [Carrier -> CState]
    <3>1. [s EXCEPT !.pc = "inspect", !.path = "terminal"] \in CState
      BY <1>0, CarrierType DEF Pcs
    <3> QED
      BY <1>11, <3>1, StepType DEF RecordRunTerminalResponse
  <2>2. ops' \in [Effect -> OpRec]
    <3>1. \A e \in Effect : [ops[e] EXCEPT !.text = s.text] \in OpRec
      BY <1>0, CarrierFields, Typed, OpType
    <3> QED
      BY <1>11, <3>1, Typed DEF RecordRunTerminalResponse
  <2> QED
    BY <1>11, <2>1, <2>2, Typed, TypedNext DEF RecordRunTerminalResponse, world, bounds, history
<1>12. CASE Inspect(c)
  <2>1. [s EXCEPT !.pc = "finalize"] \in CState
        /\ \A pc \in {"use", "condemn"} : [s EXCEPT !.pc = pc, !.todo = s.ids] \in CState
    BY <1>0, CarrierFields, CarrierType DEF Pcs
  <2>2. cs' \in [Carrier -> CState]
    BY <1>12, <2>1, StepType DEF Inspect, Used, Goto
  <2>3. faults' \in 0..MaxFaults
    <3>1. faults' = faults \/ Fault("absent") \/ Fault("ambiguous")
      BY <1>12 DEF Inspect
    <3> QED
      BY <3>1, FaultCounted, Typed
  <2> QED
    BY <1>12, <2>2, <2>3, Typed, TypedNext DEF Inspect, journal, world, history
<1>13. CASE Finalize(c)
  <2>1. [s EXCEPT !.pc = "use", !.todo = s.ids] \in CState
    BY <1>0, CarrierFields, CarrierType DEF Pcs
  <2>2. cs' \in [Carrier -> CState]
    BY <1>13, <2>1, StepType DEF Finalize, Used
  <2> QED
    BY <1>13, <2>2, UseType, Typed, TypedNext DEF Finalize, journal, bounds, history
<1>14. CASE Condemn(c)
  <2>1. Head(s.todo) \in Effect /\ s.todo # <<>>
    BY <1>14, HeadOf DEF Condemn, TodoPcs
  <2>2. [s EXCEPT !.todo = Tail(s.todo)] \in CState
    <3>1. s.todo \in Seq(Effect)
      BY <1>0, CarrierFields
    <3>2. Tail(s.todo) \in Seq(Effect)
      BY <2>1, <3>1
    <3> QED
      BY <1>0, <3>2, CarrierType
  <2>3. cs' \in [Carrier -> CState]
    BY <1>14, <2>2, OffType, StepType DEF Condemn
  <2>4. ops' \in [Effect -> OpRec]
    BY <1>14, <2>1, QuarantineType DEF Condemn
  <2> QED
    BY <1>14, <2>3, <2>4, Typed, TypedNext DEF Condemn, world, bounds, history
<1>15. CASE CommitFinalUse(c)
  <2>1. Head(s.todo) \in Effect /\ s.todo # <<>>
    BY <1>15, HeadOf DEF CommitFinalUse, TodoPcs
  <2>2. Advance(s, "use", "close") \in CState /\ [s EXCEPT !.pc = "complete"] \in CState
    BY <1>0, <1>p, <2>1, AdvanceType DEF Pcs
  <2>3. cs' \in [Carrier -> CState]
    BY <1>15, <2>2, StepType DEF CommitFinalUse, Goto
  <2>4. ops' \in [Effect -> OpRec]
    <3> DEFINE e == Head(s.todo)
               o == [ops[e] EXCEPT !.fin = Use(c),
                       !.state = IF ops[e].state = "completed" THEN ops[e].state ELSE "sent"]
    <3>1. ops' = ops \/ ops' = [ops EXCEPT ![e] = o]
      BY <1>15, <2>1, Typed DEF CommitFinalUse
    <3>2. o \in OpRec
      BY <2>1, UseType, Typed, OpType DEF OpStates
    <3> QED
      BY <2>1, <3>1, <3>2, Typed
  <2> QED
    BY <1>15, <2>3, <2>4, Typed, TypedNext DEF CommitFinalUse, world, bounds, history
<1>16. CASE Complete(c)
  <2>1. Head(s.todo) \in Effect /\ s.todo # <<>>
    BY <1>16, HeadOf DEF Complete, TodoPcs
  <2>2. cs' \in [Carrier -> CState]
    <3>1. Advance(s, "use", "close") \in CState
      BY <1>0, <2>1, AdvanceType DEF Pcs
    <3> QED
      BY <1>16, <3>1, StepType DEF Complete
  <2>3. ops' \in [Effect -> OpRec]
    <3>1. [ops[Head(s.todo)] EXCEPT !.state = "completed"] \in OpRec
      BY <2>1, Typed, OpType DEF OpStates
    <3> QED
      BY <1>16, <2>1, <3>1, Typed DEF Complete
  <2> QED
    BY <1>16, <2>2, <2>3, Typed, TypedNext DEF Complete, world, bounds, history
<1>17. CASE CompleteRun(c)
  <2>1. cs' \in [Carrier -> CState]
    BY <1>17, OffType, StepType DEF CompleteRun
  <2>2. runs' \in [Run -> RunRec]
    <3>1. s.run \in Run
      BY <1>17 DEF CarrierInv, WorkInv, Known, CompleteRun
    <3>2. [runs[s.run] EXCEPT !.state = "completed"] \in RunRec
      BY <3>1, Typed, RunType DEF RunStates
    <3> QED
      BY <1>17, <3>1, <3>2, Typed DEF CompleteRun
  <2>3. answers' \subseteq Digests
    BY <1>17, UseType, Typed DEF CompleteRun
  <2> QED
    BY <1>17, <2>1, <2>2, <2>3, Typed, TypedNext DEF CompleteRun, world, bounds
<1>18. CASE GiveUp(c)
  <2>1. cs' \in [Carrier -> CState]
    BY <1>18, OffType, StepType DEF GiveUp
  <2> QED
    BY <1>18, <2>1, Typed, TypedNext DEF GiveUp, journal, world, bounds, history
<1> QED
  BY <1>1, <1>2, <1>3, <1>4, <1>5, <1>6, <1>7, <1>8, <1>9, <1>10, <1>11, <1>12, <1>13,
     <1>14, <1>15, <1>16, <1>17, <1>18 DEF CarrierStep, Resume, Finish

LEMMA NextType == TypeOK /\ CarrierInv /\ [Next]_vars => TypeOK'
<1> SUFFICES ASSUME TypeOK, CarrierInv, [Next]_vars PROVE TypeOK'
  OBVIOUS
<1>1. CASE Crash
  <2>1. cs' \in [Carrier -> CState]
    BY <1>1, OffType DEF Crash
  <2>2. faults' \in 0..MaxFaults
    BY <1>1, FaultCounted DEF Crash
  <2> QED
    BY <1>1, <2>1, <2>2, Typed, TypedNext DEF Crash, journal, world, history
<1>2. CASE \E c \in Carrier : CarrierStep(c)
  BY <1>2, ActionType
<1>3. CASE UNCHANGED vars
  BY <1>3 DEF vars, TypeOK
<1> QED
  BY <1>1, <1>2, <1>3 DEF Next

-----------------------------------------------------------------------------
(* What a step does to the operations.                                      *)

\* The state of an operation moves, and nothing else of it.
Moves(e, st) ==
  /\ ops[e].state # "none" /\ st \in OpStates \ {"none"}
  /\ ops' = [ops EXCEPT ![e].state = st]
  /\ st \in {"committed", "sent", "completed"} =>
       applied[e] = 1 \/ ops[e].state \in {"committed", "sent", "completed"}
  /\ st = "completed" => ops[e].fin # NoUse

Records(c) ==
  /\ cs[c].text \in Text
  /\ \A e \in Effect : Listed(e, cs[c].ids) =>
       ops[e].state \in {"sent", "completed"} /\ ops[e].text \in {None, cs[c].text}
  /\ ops' = [e \in Effect |-> IF Listed(e, cs[c].ids) THEN [ops[e] EXCEPT !.text = cs[c].text] ELSE ops[e]]

Receipts(e) ==
  /\ final # NoUse
  /\ ops[e].state \in {"committed", "sent", "completed"}
  /\ ops[e].run = final.run /\ ops[e].text = final.text /\ InOrder(final.run, final.ids)
  /\ ops' = [ops EXCEPT ![e] = [ops[e] EXCEPT !.fin = final,
               !.state = IF ops[e].state = "completed" THEN ops[e].state ELSE "sent"]]

\* e joins the run r as the operation number n.
Joins(e, r, n) ==
  /\ ops[e].state = "none" /\ r \in Run /\ runs[r].state = "active"
  /\ \A m \in Members(r) : ops[m].fin = NoUse
  /\ n = Cardinality(Members(r))
  /\ ops' = [ops EXCEPT ![e] = [NoOp EXCEPT !.state = "reserved", !.run = r, !.seq = n]]

OpsStep ==
  \/ ops' = ops
  \/ \E e \in Effect : \E st \in OpStates : Moves(e, st)
  \/ final' = final /\ \E c \in Carrier : Records(c)
  \/ final' = final /\ \E e \in Effect : Receipts(e)
  \/ final' = final /\ runs' = runs /\ \E e \in Effect, r \in Run, n \in Nat : Joins(e, r, n)

LEMMA OpsSteps ==
  ASSUME IInv, NEW c \in Carrier, CarrierStep(c)
  PROVE  OpsStep
<1> DEFINE s == cs[c]
           h == Head(s.todo)
<1>0. TypeOK /\ CarrierInv /\ OpsInv /\ TextInv /\ HoldInv /\ EffectsOnce /\ s \in CState
  BY Typed DEF IInv
<1>h. s.pc \in TodoPcs => h \in Effect /\ ops[h].state # "none"
  BY <1>0, HeadOf DEF Members
<1>q. ASSUME s.pc \in TodoPcs, Quarantine(h) PROVE OpsStep
  <2>1. Moves(h, "quarantined")
    BY <1>h, <1>q DEF Moves, Quarantine, OpStates
  <2> QED
    BY <1>h, <1>q, <2>1 DEF OpsStep, OpStates
<1>1. CASE Recover(c) \/ Begin(c) \/ Load(c) \/ Lock(c) \/ Attempt(c) \/ Execute(c) \/ Survey(c)
           \/ BeginProviderTurn(c) \/ Respond(c) \/ Inspect(c) \/ Finalize(c) \/ CompleteRun(c)
           \/ GiveUp(c)
  BY <1>1 DEF OpsStep, Recover, Begin, Load, Lock, Attempt, Execute, Survey, BeginProviderTurn,
     Respond, Inspect, Finalize, CompleteRun, GiveUp, journal
<1>2. CASE Reconcile(c)
  <2>1. s.pc \in TodoPcs
    BY <1>2 DEF Reconcile, TodoPcs, ResumePcs
  <2> QED
    BY <1>2, <1>q, <2>1 DEF Reconcile, OpsStep
<1>3. CASE CommitEffect(c)
  <2>1. s.pc \in TodoPcs
    BY <1>3 DEF CommitEffect, TodoPcs, ResumePcs
  <2>2. applied[h] = 1
    BY <1>0, <1>3 DEF HoldInv, Informed, CommitEffect
  <2>3. Moves(h, "committed")
    BY <1>3, <1>h, <2>1, <2>2 DEF CommitEffect, Moves, OpStates
  <2> QED
    BY <1>h, <2>1, <2>3 DEF OpsStep, OpStates
<1>4. CASE Mark(c)
  <2>1. s.pc \in TodoPcs
    BY <1>4 DEF Mark, TodoPcs, ResumePcs
  <2>2. ops' = ops \/ Moves(h, "sent")
    BY <1>4, <1>h, <2>1 DEF Mark, Moves, OpStates
  <2> QED
    BY <1>h, <2>1, <2>2 DEF OpsStep, OpStates
<1>5. CASE Reserve(c)
  <2>1. CASE Collide(c)
    <3>1. PICK e \in Effect : ops[e].state # "none" /\ Quarantine(e)
      BY <2>1 DEF Collide
    <3>2. Moves(e, "quarantined")
      BY <3>1 DEF Moves, Quarantine, OpStates
    <3> QED
      BY <3>2 DEF OpsStep, OpStates
  <2>2. CASE Replay(c)
    BY <2>2 DEF Replay, OpsStep
  <2>3. CASE Create(c)
    <3>1. h \in Effect
      BY <1>0, <1>5, HeadOf DEF Reserve
    <3>2. s.run \in Run /\ s.next \in Nat
      BY <1>0, <1>5, CarrierFields DEF CarrierInv, WorkInv, Known, Reserve
    <3>3. Joins(h, s.run, s.next)
      BY <1>5, <2>3, <3>2 DEF Reserve, Create, Joins
    <3>4. final' = final /\ runs' = runs
      BY <1>5 DEF Reserve, world
    <3> QED
      BY <3>1, <3>2, <3>3, <3>4 DEF OpsStep
  <2> QED
    BY <1>5, <2>1, <2>2, <2>3 DEF Reserve
<1>6. CASE RecordRunTerminalResponse(c)
  <2>1. s.text \in Text
    BY <1>0, <1>6 DEF TextInv, EndInv, RecordRunTerminalResponse
  <2>2. Records(c) /\ final' = final
    BY <1>6, <2>1 DEF Records, RecordRunTerminalResponse, world
  <2> QED
    BY <2>2 DEF OpsStep
<1>7. CASE Condemn(c)
  <2>1. s.pc \in TodoPcs
    BY <1>7 DEF Condemn, TodoPcs
  <2> QED
    BY <1>7, <1>q, <2>1 DEF Condemn
<1>8. CASE CommitFinalUse(c)
  <2>1. s.pc \in TodoPcs /\ h \in Effect
    BY <1>8, <1>h DEF CommitFinalUse, TodoPcs
  <2>2. final = Use(c) /\ s.text \in Text
    BY <1>0, <1>8 DEF TextInv, EndInv, CommitFinalUse, UsePcs, EndPcs
  <2>3. final' = final
    BY <1>8 DEF CommitFinalUse, world
  <2>4. final # NoUse
    BY <2>2, ToolLoopConstants DEF Use, Digest, NoUse
  <2>5. final.run = s.run /\ final.text = s.text /\ final.ids = s.ids
    BY <2>2 DEF Use, Digest
  <2>6. ASSUME ops' # ops PROVE Receipts(h)
    <3>1. /\ ops[h].state \in {"committed", "sent", "completed"}
          /\ InOrder(ops[h].run, s.ids)
          /\ Use(c) = Digest(ops[h].run, ops[h].text, s.ids)
          /\ ops' = [ops EXCEPT ![h].fin = Use(c),
                                ![h].state = IF @ = "completed" THEN @ ELSE "sent"]
      BY <1>8, <2>6 DEF CommitFinalUse
    <3>2. ops[h].run = s.run /\ ops[h].text = s.text
      BY <3>1 DEF Use, Digest
    <3>3. ops' = [ops EXCEPT ![h] = [ops[h] EXCEPT !.fin = final,
                     !.state = IF ops[h].state = "completed" THEN ops[h].state ELSE "sent"]]
      BY <1>0, <2>1, <2>2, <3>1, Typed
    <3> QED
      BY <2>4, <2>5, <3>1, <3>2, <3>3 DEF Receipts
  <2> QED
    BY <2>1, <2>3, <2>6 DEF OpsStep
<1>9. CASE Complete(c)
  <2>1. s.pc \in TodoPcs
    BY <1>9 DEF Complete, TodoPcs
  <2>2. Moves(h, "completed")
    BY <1>9, <1>h, <2>1 DEF Complete, Moves, OpStates
  <2> QED
    BY <1>h, <2>1, <2>2 DEF OpsStep, OpStates
<1> QED
  BY <1>1, <1>2, <1>3, <1>4, <1>5, <1>6, <1>7, <1>8, <1>9 DEF CarrierStep, Resume, Finish

\* What follows for each operation: it stays in its run and keeps its number, a
\* receipt and the text under it stay, and at most one joins.
OpKept(e) ==
  /\ ops[e].state # "none" =>
       /\ ops'[e].state # "none" /\ ops'[e].run = ops[e].run /\ ops'[e].seq = ops[e].seq
  /\ ops[e].state # "none" /\ ops[e].fin # NoUse /\ ops[e].text # None =>
       ops'[e].text = ops[e].text /\ (ops'[e].fin = ops[e].fin \/ ops'[e].fin = final)

LEMMA OpsKept ==
  ASSUME TypeOK, OpsStep
  PROVE  \A e \in Effect : OpKept(e)
<1> SUFFICES ASSUME NEW e \in Effect PROVE OpKept(e)
  OBVIOUS
<1>0. ops \in [Effect -> OpRec] /\ ops[e] \in OpRec
  BY Typed
<1>1. CASE ops' = ops
  BY <1>1 DEF OpKept
<1>2. ASSUME NEW d \in Effect, NEW st \in OpStates, Moves(d, st) PROVE OpKept(e)
  BY <1>0, <1>2 DEF Moves, OpKept, OpRec
<1>3. ASSUME NEW c \in Carrier, Records(c) PROVE OpKept(e)
  <2>1. ops'[e] = ops[e] \/ /\ ops[e].text \in {None, cs[c].text}
                            /\ ops'[e] = [ops[e] EXCEPT !.text = cs[c].text]
    BY <1>3 DEF Records
  <2> QED
    BY <1>0, <2>1 DEF OpKept, OpRec
<1>4. ASSUME NEW d \in Effect, Receipts(d) PROVE OpKept(e)
  BY <1>0, <1>4 DEF Receipts, OpKept, OpRec
<1>5. ASSUME NEW d \in Effect, NEW r \in Run, NEW n \in Nat, Joins(d, r, n) PROVE OpKept(e)
  BY <1>0, <1>5 DEF Joins, OpKept
<1> QED
  BY <1>1, <1>2, <1>3, <1>4, <1>5 DEF OpsStep

\* The runs of the operations, with and without one that joins.
Joining == \E e \in Effect, r \in Run, n \in Nat : Joins(e, r, n)

LEMMA MembersKept ==
  ASSUME TypeOK, OpsStep, ~Joining, NEW r
  PROVE  /\ Members(r)' = Members(r)
         /\ \A e \in Members(r) : ops'[e].seq = ops[e].seq
         /\ \A ids : InOrder(r, ids)' <=> InOrder(r, ids)
<1>0. ops \in [Effect -> OpRec]
  BY Typed
<1>1. \A e \in Effect : ops[e].state = "none" => ops'[e].state = "none"
  <2> SUFFICES ASSUME NEW e \in Effect, ops[e].state = "none" PROVE ops'[e].state = "none"
    OBVIOUS
  <2>1. CASE ops' = ops
    BY <2>1
  <2>2. ASSUME NEW d \in Effect, NEW st \in OpStates, Moves(d, st) PROVE ops'[e].state = "none"
    BY <1>0, <2>2 DEF Moves
  <2>3. ASSUME NEW c \in Carrier, Records(c) PROVE ops'[e].state = "none"
    BY <1>0, <2>3 DEF Records
  <2>4. ASSUME NEW d \in Effect, Receipts(d) PROVE ops'[e].state = "none"
    BY <1>0, <2>4 DEF Receipts
  <2> QED
    BY <2>1, <2>2, <2>3, <2>4 DEF OpsStep, Joining
<1>2. \A e \in Effect : ops[e].state # "none" =>
        ops'[e].state # "none" /\ ops'[e].run = ops[e].run /\ ops'[e].seq = ops[e].seq
  BY OpsKept DEF OpKept
<1>3. Members(r)' = Members(r)
  BY <1>1, <1>2 DEF Members
<1>4. \A e \in Members(r) : ops'[e].seq = ops[e].seq
  BY <1>2 DEF Members
<1>5. ASSUME NEW ids PROVE InOrder(r, ids)' <=> InOrder(r, ids)
  BY <1>3, <1>4 DEF InOrder
<1> QED
  BY <1>3, <1>4, <1>5

LEMMA MembersJoined ==
  ASSUME TypeOK, NEW e \in Effect, NEW r \in Run, NEW n \in Nat, Joins(e, r, n)
  PROVE  /\ e \notin Members(r) /\ Members(r)' = Members(r) \cup {e}
         /\ Cardinality(Members(r))' = n + 1
         /\ ops'[e].seq = n /\ ops'[e].fin = NoUse /\ ops'[e].text = None
         /\ ops'[e].run = r /\ ops'[e].state = "reserved"
         /\ \A d \in Effect \ {e} : ops'[d] = ops[d]
         /\ \A q : q # r => Members(q)' = Members(q)
<1>1. /\ ops'[e] = [NoOp EXCEPT !.state = "reserved", !.run = r, !.seq = n]
      /\ \A d \in Effect \ {e} : ops'[d] = ops[d]
  BY Typed DEF Joins
<1>2. /\ ops'[e].seq = n /\ ops'[e].fin = NoUse /\ ops'[e].text = None
      /\ ops'[e].run = r /\ ops'[e].state = "reserved"
  BY <1>1 DEF NoOp
<1>3. e \notin Members(r) /\ Members(r)' = Members(r) \cup {e}
  BY <1>1, <1>2 DEF Joins, Members
<1>4. ASSUME NEW q, q # r PROVE Members(q)' = Members(q)
  BY <1>1, <1>2, <1>4 DEF Joins, Members
<1>5. Cardinality(Members(r))' = n + 1
  <2>1. IsFiniteSet(Members(r)) /\ n = Cardinality(Members(r))
    BY MembersFinite DEF Joins
  <2>2. Cardinality(Members(r) \cup {e}) = n + 1
    BY <1>3, <2>1, FS_AddElement
  <2> QED
    BY <1>3, <2>2
<1> QED
  BY <1>1, <1>2, <1>3, <1>4, <1>5

LEMMA MembersGrow ==
  ASSUME TypeOK, OpsStep, NEW r
  PROVE  Members(r) \subseteq Members(r)'
  BY OpsKept DEF OpKept, Members

-----------------------------------------------------------------------------
(* What a step does to the runs.                                            *)

Begins(r, q) ==
  /\ runs[r].state = "none" /\ \A s \in Run : runs[s].state # "none" => runs[s].req # q
  /\ runs' = [runs EXCEPT ![r] = [state |-> "active", req |-> q, turns |-> 0]]

Blocks(r) ==
  /\ runs[r].state = "active" /\ runs' = [runs EXCEPT ![r].state = "blocked"]

Turns(r) ==
  /\ runs[r].state = "active" /\ runs' = [runs EXCEPT ![r].turns = @ + 1]

Completes(r) ==
  /\ runs[r].state \in {"active", "completed"} /\ Members(r) # {}
  /\ runs' = [runs EXCEPT ![r].state = "completed"]

RunsStep ==
  \/ runs' = runs
  \/ /\ ops' = ops
     /\ \E r \in Run : Blocks(r) \/ Turns(r) \/ Completes(r) \/ \E q \in Request : Begins(r, q)

LEMMA RunsSteps ==
  ASSUME IInv, NEW c \in Carrier, CarrierStep(c)
  PROVE  RunsStep
<1> DEFINE s == cs[c]
<1>0. TypeOK /\ CarrierInv /\ RunsInv /\ TextInv /\ s \in CState
  BY Typed DEF IInv
<1>1. CASE Recover(c) \/ Load(c) \/ Resume(c) \/ Survey(c) \/ Respond(c) \/ Reserve(c)
           \/ RecordRunTerminalResponse(c) \/ Inspect(c) \/ Finalize(c) \/ Condemn(c)
           \/ CommitFinalUse(c) \/ Complete(c) \/ GiveUp(c)
  BY <1>1 DEF RunsStep, Recover, Load, Resume, Lock, Reconcile, Attempt, Execute, CommitEffect,
     Mark, Survey, Respond, Reserve, RecordRunTerminalResponse, Inspect, Finalize, Condemn,
     CommitFinalUse, Complete, GiveUp, journal
<1>2. CASE Begin(c)
  <2>1. CASE UNCHANGED runs
    BY <2>1 DEF RunsStep
  <2>2. CASE SameRequest(c) = {}
    <3>1. s.req \in Request
      BY <1>0, <1>2 DEF CarrierInv, WorkInv, Begin
    <3>2. \A r \in Run : runs[r].state # "none" => runs[r].req # s.req
      <4> SUFFICES ASSUME NEW r \in Run, runs[r].state # "none", runs[r].req = s.req
                   PROVE  FALSE
        OBVIOUS
      <4>1. runs[r].state \in RunStates
        BY <1>0, Typed, RunType
      <4>2. r \in SameRequest(c)
        BY <1>0, <4>1 DEF SameRequest, RunStates, RunsInv
      <4> QED
        BY <2>2, <4>2
    <3>3. CASE UNCHANGED runs
      BY <3>3 DEF RunsStep
    <3>4. CASE ~UNCHANGED runs
      <4>1. PICK r \in Run : Begins(r, s.req)
        BY <1>2, <3>2, <3>4 DEF Begin, Begins
      <4> QED
        BY <1>2, <3>1, <4>1 DEF Begin, RunsStep
    <3> QED
      BY <3>3, <3>4
  <2> QED
    BY <1>2, <2>1, <2>2 DEF Begin
<1>3. CASE BeginProviderTurn(c)
  <2>1. s.run \in Run
    BY <1>0, <1>3 DEF BeginProviderTurn, CarrierInv, WorkInv, Known
  <2>2. Blocks(s.run) \/ Turns(s.run)
    BY <1>3 DEF BeginProviderTurn, Blocks, Turns
  <2> QED
    BY <1>3, <2>1, <2>2 DEF BeginProviderTurn, RunsStep
<1>4. CASE CompleteRun(c)
  <2>1. s.run \in Run
    BY <1>0, <1>4 DEF CompleteRun, CarrierInv, WorkInv, Known
  <2>2. s.ids \in Seq(Effect) /\ s.ids # <<>>
    BY <1>0, <1>4, CarrierFields DEF CompleteRun, TextInv, EndInv, EndPcs, UsePcs
  <2>3. 1 \in DOMAIN s.ids
    BY <2>2
  <2>4. Members(s.run) # {}
    BY <1>0, <2>3 DEF CarrierInv, WorkInv
  <2>5. Completes(s.run)
    BY <1>4, <2>4 DEF CompleteRun, Completes
  <2> QED
    BY <1>4, <2>1, <2>5 DEF CompleteRun, RunsStep
<1> QED
  BY <1>1, <1>2, <1>3, <1>4 DEF CarrierStep, Finish

\* Runs stay what they are: of their request, and settled once they are.
RunKept(r) ==
  /\ runs[r].state # "none" => runs'[r].state # "none" /\ runs'[r].req = runs[r].req
  /\ runs[r].state \in {"completed", "blocked"} => runs'[r] = runs[r]

LEMMA RunsKept ==
  ASSUME TypeOK, RunsStep
  PROVE  \A r \in Run : RunKept(r)
<1> SUFFICES ASSUME NEW r \in Run PROVE RunKept(r)
  OBVIOUS
<1>0. runs \in [Run -> RunRec] /\ runs[r] \in RunRec
  BY Typed
<1>1. CASE runs' = runs
  BY <1>1 DEF RunKept
<1>2. ASSUME NEW p \in Run, Blocks(p) PROVE RunKept(r)
  BY <1>0, <1>2 DEF Blocks, RunKept, RunRec
<1>3. ASSUME NEW p \in Run, Turns(p) PROVE RunKept(r)
  BY <1>0, <1>3 DEF Turns, RunKept, RunRec
<1>4. ASSUME NEW p \in Run, Completes(p) PROVE RunKept(r)
  <2>1. p = r => runs'[r] = [runs[r] EXCEPT !.state = "completed"]
    BY <1>0, <1>4 DEF Completes
  <2>2. runs[r].state = "completed" => [runs[r] EXCEPT !.state = "completed"] = runs[r]
    BY <1>0 DEF RunRec
  <2>3. p # r => runs'[r] = runs[r]
    BY <1>0, <1>4 DEF Completes
  <2>4. p = r => runs'[r].state # "none" /\ runs'[r].req = runs[r].req
                 /\ runs[r].state # "blocked"
    BY <1>0, <1>4, <2>1 DEF RunRec, Completes
  <2> QED
    BY <2>1, <2>2, <2>3, <2>4 DEF RunKept
<1>5. ASSUME NEW p \in Run, NEW q \in Request, Begins(p, q) PROVE RunKept(r)
  BY <1>0, <1>5 DEF Begins, RunKept
<1> QED
  BY <1>1, <1>2, <1>3, <1>4, <1>5 DEF RunsStep

LEMMA KnownKept ==
  ASSUME TypeOK, RunsStep, NEW r, Known(r)
  PROVE  Known(r)'
  BY RunsKept DEF Known, RunKept

LEMMA RunsInvKept ==
  ASSUME TypeOK, OpsStep, RunsStep, RunsInv, OneRunPerRequest
  PROVE  RunsInv' /\ OneRunPerRequest'
<1>0. runs \in [Run -> RunRec]
  BY Typed
<1>g. \A r \in Run : Members(r) # {} => Members(r)' # {}
  BY MembersGrow
<1>n. NoRun.req = None /\ None \notin Request
  BY ToolLoopConstants DEF NoRun
<1>1. CASE runs' = runs
  BY <1>1, <1>g DEF RunsInv, OneRunPerRequest
<1>2. ASSUME NEW p \in Run, Blocks(p) \/ Turns(p) \/ Completes(p)
      PROVE  RunsInv' /\ OneRunPerRequest'
  <2>1. \A r \in Run \ {p} : runs'[r] = runs[r]
    BY <1>0, <1>2 DEF Blocks, Turns, Completes
  <2>2. /\ runs[p].state # "none" /\ runs'[p].state # "none" /\ runs'[p].req = runs[p].req
        /\ runs'[p].state = "completed" => Members(p) # {}
    BY <1>0, <1>2 DEF Blocks, Turns, Completes, RunRec
  <2>3. RunsInv'
    BY <1>g, <2>1, <2>2 DEF RunsInv
  <2>4. OneRunPerRequest'
    BY <2>1, <2>2 DEF OneRunPerRequest
  <2> QED
    BY <2>3, <2>4
<1>3. ASSUME NEW p \in Run, NEW q \in Request, Begins(p, q)
      PROVE  RunsInv' /\ OneRunPerRequest'
  <2>1. /\ \A r \in Run \ {p} : runs'[r] = runs[r]
        /\ runs'[p] = [state |-> "active", req |-> q, turns |-> 0]
    BY <1>0, <1>3 DEF Begins
  <2>2. \A r \in Run \ {p} : runs'[r].req # q
    <3> SUFFICES ASSUME NEW r \in Run \ {p}, runs[r].req = q PROVE FALSE
      BY <2>1
    <3>1. runs[r].state = "none"
      BY <1>3 DEF Begins
    <3> QED
      BY <1>n, <3>1 DEF RunsInv
  <2>3. RunsInv'
    BY <1>g, <2>1 DEF RunsInv
  <2>4. OneRunPerRequest'
    BY <2>1, <2>2 DEF OneRunPerRequest
  <2> QED
    BY <2>3, <2>4
<1> QED
  BY <1>1, <1>2, <1>3 DEF RunsStep

\* Only Finalize changes the final use, and only once.
LEMMA FinalKept ==
  ASSUME IInv, NEW c \in Carrier, CarrierStep(c)
  PROVE  /\ final # NoUse => final' = final
         /\ FinalInv'
         /\ final' # final => UNCHANGED <<runs, ops, answers>>
<1> DEFINE s == cs[c]
<1>0. CarrierInv /\ TextInv /\ FinalInv
  BY DEF IInv
<1>1. CASE ~Finalize(c)
  <2>1. final' = final
    BY <1>1 DEF CarrierStep, Resume, Finish, Recover, Begin, Load, Lock, Reconcile, Attempt,
       Execute, CommitEffect, Mark, Survey, BeginProviderTurn, Respond, Reserve,
       RecordRunTerminalResponse, Inspect, Condemn, CommitFinalUse, Complete, CompleteRun, GiveUp,
       world
  <2> QED
    BY <1>0, <2>1 DEF FinalInv
<1>2. CASE Finalize(c)
  <2>1. s.text \in Text
    BY <1>0, <1>2 DEF Finalize, TextInv, EndInv, EndPcs
  <2>2. final' = Use(c) /\ final \in {NoUse, Use(c)} /\ UNCHANGED <<runs, ops, answers>>
    BY <1>2 DEF Finalize, journal, history
  <2>3. final'.text = s.text
    BY <2>2 DEF Use, Digest
  <2> QED
    BY <2>1, <2>2, <2>3, ToolLoopConstants DEF FinalInv
<1> QED
  BY <1>1, <1>2

LEMMA OpsInvKept ==
  ASSUME TypeOK, OpsStep, RunsStep, OpsInv, FinalInv,
         final # NoUse => final' = final, final' # final => UNCHANGED <<runs, ops>>
  PROVE  OpsInv'
<1>0. ops \in [Effect -> OpRec]
  BY Typed
<1>k. \A r \in Run : runs[r].state # "none" => runs'[r].state # "none"
  BY RunsKept DEF RunKept
<1>u. NoUse.text = None /\ NoOp.state = "none" /\ NoOp.fin = NoUse
  BY DEF NoUse, Digest, NoOp
<1> SUFFICES ASSUME NEW e \in Effect PROVE OpInv(e)'
  BY DEF OpsInv
<1>e. /\ ops[e] \in OpRec
      /\ ops[e].state = "none" => ops[e] = NoOp
      /\ ops[e].state # "none" => Known(ops[e].run)
      /\ ops[e].state = "completed" => ops[e].fin # NoUse
      /\ ops[e].fin # NoUse =>
           /\ ops[e].fin = final /\ ops[e].run = final.run /\ ops[e].text = final.text
           /\ InOrder(final.run, final.ids)
  BY <1>0 DEF OpsInv, OpInv
<1>1. CASE final' # final
  <2>1. final = NoUse /\ ops' = ops /\ runs' = runs
    BY <1>1
  <2>2. ops[e].fin = NoUse
    BY <1>e, <2>1
  <2> QED
    BY <1>e, <2>1, <2>2 DEF OpInv, Known
<1>2. CASE final' = final /\ Joining
  <2>1. PICK d \in Effect, r \in Run, n \in Nat : Joins(d, r, n)
    BY <1>2 DEF Joining
  <2>2. CASE e = d
    <3>1. ops'[e].run = r /\ ops'[e].state = "reserved" /\ ops'[e].fin = NoUse
      BY <2>1, <2>2, MembersJoined
    <3>2. Known(r)
      BY <2>1 DEF Joins, Known
    <3> QED
      BY <1>k, <3>1, <3>2 DEF OpInv, Known
  <2>3. CASE e # d
    <3>1. ops'[e] = ops[e]
      BY <2>1, <2>3, MembersJoined
    <3>2. ASSUME ops[e].fin # NoUse PROVE InOrder(final.run, final.ids)'
      <4>1. InOrder(final.run, final.ids) /\ ops[e].run = final.run /\ e \in Members(final.run)
        BY <1>e, <1>u, <3>2 DEF Members
      <4>2. final.run # r
        BY <2>1, <3>2, <4>1 DEF Joins
      <4>3. Members(final.run)' = Members(final.run)
        BY <1>2, <2>1, <4>2, MembersJoined
      <4>4. \A m \in Members(final.run) : ops'[m].seq = ops[m].seq
        <5>1. Members(final.run) \subseteq Effect \ {d}
          BY <2>1 DEF Members, Joins
        <5>2. \A m \in Effect \ {d} : ops'[m] = ops[m]
          BY <2>1, MembersJoined
        <5> QED
          BY <5>1, <5>2
      <4> QED
        BY <1>2, <4>1, <4>3, <4>4 DEF InOrder
    <3> QED
      BY <1>2, <1>e, <1>k, <3>1, <3>2 DEF OpInv, Known
  <2> QED
    BY <2>2, <2>3
<1>3. CASE final' = final /\ ~Joining
  <2>1. InOrder(final.run, final.ids) => InOrder(final.run, final.ids)'
    <3>1. Members(final.run)' = Members(final.run)
          /\ \A m \in Members(final.run) : ops'[m].seq = ops[m].seq
      BY <1>3, MembersKept
    <3> QED
      BY <1>3, <3>1 DEF InOrder
  <2>2. CASE ops'[e] = ops[e]
    BY <1>3, <1>e, <1>k, <2>1, <2>2 DEF OpInv, Known
  <2>3. ASSUME NEW d \in Effect, NEW st \in OpStates, Moves(d, st), ops'[e] # ops[e]
        PROVE  /\ e = d /\ ops[e].state # "none" /\ ops'[e].state = st /\ st # "none"
               /\ ops'[e].fin = ops[e].fin /\ ops'[e].run = ops[e].run
               /\ ops'[e].text = ops[e].text
               /\ st = "completed" => ops[e].fin # NoUse
    BY <1>0, <1>e, <2>3 DEF Moves, OpRec
  <2>4. ASSUME NEW c \in Carrier, Records(c), ops'[e] # ops[e]
        PROVE  /\ ops[e].state \in {"sent", "completed"} /\ ops'[e].state = ops[e].state
               /\ ops'[e].fin = ops[e].fin /\ ops'[e].run = ops[e].run
               /\ ops[e].text = None
    <3>1. Listed(e, cs[c].ids) /\ ops'[e] = [ops[e] EXCEPT !.text = cs[c].text]
      BY <2>4 DEF Records
    <3>2. ops[e].state \in {"sent", "completed"} /\ ops[e].text \in {None, cs[c].text}
      BY <2>4, <3>1 DEF Records
    <3>3. ops[e].text = cs[c].text => [ops[e] EXCEPT !.text = cs[c].text] = ops[e]
      BY <1>e DEF OpRec
    <3> QED
      BY <1>e, <2>4, <3>1, <3>2, <3>3 DEF OpRec
  <2>5. ASSUME NEW d \in Effect, Receipts(d), ops'[e] # ops[e]
        PROVE  /\ e = d /\ ops[e].state # "none" /\ ops'[e].state \notin {"none"}
               /\ ops'[e].fin = final /\ final # NoUse /\ ops'[e].run = ops[e].run
               /\ ops'[e].text = ops[e].text /\ ops[e].run = final.run
               /\ ops[e].text = final.text /\ InOrder(final.run, final.ids)
    BY <1>0, <1>e, <2>5 DEF Receipts, OpRec
  <2>6. ASSUME NEW d \in Effect, NEW st \in OpStates, Moves(d, st)
        PROVE  OpInv(e)'
    BY <1>3, <1>e, <1>k, <2>1, <2>2, <2>3, <2>6 DEF OpInv, Known
  <2>7. ASSUME NEW c \in Carrier, Records(c)
        PROVE  OpInv(e)'
    <3>1. ops[e].fin # NoUse => ops[e].text # None
      BY <1>e DEF FinalInv
    <3> QED
      BY <1>3, <1>e, <1>k, <2>1, <2>2, <2>4, <2>7, <3>1 DEF OpInv, Known
  <2>8. ASSUME NEW d \in Effect, Receipts(d)
        PROVE  OpInv(e)'
    BY <1>3, <1>e, <1>k, <2>1, <2>2, <2>5, <2>8 DEF OpInv, Known
  <2> QED
    BY <1>3, <2>2, <2>6, <2>7, <2>8 DEF OpsStep, Joining
<1> QED
  BY <1>1, <1>2, <1>3

LEMMA SequenceKept ==
  ASSUME TypeOK, OpsStep, RunsInSequence
  PROVE  RunsInSequence'
<1>1. CASE ~Joining
  <2>1. \A r \in Run : /\ Members(r)' = Members(r)
                       /\ \A e \in Members(r) : ops'[e].seq = ops[e].seq
    BY <1>1, MembersKept
  <2> QED
    BY <2>1 DEF RunsInSequence
<1>2. CASE Joining
  <2>1. PICK d \in Effect, p \in Run, n \in Nat : Joins(d, p, n)
    BY <1>2 DEF Joining
  <2>2. \A r : Members(r) \subseteq Effect \ {d}
    BY <2>1 DEF Joins, Members
  <2>3. \A e \in Effect \ {d} : ops'[e].seq = ops[e].seq
    BY <2>1, MembersJoined
  <2>4. ASSUME NEW r \in Run, r # p
        PROVE  \A e \in Members(r)' :
                 /\ ops'[e].seq < Cardinality(Members(r))'
                 /\ \A m \in Members(r)' : ops'[m].seq = ops'[e].seq => m = e
    <3>1. Members(r)' = Members(r)
      BY <2>1, <2>4, MembersJoined
    <3> QED
      BY <2>2, <2>3, <2>4, <3>1 DEF RunsInSequence
  <2>5. \A e \in Members(p)' :
          /\ ops'[e].seq < Cardinality(Members(p))'
          /\ \A m \in Members(p)' : ops'[m].seq = ops'[e].seq => m = e
    <3>1. /\ Members(p)' = Members(p) \cup {d} /\ Cardinality(Members(p))' = n + 1
          /\ ops'[d].seq = n
      BY <2>1, MembersJoined
    <3>2. \A e \in Members(p) : ops[e].seq \in Nat /\ ops[e].seq < n
      BY <2>1, <2>2, Typed, OpType DEF RunsInSequence, Joins
    <3> QED
      BY <2>2, <2>3, <3>1, <3>2 DEF RunsInSequence
  <2> QED
    BY <2>4, <2>5 DEF RunsInSequence
<1> QED
  BY <1>1, <1>2

\* Only Execute changes what was applied.
Executes(e) == applied[e] = 0 /\ applied' = [applied EXCEPT ![e] = 1] /\ ops' = ops

LEMMA AppliedSteps ==
  ASSUME IInv, NEW c \in Carrier, CarrierStep(c)
  PROVE  \/ applied' = applied
         \/ cs[c].pc = "execute" /\ Head(cs[c].todo) \in Effect /\ Executes(Head(cs[c].todo))
<1>1. CASE ~Execute(c)
  BY <1>1 DEF CarrierStep, Resume, Finish, Recover, Begin, Load, Lock, Reconcile, Attempt,
     Finalize, CommitEffect, Mark, Survey, BeginProviderTurn, Respond, Reserve,
     RecordRunTerminalResponse, Inspect, Condemn, CommitFinalUse, Complete, CompleteRun, GiveUp,
     world
<1>2. CASE Execute(c)
  <2>1. cs[c].pc = "execute" /\ Head(cs[c].todo) \in Effect
    BY <1>2, HeadOf DEF IInv, Execute, TodoPcs, ResumePcs
  <2>2. applied[Head(cs[c].todo)] = 0
    BY <2>1 DEF IInv, HoldInv, Informed
  <2>3. applied' = [applied EXCEPT ![Head(cs[c].todo)] = 1]
    BY <1>2, <2>2 DEF Execute
  <2> QED
    BY <1>2, <2>1, <2>2, <2>3 DEF Execute, Executes, journal
<1> QED
  BY <1>1, <1>2

LEMMA EffectsKept ==
  ASSUME TypeOK, OpsStep, EffectsOnce,
         applied' = applied \/ \E h \in Effect : Executes(h)
  PROVE  EffectsOnce'
<1>0. ops \in [Effect -> OpRec] /\ applied \in [Effect -> Nat]
  BY Typed
<1>1. CASE \E h \in Effect : Executes(h)
  BY <1>0, <1>1 DEF Executes, EffectsOnce
<1>2. CASE applied' = applied
  <2> DEFINE Done == {"committed", "sent", "completed"}
  <2> SUFFICES ASSUME NEW e \in Effect, ops'[e].state \in Done PROVE applied[e] = 1
    BY <1>2 DEF EffectsOnce
  <2>0. ops[e] \in OpRec
    BY <1>0
  <2>1. CASE ops[e].state \in Done
    BY <2>1 DEF EffectsOnce
  <2>2. ASSUME NEW d \in Effect, NEW st \in OpStates, Moves(d, st) PROVE applied[e] = 1
    BY <1>0, <2>0, <2>2 DEF Moves, EffectsOnce, OpRec
  <2>3. ASSUME NEW c \in Carrier, Records(c) PROVE ops[e].state \in Done
    BY <1>0, <2>0, <2>3 DEF Records, OpRec
  <2>4. ASSUME NEW d \in Effect, Receipts(d) PROVE ops[e].state \in Done
    BY <1>0, <2>0, <2>4 DEF Receipts, OpRec
  <2>5. ASSUME NEW d \in Effect, NEW r \in Run, NEW n \in Nat, Joins(d, r, n)
        PROVE  ops[e].state \in Done
    <3>1. e # d
      BY <2>5, MembersJoined
    <3> QED
      BY <2>5, <3>1, MembersJoined
  <2> QED
    BY <2>1, <2>2, <2>3, <2>4, <2>5 DEF OpsStep
<1> QED
  BY <1>1, <1>2

\* Only CompleteRun answers.
LEMMA AnswersKept ==
  ASSUME IInv, NEW c \in Carrier, CarrierStep(c)
  PROVE  AnswersInv' /\ AnswersAreFinal'
<1> DEFINE s == cs[c]
<1>0. TypeOK /\ OpsInv /\ FinalInv /\ CarrierInv /\ TextInv /\ AnswersInv /\ AnswersAreFinal
  BY DEF IInv
<1>s. OpsStep /\ RunsStep
  BY OpsSteps, RunsSteps
<1>f. final # NoUse => final' = final
  BY FinalKept
<1>1. ASSUME NEW a \in answers
      PROVE  /\ a \in {final'} /\ final' # NoUse /\ a.run \in Run
             /\ final' = a /\ runs'[a.run].state = "completed" /\ InOrder(a.run, a.ids)'
             /\ \A e \in Members(a.run)' : ops'[e].text = a.text /\ ops'[e].fin = a
  <2>1. /\ final = a /\ final # NoUse /\ a.run \in Run /\ final' = a
        /\ runs[a.run].state = "completed" /\ InOrder(a.run, a.ids)
        /\ \A e \in Members(a.run) : ops[e].text = a.text /\ ops[e].fin = a
    BY <1>0, <1>1, <1>f DEF AnswersInv, AnswersAreFinal
  <2>2. runs'[a.run].state = "completed"
    BY <1>0, <1>s, <2>1, RunsKept DEF RunKept
  <2>3. /\ Members(a.run)' = Members(a.run)
        /\ \A e \in Members(a.run) : ops'[e].seq = ops[e].seq
    <3>1. CASE ~Joining
      BY <1>0, <1>s, <3>1, MembersKept
    <3>2. CASE Joining
      <4>1. PICK d \in Effect, p \in Run, n \in Nat : Joins(d, p, n)
        BY <3>2 DEF Joining
      <4>2. a.run # p
        BY <2>1, <4>1 DEF Joins
      <4>3. Members(a.run) \subseteq Effect \ {d}
        BY <4>1 DEF Joins, Members
      <4>4. \A e \in Effect \ {d} : ops'[e] = ops[e]
        BY <1>0, <4>1, MembersJoined
      <4>5. Members(a.run)' = Members(a.run)
        BY <1>0, <4>1, <4>2, MembersJoined
      <4> QED
        BY <4>3, <4>4, <4>5
    <3> QED
      BY <3>1, <3>2
  <2>4. InOrder(a.run, a.ids)'
    BY <2>1, <2>3 DEF InOrder
  <2>5. ASSUME NEW e \in Members(a.run) PROVE ops'[e].text = a.text /\ ops'[e].fin = a
    <3>1. e \in Effect /\ ops[e].state # "none" /\ ops[e].text = a.text /\ ops[e].fin = a
      BY <2>1 DEF Members
    <3>2. a.text # None
      BY <1>0, <2>1 DEF FinalInv
    <3> QED
      BY <1>0, <1>s, <2>1, <3>1, <3>2, OpsKept DEF OpKept
  <2> QED
    BY <2>1, <2>2, <2>3, <2>4, <2>5
<1>2. CASE answers' = answers
  <2>1. final' = NoUse => answers' = {}
    BY <1>1, <1>2
  <2> QED
    BY <1>1, <1>2, <2>1 DEF AnswersInv, AnswersAreFinal
<1>3. CASE CompleteRun(c)
  <2>1. /\ s.run \in Run /\ s.text \in Text /\ s.ids # <<>> /\ final = Use(c)
        /\ s.ids \in Seq(Effect)
    BY <1>0, <1>3, Typed, CarrierFields
       DEF CompleteRun, CarrierInv, WorkInv, Known, TextInv, EndInv, EndPcs, UsePcs
  <2>2. final.run = s.run /\ final.text = s.text /\ final.ids = s.ids /\ final # NoUse
    BY <2>1, ToolLoopConstants DEF Use, Digest, NoUse
  <2>3. answers' = answers \cup {final} /\ final' = final /\ ops' = ops
    BY <1>3, <2>1 DEF CompleteRun, world
  <2>4. \A e \in Members(s.run) : ops[e].text = s.text /\ ops[e].fin = final
    BY <1>0, <1>3 DEF CompleteRun, OpsInv, OpInv, Members
  <2>5. InOrder(s.run, s.ids)
    <3>1. s.ids[1] \in Members(s.run)
      <4>1. 1 \in DOMAIN s.ids
        BY <2>1
      <4> QED
        BY <1>0, <4>1 DEF CarrierInv, WorkInv
    <3> QED
      BY <1>0, <2>2, <2>4, <3>1 DEF OpsInv, OpInv, Members
  <2>6. runs'[s.run].state = "completed"
    BY <1>0, <1>3, <2>1, Typed DEF CompleteRun
  <2>7. /\ InOrder(final.run, final.ids)'
        /\ \A e \in Members(final.run)' : ops'[e].text = final.text /\ ops'[e].fin = final
    BY <2>2, <2>3, <2>4, <2>5 DEF InOrder, Members
  <2> QED
    BY <1>1, <2>1, <2>2, <2>3, <2>6, <2>7 DEF AnswersInv, AnswersAreFinal
<1>4. answers' = answers \/ CompleteRun(c)
  BY DEF CarrierStep, Resume, Finish, Recover, Begin, Load, Lock, Reconcile, Attempt, Execute,
     Finalize, CommitEffect, Mark, Survey, BeginProviderTurn, Respond, Reserve,
     RecordRunTerminalResponse, Inspect, Condemn, CommitFinalUse, Complete, GiveUp, history
<1> QED
  BY <1>2, <1>3, <1>4

-----------------------------------------------------------------------------
(* What a step does to the carriers.                                        *)

\* The steps of one carrier leave the others where they are.
LEMMA OthersStay ==
  ASSUME TypeOK, NEW c \in Carrier, CarrierStep(c)
  PROVE  \A d \in Carrier \ {c} : cs'[d] = cs[d]
<1>1. \E t : Step(c, t)
  BY DEF CarrierStep, Resume, Finish, Recover, Begin, Load, Lock, Reconcile, Attempt, Execute,
     Finalize, CommitEffect, Mark, Survey, BeginProviderTurn, Respond, Reserve, Collide, Replay,
     Create, Joined, RecordRunTerminalResponse, Inspect, Condemn, CommitFinalUse, Complete,
     CompleteRun, GiveUp, Goto, Used
<1> QED
  BY <1>1, Typed DEF Step

LEMMA Stepped ==
  ASSUME TypeOK, NEW c \in Carrier, NEW t, Step(c, t)
  PROVE  cs'[c] = t
  BY Typed DEF Step

LEMMA ResumingFacts ==
  ASSUME NEW s \in CState, NEW todo \in Seq(Effect), NEW after \in {"survey", "turn", "record"}
  PROVE  LET t == Resuming(s, todo, after)
         IN  /\ t.pc = (IF todo = <<>> THEN after ELSE "lock") /\ t.todo = todo /\ t.after = after
             /\ t.run = s.run /\ t.req = s.req /\ t.ids = s.ids /\ t.text = s.text
  BY DEF Resuming, CState

LEMMA TailFacts ==
  ASSUME NEW q \in Seq(Effect), q # <<>>
  PROVE  /\ Len(q) # 1 => Tail(q) # <<>>
         /\ \A i \in DOMAIN Tail(q) : i + 1 \in DOMAIN q /\ Tail(q)[i] = q[i + 1]
<1>1. /\ Tail(q) \in Seq(Effect) /\ Len(Tail(q)) = Len(q) - 1 /\ Len(q) \in Nat
      /\ \A i \in 1..(Len(q) - 1) : Tail(q)[i] = q[i + 1]
  OBVIOUS
<1>2. DOMAIN Tail(q) = 1..(Len(q) - 1) /\ DOMAIN q = 1..Len(q)
  BY <1>1
<1>3. Len(q) # 1 => Tail(q) # <<>>
  <2>1. Len(q) # 0
    OBVIOUS
  <2>2. Len(q) # 1 => Len(Tail(q)) # 0
    BY <1>1, <2>1
  <2> QED
    BY <2>2
<1> QED
  BY <1>1, <1>2, <1>3

LEMMA AdvanceFacts ==
  ASSUME NEW s \in CState, s.todo # <<>>, NEW again, NEW after
  PROVE  LET t == Advance(s, again, after)
         IN  /\ t.pc = after \/ (t.pc = again /\ t.todo # <<>>)
             /\ t.run = s.run /\ t.req = s.req /\ t.ids = s.ids /\ t.text = s.text
             /\ t.after = s.after
             /\ \A i \in DOMAIN t.todo : \E j \in DOMAIN s.todo : t.todo[i] = s.todo[j]
<1> DEFINE t == Advance(s, again, after)
<1>1. s.todo \in Seq(Effect)
  BY CarrierFields
<1>2. /\ Len(s.todo) # 1 => Tail(s.todo) # <<>>
      /\ \A i \in DOMAIN Tail(s.todo) : \E j \in DOMAIN s.todo : Tail(s.todo)[i] = s.todo[j]
  BY <1>1, TailFacts
<1>3. t = [s EXCEPT !.pc = IF Len(s.todo) = 1 THEN after ELSE again, !.todo = Tail(s.todo)]
  BY DEF Advance
<1>4. /\ t.todo = Tail(s.todo) /\ t.pc = IF Len(s.todo) = 1 THEN after ELSE again
      /\ t.run = s.run /\ t.req = s.req /\ t.ids = s.ids /\ t.text = s.text /\ t.after = s.after
  BY <1>3 DEF CState
<1> QED
  BY <1>2, <1>4

\* A carrier that stays with its run and its operations.
LEMMA WorkSame ==
  ASSUME TypeOK, OpsStep, RunsStep, NEW c \in Carrier, WorkInv(c),
         cs[c].pc \notin {"off", "begin"},
         cs'[c].pc # "begin", cs'[c].req = cs[c].req, cs'[c].run = cs[c].run, cs'[c].ids = cs[c].ids,
         cs'[c].pc \in TodoPcs \cup {"reserve"} => cs'[c].todo # <<>>,
         cs'[c].pc \in TodoPcs =>
           \A i \in DOMAIN cs'[c].todo : cs'[c].todo[i] \in Members(cs[c].run)
  PROVE  WorkInv(c)'
<1>1. Known(cs[c].run) /\ cs[c].req \in Request
  BY DEF WorkInv
<1>2. cs[c].run \in Run /\ runs'[cs[c].run].state # "none"
  BY <1>1, RunsKept DEF RunKept, Known
<1>3. \A x \in Members(cs[c].run) :
        x \in Effect /\ ops'[x].state # "none" /\ ops'[x].run = cs[c].run
  BY OpsKept DEF OpKept, Members
<1>4. \A i \in DOMAIN cs[c].ids : cs[c].ids[i] \in Members(cs[c].run)
  BY DEF WorkInv
<1>5. \A i \in DOMAIN cs'[c].ids : cs'[c].ids[i] \in Members(cs[c].run)'
  BY <1>3, <1>4 DEF Members
<1>6. cs'[c].pc \in TodoPcs =>
        \A i \in DOMAIN cs'[c].todo : cs'[c].todo[i] \in Members(cs[c].run)'
  BY <1>3 DEF Members
<1> QED
  BY <1>1, <1>2, <1>5, <1>6 DEF WorkInv, Known

LEMMA WorkOff ==
  ASSUME NEW c \in Carrier, cs'[c] = Off
  PROVE  WorkInv(c)' /\ EndInv(c)' /\ Informed(c)'
<1>1. Off.pc = "off" /\ Off.ids = <<>>
  BY DEF Off
<1> QED
  BY <1>1 DEF WorkInv, EndInv, Informed, TodoPcs, ResumePcs, EndPcs, UsePcs

LEMMA EndSame ==
  ASSUME NEW c \in Carrier,
         cs'[c].run = cs[c].run, cs'[c].ids = cs[c].ids, cs'[c].text = cs[c].text,
         \/ cs'[c].pc \in EndPcs \cup {"record"}
         \/ cs'[c].pc \in ResumePcs /\ cs'[c].after = "record"
         => cs[c].text \in Text,
         cs'[c].pc \in EndPcs => cs[c].ids # <<>>,
         cs'[c].pc \in UsePcs => final' = Use(c)
  PROVE  EndInv(c)'
<1>1. Use(c)' = Use(c)
  BY DEF Use
<1> QED
  BY <1>1 DEF EndInv

\* Only the place of the carrier changes.
Moved(c, pc) ==
  /\ cs'[c].pc = pc /\ cs'[c].run = cs[c].run /\ cs'[c].req = cs[c].req
  /\ cs'[c].ids = cs[c].ids /\ cs'[c].text = cs[c].text
  /\ cs'[c].after = cs[c].after /\ cs'[c].todo = cs[c].todo

LEMMA GotoFacts ==
  ASSUME TypeOK, NEW c \in Carrier, NEW pc, Goto(c, pc)
  PROVE  Moved(c, pc)
<1>1. cs[c] \in CState /\ cs'[c] = [cs[c] EXCEPT !.pc = pc]
  BY Typed, Stepped DEF Goto
<1> QED
  BY <1>1 DEF Moved, CState

LEMMA Pieces ==
  IInv => /\ TypeOK /\ RunsInv /\ OpsInv /\ FinalInv /\ CarrierInv /\ TextInv /\ HoldInv
          /\ AnswersInv /\ TurnsInv
          /\ \A c \in Carrier : WorkInv(c) /\ EndInv(c) /\ Informed(c) /\ cs[c] \in CState
  BY Typed DEF IInv, CarrierInv, TextInv, HoldInv

\* Finding the run.
LEMMA FindingKept ==
  ASSUME IInv, OpsStep, RunsStep, NEW c \in Carrier, Recover(c) \/ Begin(c) \/ Load(c)
  PROVE  WorkInv(c)' /\ EndInv(c)' /\ Informed(c)'
<1> DEFINE s == cs[c]
<1>0. TypeOK /\ WorkInv(c) /\ EndInv(c) /\ s \in CState
  BY Pieces
<1>k. \A r \in Run : runs[r].state # "none" => runs'[r].state # "none"
  BY <1>0, RunsKept DEF RunKept
<1>1. CASE Recover(c)
  <2>1. PICK q \in Request :
          \/ Step(c, [Off EXCEPT !.pc = "begin", !.req = q])
          \/ \E r \in LiveRuns : Step(c, [Off EXCEPT !.pc = "load", !.req = q, !.run = r])
    BY <1>1 DEF Recover
  <2>2. CASE Step(c, [Off EXCEPT !.pc = "begin", !.req = q])
    <3>1. cs'[c].pc = "begin" /\ cs'[c].ids = <<>> /\ cs'[c].req = q
      BY <1>0, <2>2, Stepped DEF Off
    <3> QED
      BY <3>1 DEF WorkInv, EndInv, Informed, TodoPcs, ResumePcs, EndPcs, UsePcs
  <2>3. ASSUME NEW r \in LiveRuns, Step(c, [Off EXCEPT !.pc = "load", !.req = q, !.run = r])
        PROVE  WorkInv(c)' /\ EndInv(c)' /\ Informed(c)'
    <3>1. cs'[c].pc = "load" /\ cs'[c].ids = <<>> /\ cs'[c].req = q /\ cs'[c].run = r
      <4>1. cs'[c] = [Off EXCEPT !.pc = "load", !.req = q, !.run = r]
        BY <1>0, <2>3, Stepped
      <4> QED
        BY <4>1 DEF Off
    <3>2. r \in Run /\ runs'[r].state # "none"
      BY <1>k DEF LiveRuns
    <3> QED
      BY <3>1, <3>2 DEF WorkInv, Known, EndInv, Informed, TodoPcs, ResumePcs, EndPcs, UsePcs
  <2> QED
    BY <2>1, <2>2, <2>3
<1>2. CASE Begin(c)
  <2>1. PICK r \in Run : /\ Step(c, [s EXCEPT !.pc = "load", !.run = r])
                         /\ runs'[r].state # "none"
    <3>1. CASE \E r \in SameRequest(c) : Step(c, [s EXCEPT !.pc = "load", !.run = r])
      BY <3>1, <1>k DEF SameRequest
    <3>2. ASSUME NEW r \in Run, Step(c, [s EXCEPT !.pc = "load", !.run = r]),
                 runs' = [runs EXCEPT ![r] = [state |-> "active", req |-> s.req, turns |-> 0]]
          PROVE  runs'[r].state # "none"
      BY <1>0, <3>2, Typed
    <3> QED
      BY <1>2, <3>1, <3>2 DEF Begin, SameRequest
  <2>2. s.req \in Request /\ s.ids = <<>>
    BY <1>0, <1>2 DEF Begin, WorkInv
  <2>3. cs'[c] = [s EXCEPT !.pc = "load", !.run = r]
    BY <1>0, <2>1, Stepped
  <2>4. cs'[c].pc = "load" /\ cs'[c].ids = <<>> /\ cs'[c].req = s.req /\ cs'[c].run = r
    BY <1>0, <2>2, <2>3 DEF CState
  <2> QED
    BY <2>1, <2>2, <2>4 DEF WorkInv, Known, EndInv, Informed, TodoPcs, ResumePcs, EndPcs, UsePcs
<1>3. CASE Load(c)
  <2> DEFINE ids == RunOperations(s.run)
             u == [s EXCEPT !.ids = ids, !.next = Len(ids)]
             t == Resuming(u, ids, "survey")
  <2>1. ids \in Seq(Effect) /\ Len(ids) \in Nat
        /\ \A i \in DOMAIN ids : ids[i] \in Members(s.run)
    BY <1>3, Listing DEF Load
  <2>3. cs'[c] = t
    BY <1>0, <1>3, Stepped DEF Load
  <2> HIDE DEF ids
  <2>a. u \in CState
    BY <1>0, <2>1, CarrierType
  <2>2. u \in CState /\ u.ids = ids /\ u.run = s.run /\ u.req = s.req
    BY <1>0, <2>a DEF CState
  <2> HIDE DEF u
  <2>4. /\ t.pc = (IF ids = <<>> THEN "survey" ELSE "lock") /\ t.todo = ids
        /\ t.after = "survey" /\ t.run = s.run /\ t.req = s.req /\ t.ids = ids
    BY <2>1, <2>2, ResumingFacts
  <2> HIDE DEF t
  <2>5. s.run \in Run /\ runs[s.run].state # "none" /\ s.req \in Request
    BY <1>0, <1>3 DEF Load, WorkInv, Known
  <2>6. ops' = ops
    BY <1>3 DEF Load, journal
  <2>7. WorkInv(c)'
    BY <1>k, <2>1, <2>3, <2>4, <2>5, <2>6 DEF WorkInv, Known, Members, TodoPcs, ResumePcs
  <2>8. EndInv(c)' /\ Informed(c)'
    BY <2>3, <2>4 DEF EndInv, Informed, ResumePcs, EndPcs, UsePcs
  <2> QED
    BY <2>7, <2>8
<1> QED
  BY <1>1, <1>2, <1>3

\* Under the operation's lock.
LEMMA ResumeKept ==
  ASSUME IInv, OpsStep, RunsStep, NEW c \in Carrier, Resume(c)
  PROVE  WorkInv(c)' /\ EndInv(c)' /\ Informed(c)'
<1> DEFINE s == cs[c]
           h == Head(s.todo)
<1>0. TypeOK /\ CarrierInv /\ WorkInv(c) /\ EndInv(c) /\ Informed(c) /\ s \in CState
  BY Pieces
<1>p. s.pc \in ResumePcs
  BY DEF Resume, Lock, Reconcile, Attempt, Execute, CommitEffect, Mark, ResumePcs
<1>t. /\ s.todo # <<>> /\ \A i \in DOMAIN s.todo : s.todo[i] \in Members(s.run)
      /\ s.after = "record" => s.text \in Text
      /\ h \in Effect
  BY <1>0, <1>p, HeadOf DEF WorkInv, EndInv, TodoPcs
<1>m. ASSUME NEW pc \in ResumePcs, Moved(c, pc) PROVE WorkInv(c)' /\ EndInv(c)'
  <2>1. WorkInv(c)'
    BY <1>0, <1>p, <1>t, <1>m, WorkSame DEF Moved, ResumePcs
  <2>2. EndInv(c)'
    BY <1>t, <1>m, EndSame DEF Moved, ResumePcs, EndPcs, UsePcs
  <2> QED
    BY <2>1, <2>2
<1>1. CASE Lock(c)
  <2>1. Moved(c, "reconcile")
    BY <1>0, <1>1, GotoFacts DEF Lock
  <2>2. Informed(c)'
    BY <2>1 DEF Moved, Informed
  <2> QED
    BY <1>m, <2>1, <2>2 DEF ResumePcs
<1>2. CASE Reconcile(c)
  <2>1. CASE Step(c, Off)
    BY <1>0, <2>1, Stepped, WorkOff
  <2>2. CASE ~Step(c, Off)
    <3>1. PICK pc \in {"mark", "attempt", "commit"} :
            /\ Goto(c, pc) /\ applied' = applied
            /\ pc = "attempt" => applied[h] = 0
            /\ pc = "commit" => applied[h] # 0
      BY <1>2, <2>2 DEF Reconcile, world
    <3>2. Moved(c, pc)
      BY <1>0, <3>1, GotoFacts
    <3>3. applied[h] = 0 \/ applied[h] = 1
      <4>1. applied[h] \in Nat /\ applied[h] <= 1
        BY <1>0, <1>t, Typed DEF IInv, EffectsOnce
      <4> QED
        BY <4>1
    <3>4. Informed(c)'
      BY <3>1, <3>2, <3>3 DEF Moved, Informed
    <3>5. pc \in ResumePcs
      BY DEF ResumePcs
    <3> QED
      BY <1>m, <3>2, <3>4, <3>5
  <2> QED
    BY <2>1, <2>2
<1>3. CASE Attempt(c)
  <2>1. Moved(c, "execute") /\ applied' = applied
    BY <1>0, <1>3, GotoFacts DEF Attempt, world
  <2>2. Informed(c)'
    BY <1>0, <1>3, <2>1 DEF Moved, Informed, Attempt
  <2> QED
    BY <1>m, <2>1, <2>2 DEF ResumePcs
<1>4. CASE Execute(c)
  <2>1. Moved(c, "commit")
    BY <1>0, <1>4, GotoFacts DEF Execute
  <2>2. applied[h] = 0
    BY <1>0, <1>4 DEF Informed, Execute
  <2>3. applied'[h] = 1
    BY <1>0, <1>4, <1>t, <2>2, Typed DEF Execute
  <2>4. Informed(c)'
    BY <2>1, <2>3 DEF Moved, Informed
  <2> QED
    BY <1>m, <2>1, <2>4 DEF ResumePcs
<1>5. CASE CommitEffect(c)
  <2>1. Moved(c, "mark")
    BY <1>0, <1>5, GotoFacts DEF CommitEffect
  <2>2. Informed(c)'
    BY <2>1 DEF Moved, Informed
  <2> QED
    BY <1>m, <2>1, <2>2 DEF ResumePcs
<1>6. CASE Mark(c)
  <2> DEFINE t == Advance(s, "lock", s.after)
  <2>1. cs'[c] = t
    BY <1>0, <1>6, Stepped DEF Mark
  <2>2. /\ t.pc = s.after \/ (t.pc = "lock" /\ t.todo # <<>>)
        /\ t.run = s.run /\ t.req = s.req /\ t.ids = s.ids /\ t.text = s.text
        /\ t.after = s.after
        /\ \A i \in DOMAIN t.todo : \E j \in DOMAIN s.todo : t.todo[i] = s.todo[j]
    BY <1>0, <1>t, AdvanceFacts
  <2>3. s.after \in {"survey", "turn", "record"}
    BY <1>0, CarrierFields
  <2> HIDE DEF t
  <2>4. WorkInv(c)'
    <3>1. t.pc \in TodoPcs \cup {"reserve"} => t.todo # <<>>
      BY <2>2, <2>3 DEF TodoPcs, ResumePcs
    <3>2. \A i \in DOMAIN t.todo : t.todo[i] \in Members(s.run)
      BY <1>t, <2>2
    <3>3. t.pc # "begin" /\ s.pc \notin {"off", "begin"}
      BY <1>p, <2>2, <2>3 DEF ResumePcs
    <3> QED
      BY <1>0, <2>1, <2>2, <3>1, <3>2, <3>3, WorkSame
  <2>5. EndInv(c)'
    BY <1>t, <2>1, <2>2, <2>3, EndSame DEF EndPcs, UsePcs
  <2>6. Informed(c)'
    BY <2>1, <2>2, <2>3 DEF Informed
  <2> QED
    BY <2>4, <2>5, <2>6
<1> QED
  BY <1>1, <1>2, <1>3, <1>4, <1>5, <1>6 DEF Resume

LEMMA AppendFacts ==
  ASSUME NEW q \in Seq(Effect), NEW e \in Effect, NEW t, t = Append(q, e)
  PROVE  t \in Seq(Effect) /\ \A i \in DOMAIN t : t[i] = e \/ (i \in DOMAIN q /\ t[i] = q[i])
<1>1. t \in Seq(Effect) /\ Len(q) \in Nat /\ Len(t) = Len(q) + 1
  OBVIOUS
<1>2. DOMAIN t = 1..(Len(q) + 1) /\ DOMAIN q = 1..Len(q)
  BY <1>1
<1>3. t[Len(q) + 1] = e /\ \A i \in 1..Len(q) : t[i] = q[i]
  OBVIOUS
<1> QED
  BY <1>1, <1>2, <1>3

LEMMA OneFacts ==
  ASSUME NEW e \in Effect, NEW q, q = <<e>>
  PROVE  q \in Seq(Effect) /\ q # <<>> /\ \A i \in DOMAIN q : q[i] = e
<1>1. DOMAIN q = 1..1 /\ q[1] = e /\ Len(q) = 1
  OBVIOUS
<1>2. q \in Seq(Effect) /\ q # <<>>
  OBVIOUS
<1>3. \A i \in 1..1 : i = 1
  OBVIOUS
<1> QED
  BY <1>1, <1>2, <1>3

\* The provider, and what it asks for.
LEMMA ProviderKept ==
  ASSUME IInv, OpsStep, RunsStep, NEW c \in Carrier,
         Survey(c) \/ BeginProviderTurn(c) \/ Respond(c) \/ Reserve(c) \/ GiveUp(c)
  PROVE  WorkInv(c)' /\ EndInv(c)' /\ Informed(c)'
<1> DEFINE s == cs[c]
           h == Head(s.todo)
<1>0. TypeOK /\ CarrierInv /\ OpsInv /\ WorkInv(c) /\ EndInv(c) /\ s \in CState
  BY Pieces
<1>i. s.ids \in Seq(Effect)
  BY <1>0, CarrierFields
<1>o. ASSUME Step(c, Off) PROVE WorkInv(c)' /\ EndInv(c)' /\ Informed(c)'
  BY <1>0, <1>o, Stepped, WorkOff
<1>m. ASSUME NEW pc \in {"turn", "respond"}, Moved(c, pc), s.pc \notin {"off", "begin"}
      PROVE  WorkInv(c)' /\ EndInv(c)' /\ Informed(c)'
  <2>1. WorkInv(c)'
    BY <1>0, <1>m, WorkSame DEF Moved, TodoPcs, ResumePcs
  <2>2. EndInv(c)' /\ Informed(c)'
    BY <1>m DEF Moved, EndInv, Informed, ResumePcs, EndPcs, UsePcs
  <2> QED
    BY <2>1, <2>2
<1>1. CASE Survey(c)
  <2>1. CASE Goto(c, "turn")
    BY <1>0, <1>1, <1>m, <2>1, GotoFacts DEF Survey
  <2>2. CASE ~Goto(c, "turn")
    <3> DEFINE x == ops[s.ids[1]].text
    <3>1. /\ s.ids # <<>> /\ x # None
          /\ Step(c, [s EXCEPT !.pc = "inspect", !.text = x, !.path = "resumed"])
      BY <1>1, <2>2 DEF Survey
    <3>2. s.ids[1] \in Effect
      BY <1>i, <3>1
    <3>3. x \in Text
      BY <1>0, <3>1, <3>2, Typed, OpType
    <3>4. cs'[c] = [s EXCEPT !.pc = "inspect", !.text = x, !.path = "resumed"]
      BY <1>0, <3>1, Stepped
    <3> HIDE DEF x
    <3>5. /\ cs'[c].pc = "inspect" /\ cs'[c].text = x /\ cs'[c].run = s.run
          /\ cs'[c].req = s.req /\ cs'[c].ids = s.ids
      BY <1>0, <3>4 DEF CState
    <3>6. WorkInv(c)'
      BY <1>0, <1>1, <3>5, WorkSame DEF Survey, TodoPcs, ResumePcs
    <3> QED
      BY <3>1, <3>3, <3>5, <3>6 DEF EndInv, Informed, ResumePcs, EndPcs, UsePcs
  <2> QED
    BY <2>1, <2>2
<1>2. CASE BeginProviderTurn(c)
  <2>1. Step(c, Off) \/ Goto(c, "respond")
    BY <1>2 DEF BeginProviderTurn
  <2>2. Goto(c, "respond") => Moved(c, "respond")
    BY <1>0, GotoFacts
  <2> QED
    BY <1>2, <1>m, <1>o, <2>1, <2>2 DEF BeginProviderTurn
<1>3. CASE Respond(c)
  <2>1. ASSUME NEW x \in Text, Step(c, Resuming([s EXCEPT !.text = x], s.ids, "record"))
        PROVE  WorkInv(c)' /\ EndInv(c)' /\ Informed(c)'
    <3> DEFINE u == [s EXCEPT !.text = x]
               t == Resuming(u, s.ids, "record")
    <3>0. cs'[c] = t
      BY <1>0, <2>1, Stepped
    <3>1. u \in CState
      BY <1>0, CarrierType
    <3>2. u.text = x /\ u.run = s.run /\ u.req = s.req /\ u.ids = s.ids
      BY <1>0 DEF CState
    <3> HIDE DEF u
    <3>3. /\ t.pc = (IF s.ids = <<>> THEN "record" ELSE "lock") /\ t.todo = s.ids
          /\ t.run = s.run /\ t.req = s.req /\ t.ids = s.ids /\ t.text = x
      BY <1>i, <3>1, <3>2, ResumingFacts
    <3> HIDE DEF t
    <3>4. \A i \in DOMAIN s.ids : s.ids[i] \in Members(s.run)
      BY <1>0 DEF WorkInv
    <3>5. s.pc \notin {"off", "begin"}
      BY <1>3 DEF Respond
    <3>6. WorkInv(c)'
      BY <1>0, <3>0, <3>3, <3>4, <3>5, WorkSame DEF TodoPcs, ResumePcs
    <3>7. EndInv(c)' /\ Informed(c)'
      BY <3>0, <3>3 DEF EndInv, Informed, EndPcs, UsePcs
    <3> QED
      BY <3>6, <3>7
  <2>2. ASSUME NEW e \in Effect, Step(c, [s EXCEPT !.pc = "reserve", !.todo = <<e>>])
        PROVE  WorkInv(c)' /\ EndInv(c)' /\ Informed(c)'
    <3>1. cs'[c] = [s EXCEPT !.pc = "reserve", !.todo = <<e>>]
      BY <1>0, <2>2, Stepped
    <3>2. /\ cs'[c].pc = "reserve" /\ cs'[c].todo = <<e>> /\ cs'[c].run = s.run
          /\ cs'[c].req = s.req /\ cs'[c].ids = s.ids
      BY <1>0, <3>1 DEF CState
    <3>3. <<e>> # <<>>
      OBVIOUS
    <3>4. WorkInv(c)'
      BY <1>0, <1>3, <3>2, <3>3, WorkSame DEF Respond, TodoPcs, ResumePcs
    <3> QED
      BY <3>2, <3>4 DEF EndInv, Informed, ResumePcs, EndPcs, UsePcs
  <2> QED
    BY <1>3, <2>1, <2>2 DEF Respond
<1>4. CASE Reserve(c)
  <2>0. s.run \in Run /\ s.req \in Request /\ h \in Effect /\ runs[s.run].state # "none"
        /\ runs' = runs
    BY <1>0, <1>4, HeadOf DEF Reserve, WorkInv, Known
  <2>1. CASE Collide(c)
    BY <1>o, <2>1 DEF Collide
  <2>2. ASSUME NEW next \in Nat, Joined(c, h, next), h \in Members(s.run)'
        PROVE  WorkInv(c)' /\ EndInv(c)' /\ Informed(c)'
    <3> DEFINE ids == IF Listed(h, s.ids) THEN s.ids ELSE Append(s.ids, h)
               u == [s EXCEPT !.ids = ids, !.next = next]
               one == <<h>>
               t == Resuming(u, one, "turn")
    <3>1. cs'[c] = t
      BY <1>0, <2>2, Stepped DEF Joined
    <3>2. ids \in Seq(Effect)
      BY <1>i, <2>0
    <3>3. \A i \in DOMAIN ids : ids[i] = h \/ (i \in DOMAIN s.ids /\ ids[i] = s.ids[i])
      <4>1. CASE Listed(h, s.ids)
        BY <4>1
      <4>2. CASE ~Listed(h, s.ids)
        <5>1. ids = Append(s.ids, h)
          BY <4>2
        <5> HIDE DEF ids
        <5> QED
          BY <1>i, <2>0, <5>1, AppendFacts
      <4> QED
        BY <4>1, <4>2
    <3> HIDE DEF ids
    <3>4. u \in CState
      BY <1>0, <3>2, CarrierType
    <3>5. u.ids = ids /\ u.run = s.run /\ u.req = s.req
      BY <1>0 DEF CState
    <3> HIDE DEF u
    <3>6. one \in Seq(Effect) /\ one # <<>> /\ \A i \in DOMAIN one : one[i] = h
      BY <2>0, OneFacts
    <3> HIDE DEF one
    <3>7. /\ t.pc = "lock" /\ t.todo = one /\ t.after = "turn"
          /\ t.run = s.run /\ t.req = s.req /\ t.ids = ids
      BY <3>4, <3>5, <3>6, ResumingFacts
    <3> HIDE DEF t
    <3>8. \A i \in DOMAIN ids : ids[i] \in Members(s.run)'
      <4>1. \A i \in DOMAIN s.ids : s.ids[i] \in Members(s.run)
        BY <1>0 DEF WorkInv
      <4>2. Members(s.run) \subseteq Members(s.run)'
        <5>1. \A x \in Members(s.run) :
                x \in Effect /\ ops'[x].state # "none" /\ ops'[x].run = s.run
          BY <1>0, OpsKept DEF OpKept, Members
        <5> QED
          BY <3>1, <3>7, <5>1 DEF Members
      <4> QED
        BY <2>2, <3>3, <4>1, <4>2
    <3>9. WorkInv(c)'
      BY <2>0, <2>2, <3>1, <3>6, <3>7, <3>8 DEF WorkInv, Known
    <3>10. EndInv(c)' /\ Informed(c)'
      BY <3>1, <3>7 DEF EndInv, Informed, ResumePcs, EndPcs, UsePcs
    <3> QED
      BY <3>9, <3>10
  <2>3. s.next \in Nat
    BY <1>0, CarrierFields
  <2>r. ASSUME NEW next \in Nat, Joined(c, h, next) PROVE cs'[c].run = s.run
    <3> DEFINE ids == IF Listed(h, s.ids) THEN s.ids ELSE Append(s.ids, h)
    <3>1. cs'[c] = Resuming([s EXCEPT !.ids = ids, !.next = next], <<h>>, "turn")
      BY <1>0, <2>r, Stepped DEF Joined
    <3> HIDE DEF ids
    <3> QED
      BY <1>0, <3>1 DEF Resuming, CState
  <2>4. CASE Replay(c)
    <3>1. h \in Members(s.run)'
      BY <2>0, <2>3, <2>4, <2>r DEF Replay, Members
    <3> QED
      BY <2>2, <2>3, <2>4, <3>1 DEF Replay
  <2>5. CASE Create(c)
    <3>1. ops'[h] = [NoOp EXCEPT !.state = "reserved", !.run = s.run, !.seq = s.next]
      BY <1>0, <2>0, <2>5, Typed DEF Create
    <3>2. ops'[h].state # "none" /\ ops'[h].run = s.run
      BY <3>1 DEF NoOp
    <3>3. s.next + 1 \in Nat /\ Joined(c, h, s.next + 1)
      BY <2>3, <2>5 DEF Create
    <3>4. h \in Members(s.run)'
      BY <2>0, <2>r, <3>2, <3>3 DEF Members
    <3> QED
      BY <2>2, <3>3, <3>4
  <2> QED
    BY <1>4, <2>1, <2>4, <2>5 DEF Reserve
<1>5. CASE GiveUp(c)
  BY <1>5, <1>o DEF GiveUp
<1> QED
  BY <1>1, <1>2, <1>3, <1>4, <1>5

\* The terminal text and its final use.
LEMMA FinishKept ==
  ASSUME IInv, OpsStep, RunsStep, NEW c \in Carrier, Finish(c)
  PROVE  WorkInv(c)' /\ EndInv(c)' /\ Informed(c)'
<1> DEFINE s == cs[c]
           h == Head(s.todo)
<1>0. TypeOK /\ CarrierInv /\ WorkInv(c) /\ EndInv(c) /\ s \in CState
  BY Pieces
<1>e. /\ s.pc \in EndPcs \cup {"record"} /\ s.text \in Text
      /\ s.pc \in EndPcs => s.ids # <<>>
      /\ s.pc \in UsePcs => final = Use(c)
      /\ \A i \in DOMAIN s.ids : s.ids[i] \in Members(s.run)
  BY <1>0 DEF Finish, RecordRunTerminalResponse, Inspect, Finalize, Condemn, CommitFinalUse,
     Complete, CompleteRun, EndPcs, UsePcs, EndInv, WorkInv
<1>o. ASSUME Step(c, Off) PROVE WorkInv(c)' /\ EndInv(c)' /\ Informed(c)'
  BY <1>0, <1>o, Stepped, WorkOff
\* A step to another place of this part, with nothing, all or the rest to do.
<1>m. ASSUME NEW t \in CState, cs'[c] = t, t.pc \in EndPcs,
             t.run = s.run, t.req = s.req, t.ids = s.ids, t.text = s.text, s.ids # <<>>,
             t.pc \in UsePcs => final' = Use(c),
             t.pc \in TodoPcs =>
               t.todo # <<>> /\ \A i \in DOMAIN t.todo : t.todo[i] \in Members(s.run)
      PROVE  WorkInv(c)' /\ EndInv(c)' /\ Informed(c)'
  <2>1. s.pc \notin {"off", "begin"} /\ t.pc \notin {"begin", "reserve"}
    BY <1>e, <1>m DEF EndPcs, UsePcs
  <2>2. WorkInv(c)'
    BY <1>0, <1>m, <2>1, WorkSame
  <2>3. EndInv(c)'
    BY <1>e, <1>m, EndSame
  <2>4. Informed(c)'
    BY <1>m DEF Informed, EndPcs, UsePcs
  <2> QED
    BY <2>2, <2>3, <2>4
<1>1. CASE RecordRunTerminalResponse(c)
  <2> DEFINE t == [s EXCEPT !.pc = "inspect", !.path = "terminal"]
  <2>1. cs'[c] = t /\ s.ids # <<>>
    BY <1>0, <1>1, Stepped DEF RecordRunTerminalResponse
  <2>2. /\ t \in CState /\ t.pc = "inspect" /\ t.run = s.run /\ t.req = s.req /\ t.ids = s.ids
        /\ t.text = s.text
    BY <1>0 DEF CState, Pcs
  <2> QED
    BY <1>m, <2>1, <2>2 DEF TodoPcs, ResumePcs, EndPcs, UsePcs
<1>2. CASE Inspect(c) \/ Finalize(c)
  <2>1. /\ s.ids # <<>> /\ s.ids \in Seq(Effect)
    BY <1>0, <1>2, <1>e, CarrierFields DEF Inspect, Finalize, EndPcs
  <2>2. \/ cs'[c] = [s EXCEPT !.pc = "finalize"]
        \/ cs'[c] = [s EXCEPT !.pc = "condemn", !.todo = s.ids]
        \/ cs'[c] = [s EXCEPT !.pc = "use", !.todo = s.ids] /\ final' = Use(c)
    <3>1. \/ Step(c, [s EXCEPT !.pc = "finalize"])
          \/ Step(c, [s EXCEPT !.pc = "condemn", !.todo = s.ids])
          \/ Step(c, [s EXCEPT !.pc = "use", !.todo = s.ids]) /\ final' = Use(c)
      BY <1>2 DEF Inspect, Finalize, Used, Goto, world
    <3> QED
      BY <1>0, <3>1, Stepped
  <2>3. ASSUME NEW t, t = [s EXCEPT !.pc = "finalize"], cs'[c] = t
        PROVE  WorkInv(c)' /\ EndInv(c)' /\ Informed(c)'
    <3>1. /\ t \in CState /\ t.pc = "finalize" /\ t.run = s.run /\ t.req = s.req
          /\ t.ids = s.ids /\ t.text = s.text
      BY <1>0, <2>3 DEF CState, Pcs
    <3> QED
      BY <1>m, <2>1, <2>3, <3>1 DEF TodoPcs, ResumePcs, EndPcs, UsePcs
  <2>4. ASSUME NEW pc \in {"condemn", "use"}, NEW t, t = [s EXCEPT !.pc = pc, !.todo = s.ids],
               cs'[c] = t, pc = "use" => final' = Use(c)
        PROVE  WorkInv(c)' /\ EndInv(c)' /\ Informed(c)'
    <3>0. pc \in Pcs
      BY DEF Pcs
    <3>a. \A todo \in Seq(Effect) : [s EXCEPT !.pc = pc, !.todo = todo] \in CState
      BY <1>0, <3>0, CarrierType
    <3>1. t \in CState
      BY <2>1, <2>4, <3>a
    <3>2. /\ t.pc = pc /\ t.run = s.run /\ t.req = s.req
          /\ t.ids = s.ids /\ t.text = s.text /\ t.todo = s.ids
      BY <1>0, <2>4 DEF CState
    <3> QED
      BY <1>e, <1>m, <2>1, <2>4, <3>1, <3>2 DEF EndPcs, UsePcs
  <2> QED
    BY <2>2, <2>3, <2>4
<1>3. CASE Condemn(c)
  <2>0. s.todo \in Seq(Effect) /\ s.todo # <<>> /\ s.ids # <<>> /\ s.pc = "condemn"
        /\ \A i \in DOMAIN s.todo : s.todo[i] \in Members(s.run)
    BY <1>0, <1>3, <1>e, CarrierFields DEF Condemn, WorkInv, TodoPcs, EndPcs
  <2>1. CASE Len(s.todo) = 1
    BY <1>3, <1>o, <2>1 DEF Condemn
  <2>2. CASE Len(s.todo) # 1
    <3> DEFINE q == Tail(s.todo)
               t == [s EXCEPT !.todo = q]
    <3>1. cs'[c] = t
      BY <1>0, <1>3, <2>2, Stepped DEF Condemn
    <3>2. /\ q # <<>>
          /\ \A i \in DOMAIN q : i + 1 \in DOMAIN s.todo /\ q[i] = s.todo[i + 1]
      BY <2>0, <2>2, TailFacts
    <3>3. q \in Seq(Effect)
      BY <2>0
    <3> HIDE DEF q
    <3>4. t \in CState
      BY <1>0, <3>3, CarrierType
    <3>5. /\ t.pc = s.pc /\ t.run = s.run /\ t.req = s.req
          /\ t.ids = s.ids /\ t.text = s.text /\ t.todo = q
      BY <1>0 DEF CState
    <3>6. \A i \in DOMAIN q : q[i] \in Members(s.run)
      BY <2>0, <3>2
    <3> HIDE DEF t
    <3> QED
      BY <1>m, <2>0, <3>1, <3>2, <3>4, <3>5, <3>6 DEF EndPcs, UsePcs
  <2> QED
    BY <2>1, <2>2
<1>4. CASE CommitFinalUse(c) \/ Complete(c)
  <2>0. /\ s.todo # <<>> /\ s.ids # <<>> /\ s.pc \in {"use", "complete"}
        /\ \A i \in DOMAIN s.todo : s.todo[i] \in Members(s.run)
        /\ final' = Use(c)
    BY <1>0, <1>4, <1>e DEF CommitFinalUse, Complete, WorkInv, TodoPcs, EndPcs, UsePcs, world
  <2>1. \/ cs'[c] = Advance(s, "use", "close")
        \/ Goto(c, "complete")
    <3>1. Step(c, Advance(s, "use", "close")) \/ Goto(c, "complete")
      BY <1>4 DEF CommitFinalUse, Complete
    <3> QED
      BY <1>0, <3>1, Stepped
  <2>2. ASSUME NEW t, t = Advance(s, "use", "close"), cs'[c] = t
        PROVE  WorkInv(c)' /\ EndInv(c)' /\ Informed(c)'
    <3>1. t \in CState
      BY <1>0, <2>0, <2>2, AdvanceType DEF Pcs
    <3>2. /\ t.pc = "close" \/ (t.pc = "use" /\ t.todo # <<>>)
          /\ t.run = s.run /\ t.req = s.req /\ t.ids = s.ids /\ t.text = s.text
          /\ \A i \in DOMAIN t.todo : \E j \in DOMAIN s.todo : t.todo[i] = s.todo[j]
      BY <1>0, <2>0, <2>2, AdvanceFacts
    <3>3. \A i \in DOMAIN t.todo : t.todo[i] \in Members(s.run)
      BY <2>0, <3>2
    <3> QED
      BY <1>m, <2>0, <2>2, <3>1, <3>2, <3>3 DEF EndPcs, UsePcs, TodoPcs, ResumePcs
  <2>3. CASE Goto(c, "complete")
    <3>1. Moved(c, "complete")
      BY <1>0, <2>3, GotoFacts
    <3>2. WorkInv(c)'
      BY <1>0, <2>0, <3>1, WorkSame DEF Moved
    <3>3. EndInv(c)'
      BY <1>e, <2>0, <3>1, EndSame DEF Moved
    <3>4. Informed(c)'
      BY <3>1 DEF Moved, Informed
    <3> QED
      BY <3>2, <3>3, <3>4
  <2> QED
    BY <2>1, <2>2, <2>3
<1>5. CASE CompleteRun(c)
  BY <1>5, <1>o DEF CompleteRun
<1> QED
  BY <1>1, <1>2, <1>3, <1>4, <1>5 DEF Finish

LEMMA ActorKept ==
  ASSUME IInv, OpsStep, RunsStep, NEW c \in Carrier, CarrierStep(c)
  PROVE  WorkInv(c)' /\ EndInv(c)' /\ Informed(c)'
  BY FindingKept, ResumeKept, ProviderKept, FinishKept DEF CarrierStep

\* The other carriers still have what they had.
LEMMA OthersKept ==
  ASSUME IInv, OpsStep, RunsStep, NEW c \in Carrier, CarrierStep(c), NEW d \in Carrier \ {c}
  PROVE  WorkInv(d)' /\ EndInv(d)' /\ Informed(d)'
<1>0. TypeOK /\ CarrierInv /\ WorkInv(d) /\ EndInv(d) /\ Informed(d) /\ cs[d] \in CState /\ HoldInv
  BY Pieces
<1>1. cs'[d] = cs[d]
  BY <1>0, OthersStay
<1>2. WorkInv(d)'
  <2>1. \A x \in Members(cs[d].run) :
          x \in Effect /\ ops'[x].state # "none" /\ ops'[x].run = cs[d].run
    BY <1>0, OpsKept DEF OpKept, Members
  <2>2. cs[d].pc \notin {"off", "begin"} => cs[d].run \in Run /\ runs'[cs[d].run].state # "none"
    BY <1>0, RunsKept DEF RunKept, WorkInv, Known
  <2>3. \A i \in DOMAIN cs'[d].ids : cs'[d].ids[i] \in Members(cs[d].run)'
    BY <1>0, <1>1, <2>1 DEF WorkInv, Members
  <2>4. cs'[d].pc \in TodoPcs =>
          \A i \in DOMAIN cs'[d].todo : cs'[d].todo[i] \in Members(cs[d].run)'
    BY <1>0, <1>1, <2>1 DEF WorkInv, Members
  <2>5. /\ cs[d].pc # "off" => cs[d].req \in Request
        /\ cs[d].pc = "begin" => cs[d].ids = <<>>
        /\ cs[d].pc \in TodoPcs \cup {"reserve"} => cs[d].todo # <<>>
    BY <1>0 DEF WorkInv
  <2> QED
    BY <1>1, <2>2, <2>3, <2>4, <2>5 DEF WorkInv, Known
<1>3. EndInv(d)'
  <2>1. Use(d)' = Use(d)
    BY <1>1 DEF Use
  <2>2. cs[d].pc \in UsePcs => final' = final
    <3>1. cs[d].pc \in UsePcs => Use(d).text # None /\ final = Use(d)
      BY <1>0, ToolLoopConstants DEF EndInv, EndPcs, Use, Digest
    <3>2. NoUse.text = None
      BY DEF NoUse, Digest
    <3> QED
      BY <3>1, <3>2, FinalKept
  <2> QED
    BY <1>0, <1>1, <2>1, <2>2 DEF EndInv
<1>4. Informed(d)'
  <2>1. CASE applied' = applied
    BY <1>0, <1>1, <2>1 DEF Informed
  <2>2. CASE cs[d].pc \notin {"attempt", "execute", "commit"}
    BY <1>1, <2>2 DEF Informed
  <2>3. CASE /\ cs[c].pc = "execute" /\ Executes(Head(cs[c].todo)) /\ Head(cs[c].todo) \in Effect
             /\ cs[d].pc \in {"attempt", "execute", "commit"}
    <3>1. Apart(c, d)
      BY <1>0 DEF HoldInv
    <3>2. Head(cs[c].todo) # Head(cs[d].todo)
      BY <2>3, <3>1 DEF Apart, LockedPcs
    <3>3. Head(cs[d].todo) \in Effect
      BY <1>0, <2>3, HeadOf DEF TodoPcs, ResumePcs
    <3>4. applied'[Head(cs[d].todo)] = applied[Head(cs[d].todo)]
      BY <1>0, <2>3, <3>2, <3>3, Typed DEF Executes
    <3> QED
      BY <1>0, <1>1, <3>4 DEF Informed
  <2> QED
    BY <2>1, <2>2, <2>3, AppliedSteps
<1> QED
  BY <1>2, <1>3, <1>4

\* Where a step leaves its carrier: with a lock it took or keeps, waiting for the
\* answer of a turn it counted, or elsewhere.
Holds(c) ==
  \E pc \in LockedPcs :
    Moved(c, pc) /\ (cs[c].pc \in LockedPcs \/ ~Locked(Head(cs[c].todo)))

LEMMA Landing ==
  ASSUME IInv, NEW c \in Carrier, CarrierStep(c)
  PROVE  \/ cs'[c].pc \notin LockedPcs \cup {"respond"}
         \/ BeginProviderTurn(c) /\ Moved(c, "respond")
         \/ Holds(c)
<1> DEFINE s == cs[c]
           Elsewhere == cs'[c].pc \notin LockedPcs \cup {"respond"}
<1>0. TypeOK /\ CarrierInv /\ s \in CState
  BY Pieces
<1>s. ASSUME NEW t, Step(c, t), t.pc \notin LockedPcs \cup {"respond"} PROVE Elsewhere
  BY <1>0, <1>s, Stepped
<1>g. ASSUME NEW pc, Goto(c, pc), pc \notin LockedPcs \cup {"respond"} PROVE Elsewhere
  BY <1>0, <1>g, GotoFacts DEF Moved
<1>o. ASSUME Step(c, Off) PROVE Elsewhere
  BY <1>0, <1>o, Stepped DEF Off, LockedPcs
<1>a. ASSUME NEW again \in {"lock", "use"}, NEW after \in {"close", "survey", "turn", "record"},
             s.todo # <<>>, Step(c, Advance(s, again, after))
      PROVE  Elsewhere
  <2>1. Advance(s, again, after).pc \in {again, after}
    BY <1>0, <1>a, AdvanceFacts
  <2> QED
    BY <1>a, <1>s, <2>1 DEF LockedPcs
<1>r. ASSUME NEW u \in CState, NEW todo \in Seq(Effect), NEW after \in {"survey", "turn", "record"},
             Step(c, Resuming(u, todo, after))
      PROVE  Elsewhere
  <2>1. Resuming(u, todo, after).pc \in {"lock", after}
    BY <1>r, ResumingFacts
  <2> QED
    BY <1>r, <1>s, <2>1 DEF LockedPcs
<1>1. CASE Recover(c)
  <2>1. PICK q \in Request :
          \/ Step(c, [Off EXCEPT !.pc = "begin", !.req = q])
          \/ \E r \in Run : Step(c, [Off EXCEPT !.pc = "load", !.req = q, !.run = r])
    BY <1>1 DEF Recover, LiveRuns
  <2>2. /\ [Off EXCEPT !.pc = "begin", !.req = q].pc = "begin"
        /\ \A r : [Off EXCEPT !.pc = "load", !.req = q, !.run = r].pc = "load"
    BY DEF Off
  <2> QED
    BY <1>s, <2>1, <2>2 DEF LockedPcs
<1>2. CASE Begin(c)
  <2>1. PICK r : Step(c, [s EXCEPT !.pc = "load", !.run = r])
    BY <1>2 DEF Begin
  <2>2. [s EXCEPT !.pc = "load", !.run = r].pc = "load"
    BY <1>0 DEF CState
  <2> QED
    BY <1>s, <2>1, <2>2 DEF LockedPcs
<1>3. CASE Load(c)
  <2> DEFINE ids == RunOperations(s.run)
             u == [s EXCEPT !.ids = ids, !.next = Len(ids)]
  <2>1. ids \in Seq(Effect) /\ Len(ids) \in Nat
    BY <1>3, Listing DEF Load
  <2>2. Step(c, Resuming(u, ids, "survey"))
    BY <1>3 DEF Load
  <2> HIDE DEF ids
  <2>3. u \in CState
    BY <1>0, <2>1, CarrierType
  <2> QED
    BY <1>r, <2>1, <2>2, <2>3
<1>4. CASE Resume(c)
  <2>1. CASE Lock(c)
    <3>1. Moved(c, "reconcile")
      BY <1>0, <2>1, GotoFacts DEF Lock
    <3> QED
      BY <2>1, <3>1 DEF Lock, Holds, LockedPcs
  <2>2. CASE Reconcile(c) \/ Attempt(c) \/ Execute(c) \/ CommitEffect(c)
    <3>1. s.pc \in LockedPcs /\ (Step(c, Off) \/ \E pc \in LockedPcs : Goto(c, pc))
      BY <2>2 DEF Reconcile, Attempt, Execute, CommitEffect, LockedPcs
    <3> QED
      BY <1>0, <1>o, <3>1, GotoFacts DEF Holds
  <2>3. CASE Mark(c)
    <3>1. s.todo # <<>> /\ s.after \in {"survey", "turn", "record"}
          /\ Step(c, Advance(s, "lock", s.after))
      BY <1>0, <2>3, HeadOf, CarrierFields DEF Mark, TodoPcs, ResumePcs
    <3> QED
      BY <1>a, <3>1
  <2> QED
    BY <1>4, <2>1, <2>2, <2>3 DEF Resume
<1>5. CASE Survey(c)
  <2>1. \/ Goto(c, "turn")
        \/ \E x : Step(c, [s EXCEPT !.pc = "inspect", !.text = x, !.path = "resumed"])
    BY <1>5 DEF Survey
  <2>2. \A x : [s EXCEPT !.pc = "inspect", !.text = x, !.path = "resumed"].pc = "inspect"
    BY <1>0 DEF CState
  <2> QED
    BY <1>g, <1>s, <2>1, <2>2 DEF LockedPcs
<1>6. CASE BeginProviderTurn(c)
  BY <1>0, <1>6, <1>o, GotoFacts DEF BeginProviderTurn
<1>7. CASE Respond(c)
  <2>1. ASSUME NEW x \in Text, Step(c, Resuming([s EXCEPT !.text = x], s.ids, "record"))
        PROVE  Elsewhere
    BY <1>0, <1>r, <2>1, CarrierType, CarrierFields
  <2>2. ASSUME NEW e \in Effect, Step(c, [s EXCEPT !.pc = "reserve", !.todo = <<e>>])
        PROVE  Elsewhere
    <3>1. [s EXCEPT !.pc = "reserve", !.todo = <<e>>].pc = "reserve"
      BY <1>0 DEF CState
    <3> QED
      BY <1>s, <2>2, <3>1 DEF LockedPcs
  <2> QED
    BY <1>7, <2>1, <2>2 DEF Respond
<1>8. CASE Reserve(c)
  <2> DEFINE h == Head(s.todo)
             ids == IF Listed(h, s.ids) THEN s.ids ELSE Append(s.ids, h)
  <2>1. h \in Effect /\ s.ids \in Seq(Effect) /\ s.next \in Nat
    BY <1>0, <1>8, HeadOf, CarrierFields DEF Reserve
  <2>2. ids \in Seq(Effect) /\ <<h>> \in Seq(Effect)
    BY <2>1
  <2>3. ASSUME NEW next \in Nat, Joined(c, h, next) PROVE Elsewhere
    <3>1. Step(c, Resuming([s EXCEPT !.ids = ids, !.next = next], <<h>>, "turn"))
      BY <2>3 DEF Joined
    <3> HIDE DEF ids
    <3>2. [s EXCEPT !.ids = ids, !.next = next] \in CState
      BY <1>0, <2>2, CarrierType
    <3> QED
      BY <1>r, <2>2, <3>1, <3>2
  <2>4. Step(c, Off) \/ Joined(c, h, s.next) \/ Joined(c, h, s.next + 1)
    BY <1>8 DEF Reserve, Collide, Replay, Create
  <2> HIDE DEF h
  <2> QED
    BY <1>o, <2>1, <2>3, <2>4
<1>9. CASE RecordRunTerminalResponse(c)
  <2>1. [s EXCEPT !.pc = "inspect", !.path = "terminal"].pc = "inspect"
    BY <1>0 DEF CState
  <2> QED
    BY <1>9, <1>s, <2>1 DEF RecordRunTerminalResponse, LockedPcs
<1>10. CASE Inspect(c) \/ Finalize(c)
  <2>1. \/ Goto(c, "finalize")
        \/ Step(c, [s EXCEPT !.pc = "condemn", !.todo = s.ids])
        \/ Step(c, [s EXCEPT !.pc = "use", !.todo = s.ids])
    BY <1>10 DEF Inspect, Finalize, Used
  <2>2. /\ [s EXCEPT !.pc = "condemn", !.todo = s.ids].pc = "condemn"
        /\ [s EXCEPT !.pc = "use", !.todo = s.ids].pc = "use"
    BY <1>0 DEF CState
  <2> QED
    BY <1>g, <1>s, <2>1, <2>2 DEF LockedPcs
<1>11. CASE Condemn(c)
  <2>1. s.pc = "condemn" /\ (Step(c, Off) \/ Step(c, [s EXCEPT !.todo = Tail(s.todo)]))
    BY <1>11 DEF Condemn
  <2>2. [s EXCEPT !.todo = Tail(s.todo)].pc = s.pc
    BY <1>0 DEF CState
  <2> QED
    BY <1>o, <1>s, <2>1, <2>2 DEF LockedPcs
<1>12. CASE CommitFinalUse(c)
  <2>1. s.todo # <<>> /\ ~Locked(Head(s.todo))
        /\ (Step(c, Advance(s, "use", "close")) \/ Goto(c, "complete"))
    BY <1>0, <1>12, HeadOf DEF CommitFinalUse, TodoPcs
  <2>2. Goto(c, "complete") => Holds(c)
    BY <1>0, <2>1, GotoFacts DEF Holds, LockedPcs
  <2> QED
    BY <1>a, <2>1, <2>2
<1>13. CASE Complete(c)
  <2>1. s.todo # <<>> /\ Step(c, Advance(s, "use", "close"))
    BY <1>0, <1>13, HeadOf DEF Complete, TodoPcs
  <2> QED
    BY <1>a, <2>1
<1>14. CASE CompleteRun(c) \/ GiveUp(c)
  BY <1>14, <1>o DEF CompleteRun, GiveUp
<1> QED
  BY <1>1, <1>2, <1>3, <1>4, <1>5, <1>6, <1>7, <1>8, <1>9, <1>10, <1>11, <1>12, <1>13, <1>14
  DEF CarrierStep, Finish

\* No lock gets a second holder.
LEMMA ApartKept ==
  ASSUME IInv, NEW c \in Carrier, CarrierStep(c), NEW d \in Carrier, NEW x \in Carrier
  PROVE  Apart(d, x)'
<1>0. TypeOK /\ HoldInv
  BY Pieces
<1>1. \A y \in Carrier \ {c} : cs'[y] = cs[y]
  BY <1>0, OthersStay
<1>2. cs'[c].pc \in LockedPcs => Holds(c)
  BY Landing DEF LockedPcs, Moved
<1>3. ASSUME NEW y \in Carrier \ {c}, cs'[c].pc \in LockedPcs, cs'[y].pc \in LockedPcs
      PROVE  Head(cs'[c].todo) # Head(cs'[y].todo)
  <2>1. /\ cs'[c].todo = cs[c].todo
        /\ cs[c].pc \in LockedPcs \/ ~Locked(Head(cs[c].todo))
    BY <1>2, <1>3 DEF Holds, Moved
  <2>2. cs'[y] = cs[y] /\ cs[y].pc \in LockedPcs
    BY <1>1, <1>3
  <2>3. CASE cs[c].pc \in LockedPcs
    <3>1. Apart(c, y)
      BY <1>0 DEF HoldInv
    <3> QED
      BY <2>1, <2>2, <2>3, <3>1 DEF Apart
  <2>4. CASE ~Locked(Head(cs[c].todo))
    BY <2>1, <2>2, <2>4 DEF Locked, LockedPcs
  <2> QED
    BY <2>1, <2>3, <2>4
<1>4. CASE d = c \/ x = c
  BY <1>3, <1>4 DEF Apart
<1>5. CASE d # c /\ x # c
  <2>1. Apart(d, x) /\ cs'[d] = cs[d] /\ cs'[x] = cs[x]
    BY <1>0, <1>1, <1>5 DEF HoldInv
  <2> QED
    BY <2>1 DEF Apart
<1> QED
  BY <1>4, <1>5

-----------------------------------------------------------------------------
(* The turns of a run.                                                      *)

LEMMA AskingFinite ==
  ASSUME NEW r
  PROVE  /\ Asking(r) \subseteq Carrier /\ IsFiniteSet(Asking(r))
         /\ Cardinality(Asking(r)) \in Nat
<1>1. Asking(r) \subseteq Carrier
  BY DEF Asking
<1> QED
  BY <1>1, ToolLoopConstants, FS_Subset, FS_CardinalityType

\* No run has fewer turns than before.
LEMMA TurnsGrow ==
  ASSUME TypeOK, RunsInv, RunsStep, NEW r \in Run
  PROVE  /\ runs[r].turns \in Nat /\ runs'[r].turns \in Nat /\ runs[r].turns <= runs'[r].turns
<1>0. runs \in [Run -> RunRec] /\ runs[r].turns \in Nat
  <2>1. runs \in [Run -> RunRec]
    BY Typed
  <2>2. runs[r].turns \in 0..TurnLimit
    BY <2>1, RunType
  <2> QED
    BY <2>1, <2>2, ToolLoopConstants
<1>1. runs[r].state = "none" => runs[r].turns = 0
  BY DEF RunsInv, NoRun
<1>2. CASE runs' = runs
  BY <1>0, <1>2
<1>3. ASSUME NEW s \in Run, Blocks(s) \/ Turns(s) \/ Completes(s) \/ \E q \in Request : Begins(s, q)
      PROVE  runs'[r].turns \in Nat /\ runs[r].turns <= runs'[r].turns
  <2>1. CASE r # s
    <3>1. runs'[r] = runs[r]
      BY <1>0, <1>3, <2>1 DEF Blocks, Turns, Completes, Begins
    <3> QED
      BY <1>0, <3>1
  <2>2. CASE r = s
    <3>1. CASE Blocks(s) \/ Completes(s)
      <4>1. runs'[r].turns = runs[r].turns
        BY <1>0, <2>2, <3>1 DEF Blocks, Completes, RunRec
      <4> QED
        BY <1>0, <4>1
    <3>2. CASE Turns(s)
      <4>1. runs'[r].turns = runs[r].turns + 1
        BY <1>0, <2>2, <3>2 DEF Turns, RunRec
      <4> QED
        BY <1>0, <4>1
    <3>3. CASE \E q \in Request : Begins(s, q)
      <4>1. runs'[r].turns = 0 /\ runs[r].state = "none"
        BY <1>0, <2>2, <3>3 DEF Begins
      <4> QED
        BY <1>1, <4>1
    <3> QED
      BY <1>3, <3>1, <3>2, <3>3
  <2> QED
    BY <2>1, <2>2
<1> QED
  BY <1>0, <1>2, <1>3 DEF RunsStep

LEMMA TurnsKept ==
  ASSUME IInv, RunsStep, NEW c \in Carrier, CarrierStep(c)
  PROVE  TurnsInv'
<1> DEFINE s == cs[c]
<1>0. TypeOK /\ RunsInv /\ TurnsInv /\ WorkInv(c) /\ asked \in [Run -> Nat] /\ runs \in [Run -> RunRec]
  BY Pieces, Typed
<1>1. \A y \in Carrier \ {c} : cs'[y] = cs[y]
  BY <1>0, OthersStay
<1>2. \A r \in Run : /\ runs[r].turns \in Nat /\ runs'[r].turns \in Nat
                     /\ runs[r].turns <= runs'[r].turns
  BY <1>0, TurnsGrow
<1>3. \A r \in Run : asked[r] + Cardinality(Asking(r)) <= runs[r].turns /\ asked[r] \in Nat
  BY <1>0 DEF TurnsInv
<1>f. \A r : IsFiniteSet(Asking(r)) /\ Cardinality(Asking(r)) \in Nat
  BY AskingFinite
<1>l. ASSUME NEW r \in Run, Asking(r)' \subseteq Asking(r), asked' = asked
      PROVE  asked'[r] + Cardinality(Asking(r)') <= runs'[r].turns
  <2>1. Cardinality(Asking(r)') <= Cardinality(Asking(r)) /\ Cardinality(Asking(r)') \in Nat
    BY <1>f, <1>l, FS_Subset, FS_CardinalityType
  <2> QED
    BY <1>2, <1>3, <1>f, <1>l, <2>1
<1>4. CASE Respond(c)
  <2>1. /\ s.pc = "respond" /\ asked' = [asked EXCEPT ![s.run] = @ + 1] /\ runs' = runs
        /\ s.run \in Run
    BY <1>0, <1>4 DEF Respond, journal, WorkInv, Known
  <2>2. cs'[c].pc # "respond"
    BY <1>4, Landing DEF Respond, BeginProviderTurn, Holds, Moved, LockedPcs
  <2>3. \A r : Asking(r)' = Asking(r) \ {c}
    BY <1>1, <2>2 DEF Asking
  <2>4. ASSUME NEW r \in Run, r # s.run
        PROVE  asked'[r] + Cardinality(Asking(r)') <= runs'[r].turns
    <3>1. c \notin Asking(r)
      BY <2>4 DEF Asking
    <3>2. Asking(r)' = Asking(r)
      BY <2>3, <3>1
    <3> QED
      BY <1>0, <1>3, <2>1, <2>4, <3>2
  <2>5. asked'[s.run] + Cardinality(Asking(s.run) \ {c}) <= runs'[s.run].turns
    <3>1. c \in Asking(s.run)
      BY <2>1 DEF Asking
    <3>2. Cardinality(Asking(s.run) \ {c}) = Cardinality(Asking(s.run)) - 1
      BY <1>f, <3>1, FS_RemoveElement
    <3>3. asked'[s.run] = asked[s.run] + 1
      BY <1>0, <2>1
    <3> QED
      BY <1>2, <1>3, <1>f, <2>1, <3>2, <3>3
  <2> QED
    BY <2>3, <2>4, <2>5 DEF TurnsInv
<1>5. CASE BeginProviderTurn(c) /\ cs'[c].pc = "respond"
  <2>1. /\ s.pc = "turn" /\ s.run \in Run /\ asked' = asked
        /\ cs'[c].run = s.run
    BY <1>0, <1>5, Landing DEF BeginProviderTurn, history, WorkInv, Known, Holds, Moved, LockedPcs
  <2>2. runs' = [runs EXCEPT ![s.run].turns = @ + 1]
    <3>1. cs'[c] = Off \/ runs' = [runs EXCEPT ![s.run].turns = @ + 1]
      BY <1>0, <1>5, Stepped DEF BeginProviderTurn
    <3> QED
      BY <1>5, <3>1 DEF Off
  <2>3. ASSUME NEW r \in Run, r # s.run
        PROVE  asked'[r] + Cardinality(Asking(r)') <= runs'[r].turns
    <3>1. Asking(r)' \subseteq Asking(r)
      BY <1>1, <2>1, <2>3 DEF Asking
    <3> QED
      BY <1>l, <2>1, <3>1
  <2>4. asked'[s.run] + Cardinality(Asking(s.run) \cup {c}) <= runs'[s.run].turns
    <3>1. c \notin Asking(s.run)
      BY <2>1 DEF Asking
    <3>2. Cardinality(Asking(s.run) \cup {c}) = Cardinality(Asking(s.run)) + 1
      BY <1>f, <3>1, FS_AddElement
    <3>3. runs'[s.run].turns = runs[s.run].turns + 1
      BY <1>0, <2>1, <2>2 DEF RunRec
    <3> QED
      BY <1>2, <1>3, <1>f, <2>1, <3>2, <3>3
  <2>5. \A r : r = s.run => Asking(r)' = Asking(s.run) \cup {c}
    BY <1>1, <1>5, <2>1 DEF Asking
  <2> QED
    BY <2>3, <2>4, <2>5 DEF TurnsInv
<1>6. CASE ~Respond(c) /\ cs'[c].pc # "respond"
  <2>1. asked' = asked
    BY <1>6 DEF CarrierStep, Resume, Finish, Recover, Begin, Load, Lock, Reconcile, Attempt, Execute,
       Finalize, CommitEffect, Mark, Survey, BeginProviderTurn, Reserve,
       RecordRunTerminalResponse, Inspect, Condemn, CommitFinalUse, Complete, CompleteRun, GiveUp,
       history
  <2>2. \A r : Asking(r)' \subseteq Asking(r)
    BY <1>1, <1>6 DEF Asking
  <2> QED
    BY <1>l, <2>1, <2>2 DEF TurnsInv
<1> QED
  BY <1>4, <1>5, <1>6, Landing DEF Holds, Moved, LockedPcs

-----------------------------------------------------------------------------
(* The invariant is inductive.                                              *)

LEMMA InitIInv == Init => IInv
<1> SUFFICES ASSUME Init PROVE IInv
  OBVIOUS
<1>1. TypeOK
  BY InitType
<1>2. /\ \A r \in Run : runs[r] = NoRun /\ runs[r].state = "none" /\ asked[r] = 0
                        /\ runs[r].turns = 0 /\ runs[r].req = None
      /\ \A e \in Effect : ops[e] = NoOp /\ ops[e].state = "none" /\ ops[e].fin = NoUse
                           /\ applied[e] = 0
      /\ \A c \in Carrier : cs[c] = Off /\ cs[c].pc = "off" /\ cs[c].ids = <<>>
      /\ final = NoUse /\ answers = {}
  BY DEF Init, NoRun, NoOp, Off
<1>3. \A r : Members(r) = {}
  BY <1>2 DEF Members
<1>4. RunsInv /\ OpsInv /\ FinalInv /\ AnswersInv /\ AnswersAreFinal
  BY <1>2 DEF RunsInv, OpsInv, OpInv, FinalInv, AnswersInv, AnswersAreFinal
<1>5. CarrierInv /\ TextInv /\ HoldInv
  BY <1>2 DEF CarrierInv, WorkInv, TextInv, EndInv, HoldInv, Informed, Apart, LockedPcs, TodoPcs,
     ResumePcs, EndPcs, UsePcs
<1>6. TurnsInv
  <2>1. \A r \in Run : Asking(r) = {}
    BY <1>2 DEF Asking
  <2>2. \A r \in Run : Cardinality(Asking(r)) = 0
    BY <2>1, FS_EmptySet
  <2>3. \A r \in Run : asked[r] = 0 /\ runs[r].turns = 0
    BY <1>2
  <2> QED
    BY <2>2, <2>3 DEF TurnsInv
<1>7. EffectsOnce /\ RunsInSequence /\ OneRunPerRequest
  BY <1>2, <1>3 DEF EffectsOnce, RunsInSequence, OneRunPerRequest
<1> QED
  BY <1>1, <1>4, <1>5, <1>6, <1>7 DEF IInv

LEMMA CarrierStepIInv ==
  ASSUME IInv, NEW c \in Carrier, CarrierStep(c)
  PROVE  IInv'
<1>0. /\ TypeOK /\ RunsInv /\ OpsInv /\ FinalInv /\ CarrierInv
      /\ EffectsOnce /\ RunsInSequence /\ OneRunPerRequest
  BY DEF IInv
<1>1. OpsStep /\ RunsStep
  BY OpsSteps, RunsSteps
<1>2. TypeOK'
  BY <1>0, ActionType
<1>3. RunsInv' /\ OneRunPerRequest'
  BY <1>0, <1>1, RunsInvKept
<1>4. OpsInv' /\ FinalInv'
  BY <1>0, <1>1, FinalKept, OpsInvKept
<1>5. \A d \in Carrier : WorkInv(d)' /\ EndInv(d)' /\ Informed(d)'
  BY <1>1, ActorKept, OthersKept
<1>6. CarrierInv' /\ TextInv'
  BY <1>5 DEF CarrierInv, TextInv
<1>7. HoldInv'
  BY <1>5, ApartKept DEF HoldInv
<1>8. AnswersInv' /\ AnswersAreFinal'
  BY AnswersKept
<1>9. TurnsInv'
  BY <1>1, TurnsKept
<1>10. EffectsOnce'
  BY <1>0, <1>1, AppliedSteps, EffectsKept
<1>11. RunsInSequence'
  BY <1>0, <1>1, SequenceKept
<1> QED
  BY <1>2, <1>3, <1>4, <1>6, <1>7, <1>8, <1>9, <1>10, <1>11 DEF IInv

\* What only the journal, the artifact and the history say.
LEMMA Steady ==
  ASSUME IInv, UNCHANGED <<runs, ops, applied, final, asked, answers>>
  PROVE  /\ RunsInv' /\ OpsInv' /\ FinalInv' /\ AnswersInv' /\ AnswersAreFinal'
         /\ EffectsOnce' /\ RunsInSequence' /\ OneRunPerRequest'
<1>0. /\ RunsInv /\ OpsInv /\ FinalInv /\ AnswersInv
      /\ EffectsOnce /\ RunsInSequence /\ AnswersAreFinal /\ OneRunPerRequest
  BY DEF IInv
<1>1. RunsInv'
  BY <1>0 DEF RunsInv, Members
<1>2. OpsInv'
  <2>1. \A e \in Effect : OpInv(e)'
    BY <1>0 DEF OpsInv, OpInv, Known, InOrder, Members
  <2> QED
    BY <2>1 DEF OpsInv
<1>3. FinalInv' /\ AnswersInv'
  BY <1>0 DEF FinalInv, AnswersInv
<1>4. AnswersAreFinal'
  BY <1>0 DEF AnswersAreFinal, InOrder, Members
<1>5. EffectsOnce' /\ OneRunPerRequest'
  BY <1>0 DEF EffectsOnce, OneRunPerRequest
<1>6. RunsInSequence'
  BY <1>0 DEF RunsInSequence, Members
<1> QED
  BY <1>1, <1>2, <1>3, <1>4, <1>5, <1>6

\* A crash loses the carriers, and no carrier needs to be there.
LEMMA CrashIInv == IInv /\ Crash => IInv'
<1> SUFFICES ASSUME IInv, Crash PROVE IInv'
  OBVIOUS
<1>0. /\ TypeOK /\ RunsInv /\ OpsInv /\ FinalInv /\ CarrierInv /\ AnswersInv /\ TurnsInv
      /\ EffectsOnce /\ RunsInSequence /\ AnswersAreFinal /\ OneRunPerRequest
  BY DEF IInv
<1>1. UNCHANGED <<runs, ops, applied, final, asked, answers>>
  BY DEF Crash, journal, world, history
<1>2. TypeOK'
  BY <1>0, NextType DEF Next
<1>3. \A c \in Carrier : cs'[c] = Off
  BY DEF Crash
<1>4. \A c \in Carrier : WorkInv(c)' /\ EndInv(c)' /\ Informed(c)'
  BY <1>3, WorkOff
<1>5. CarrierInv' /\ TextInv'
  BY <1>4 DEF CarrierInv, TextInv
<1>6. HoldInv'
  BY <1>3, <1>4 DEF HoldInv, Apart, LockedPcs, Off
<1>7. /\ RunsInv' /\ OpsInv' /\ FinalInv' /\ AnswersInv' /\ AnswersAreFinal'
      /\ EffectsOnce' /\ RunsInSequence' /\ OneRunPerRequest'
  BY <1>0, <1>1, Steady
<1>8. TurnsInv'
  <2>1. \A r : Asking(r)' = {}
    BY <1>3 DEF Asking, Off
  <2>2. \A r \in Run : asked[r] <= runs[r].turns /\ asked[r] \in Nat
    <3>1. ASSUME NEW r \in Run PROVE asked[r] <= runs[r].turns /\ asked[r] \in Nat
      <4>1. asked[r] \in Nat /\ runs[r] \in RunRec
        BY <1>0, Typed
      <4>2. runs[r].turns \in Nat
        BY <4>1, RunType, ToolLoopConstants
      <4>3. asked[r] + Cardinality(Asking(r)) <= runs[r].turns
        BY <1>0 DEF TurnsInv
      <4> QED
        BY <4>1, <4>2, <4>3, AskingFinite
    <3> QED
      BY <3>1
  <2> QED
    BY <1>1, <2>1, <2>2, FS_EmptySet DEF TurnsInv
<1> QED
  BY <1>2, <1>5, <1>6, <1>7, <1>8 DEF IInv

LEMMA StutterIInv == IInv /\ UNCHANGED vars => IInv'
<1> SUFFICES ASSUME IInv, UNCHANGED vars PROVE IInv'
  OBVIOUS
<1>0. TypeOK /\ CarrierInv /\ TextInv /\ HoldInv /\ TurnsInv
  BY DEF IInv
<1>1. UNCHANGED <<runs, ops, applied, final, asked, answers>> /\ cs' = cs
  BY DEF vars
<1>2. TypeOK'
  BY <1>0, NextType
<1>3. CarrierInv'
  BY <1>0, <1>1 DEF CarrierInv, WorkInv, Known, Members
<1>4. TextInv' /\ HoldInv' /\ TurnsInv'
  BY <1>0, <1>1 DEF TextInv, EndInv, Use, HoldInv, Informed, Apart, TurnsInv, Asking
<1> QED
  BY <1>1, <1>2, <1>3, <1>4, Steady DEF IInv

\* IInv holds in every state: Init gives it and no step of a carrier, and no
\* crash, takes it away.
THEOREM LoopInvariant == Spec => []IInv
<1>1. IInv /\ [Next]_vars => IInv'
  BY CarrierStepIInv, CrashIInv, StutterIInv DEF Next
<1> QED
  BY InitIInv, <1>1, PTL DEF Spec

\* The types of the journal, of the artifact and of every carrier's Run.
THEOREM LoopTypeCorrect == Spec => []TypeOK
<1>1. IInv => TypeOK
  BY DEF IInv
<1> QED
  BY LoopInvariant, <1>1, PTL

\* The executor runs no effect twice, and what the journal shows as done was done
\* (lockOperation, ReconcileEffect before BeginAttempt).
THEOREM EffectsHappenOnce == Spec => []EffectsOnce
<1>1. IInv => EffectsOnce
  BY DEF IInv
<1> QED
  BY LoopInvariant, <1>1, PTL

\* The operations of every run are numbered without gap or repetition (Reserve).
THEOREM RunsStayInSequence == Spec => []RunsInSequence
<1>1. IInv => RunsInSequence
  BY DEF IInv
<1> QED
  BY LoopInvariant, <1>1, PTL

\* A caller's answer is the artifact's one final use, backed by the journal
\* (RecordRunTerminalResponse, CommitFinalUse, CompleteRun).
THEOREM AnswersStayFinal == Spec => []AnswersAreFinal
<1>1. IInv => AnswersAreFinal
  BY DEF IInv
<1> QED
  BY LoopInvariant, <1>1, PTL

\* A request has one run, ended or not (BeginOrResumeRun).
THEOREM RequestsHaveOneRun == Spec => []OneRunPerRequest
<1>1. IInv => OneRunPerRequest
  BY DEF IInv
<1> QED
  BY LoopInvariant, <1>1, PTL

\* The provider answers no run more often than the turn limit, over every carrier
\* and restart (BeginProviderTurn counts in the journal before it asks).
THEOREM TurnsStayBounded == Spec => []TurnsBounded
<1>1. IInv => TurnsBounded
  <2>1. ASSUME IInv, NEW r \in Run PROVE asked[r] <= TurnLimit
    <3>1. TypeOK /\ TurnsInv
      BY <2>1 DEF IInv
    <3>2. asked[r] \in Nat /\ runs[r] \in RunRec
      BY <3>1, Typed
    <3>3. runs[r].turns \in Nat /\ runs[r].turns <= TurnLimit
      BY <3>2, RunType, ToolLoopConstants
    <3>4. asked[r] + Cardinality(Asking(r)) <= runs[r].turns
      BY <3>1 DEF TurnsInv
    <3> QED
      BY <3>2, <3>3, <3>4, AskingFinite, ToolLoopConstants
  <2> QED
    BY <2>1 DEF TurnsBounded
<1> QED
  BY LoopInvariant, <1>1, PTL

\* A settled run keeps its record and its operations (Reserve joins active runs
\* only, and no call reopens a run).
THEOREM SettledRunsNeverChange == Spec => SettledRunsStay
<1> DEFINE Stays == \A r \in Run : runs[r].state \in {"completed", "blocked"} =>
                      runs'[r] = runs[r] /\ Members(r)' = Members(r)
<1>1. ASSUME IInv, [Next]_vars PROVE Stays
  <2>1. TypeOK
    BY <1>1 DEF IInv
  <2>2. CASE UNCHANGED vars \/ Crash
    BY <2>2 DEF vars, Crash, journal, Members
  <2>3. ASSUME NEW c \in Carrier, CarrierStep(c), NEW r \in Run,
               runs[r].state \in {"completed", "blocked"}
        PROVE  runs'[r] = runs[r] /\ Members(r)' = Members(r)
    <3>1. OpsStep /\ RunsStep
      BY <1>1, <2>3, OpsSteps, RunsSteps
    <3>2. runs'[r] = runs[r]
      BY <2>1, <2>3, <3>1, RunsKept DEF RunKept
    <3>3. CASE ~Joining
      BY <2>1, <3>1, <3>2, <3>3, MembersKept
    <3>4. CASE Joining
      <4>1. PICK e \in Effect, q \in Run, n \in Nat : Joins(e, q, n)
        BY <3>4 DEF Joining
      <4>2. r # q
        BY <2>3, <4>1 DEF Joins
      <4> QED
        BY <2>1, <3>2, <4>1, <4>2, MembersJoined
    <3> QED
      BY <3>3, <3>4
  <2> QED
    BY <1>1, <2>2, <2>3 DEF Next
<1>2. IInv /\ [Next]_vars => [Stays]_vars
  BY <1>1
<1> QED
  BY LoopInvariant, <1>2, PTL DEF Spec, SettledRunsStay

-----------------------------------------------------------------------------
(* The promise.                                                             *)

\* The final use a carrier puts in place is of effects that took place.
LEMMA FinalSteps ==
  ASSUME IInv, NEW c \in Carrier, CarrierStep(c)
  PROVE  \/ final' = final
         \/ Promise!Settle
<1>1. CASE ~Finalize(c)
  BY <1>1 DEF CarrierStep, Resume, Finish, Recover, Begin, Load, Lock, Reconcile, Attempt,
     Execute, CommitEffect, Mark, Survey, BeginProviderTurn, Respond, Reserve,
     RecordRunTerminalResponse, Inspect, Condemn, CommitFinalUse, Complete, CompleteRun, GiveUp,
     world
<1>2. CASE Finalize(c) /\ final' # final
  <2>1. final = NoUse /\ final' = Use(c) /\ UNCHANGED <<applied, answers>>
    BY <1>2 DEF Finalize, history
  <2>2. Use(c) \in Digests
    BY UseType DEF IInv
  <2>3. \A i \in DOMAIN cs[c].ids : applied[cs[c].ids[i]] = 1
    <3>1. cs[c] \in CState /\ applied \in [Effect -> Nat]
      BY Typed DEF IInv
    <3> SUFFICES ASSUME NEW i \in DOMAIN cs[c].ids PROVE applied[cs[c].ids[i]] = 1
      OBVIOUS
    <3>2. cs[c].ids[i] \in Effect
      BY <3>1, CarrierFields
    <3>3. applied[cs[c].ids[i]] > 0
      BY <1>2 DEF Finalize
    <3> QED
      BY <3>1, <3>2, <3>3 DEF IInv, EffectsOnce
  <2>4. Use(c).ids = cs[c].ids
    BY DEF Use, Digest
  <2> QED
    BY <2>1, <2>2, <2>3, <2>4, <1>2 DEF Promise!Settle
<1> QED
  BY <1>1, <1>2

\* Only CompleteRun answers, with the final use.
LEMMA AnswerSteps ==
  ASSUME IInv, NEW c \in Carrier, CarrierStep(c)
  PROVE  answers' = answers \/ Promise!Answer
<1>1. CASE ~CompleteRun(c)
  BY <1>1 DEF CarrierStep, Resume, Finish, Recover, Begin, Load, Lock, Reconcile, Attempt,
     Execute, CommitEffect, Mark, Survey, BeginProviderTurn, Respond, Reserve, Finalize,
     RecordRunTerminalResponse, Inspect, Condemn, CommitFinalUse, Complete, GiveUp, history
<1>2. CASE CompleteRun(c)
  <2>1. /\ cs[c].pc = "close" /\ answers' = answers \cup {Use(c)}
        /\ UNCHANGED <<applied, final>>
    BY <1>2 DEF CompleteRun, world
  <2>2. final = Use(c) /\ cs[c].text \in Text
    BY <2>1 DEF IInv, TextInv, EndInv, EndPcs, UsePcs
  <2>3. final # NoUse
    BY <2>2, ToolLoopConstants DEF Use, NoUse, Digest
  <2> QED
    BY <2>1, <2>2, <2>3 DEF Promise!Answer
<1> QED
  BY <1>1, <1>2

LEMMA PromiseSteps ==
  ASSUME IInv, [Next]_vars
  PROVE  [Promise!Next]_(Promise!vars)
<1>1. CASE UNCHANGED vars \/ Crash
  BY <1>1 DEF vars, Crash, world, history, Promise!vars
<1>2. ASSUME NEW c \in Carrier, CarrierStep(c) PROVE [Promise!Next]_(Promise!vars)
  <2>1. CASE applied' # applied
    <3>1. /\ Head(cs[c].todo) \in Effect /\ Executes(Head(cs[c].todo)) /\ cs[c].pc = "execute"
      BY <1>2, <2>1, AppliedSteps
    <3>2. Execute(c) \/ GiveUp(c)
      BY <1>2, <3>1 DEF CarrierStep, Resume, Finish, Recover, Begin, Load, Lock, Reconcile, Attempt,
         CommitEffect, Mark, Survey, BeginProviderTurn, Respond, Reserve, Finalize,
         RecordRunTerminalResponse, Inspect, Condemn, CommitFinalUse, Complete, CompleteRun
    <3>3. UNCHANGED <<final, answers>>
      BY <3>2 DEF Execute, GiveUp, world, history
    <3> QED
      BY <3>1, <3>3 DEF Executes, Promise!TakePlace, Promise!Next
  <2>2. CASE applied' = applied
    BY <1>2, <2>2, FinalSteps, AnswerSteps DEF Promise!Next, Promise!Settle, Promise!Answer, Promise!vars
  <2> QED
    BY <2>1, <2>2
<1> QED
  BY <1>1, <1>2 DEF Next

\* Carriers, retries, restarts and the journal together do to the artifact what
\* AnswerOnce promises: Execute, Finalize and CompleteRun are its steps, and every
\* other one is invisible.
THEOREM LoopImplementsAnswerOnce == Spec => ImplementsAnswerOnce
<1>1. Init => Promise!Init
  BY DEF Init, Promise!Init
<1> QED
  BY <1>1, PromiseSteps, LoopInvariant, PTL DEF Spec, ImplementsAnswerOnce, Promise!Spec

\* What follows from the promise alone.
OnceInv ==
  /\ applied \in [Effect -> 0..1]
  /\ answers \subseteq {final} /\ (final = NoUse => answers = {})
  /\ final # NoUse => \A i \in DOMAIN final.ids : applied[final.ids[i]] = 1

LEMMA OnceStep ==
  ASSUME OnceInv, [Promise!Next]_(Promise!vars)
  PROVE  /\ OnceInv' /\ (final # NoUse => final' = final)
         /\ \A e \in Effect : applied'[e] >= applied[e]
<1>1. CASE Promise!TakePlace
  <2>1. PICK e \in Effect : applied[e] = 0 /\ applied' = [applied EXCEPT ![e] = 1]
    BY <1>1 DEF Promise!TakePlace
  <2>2. UNCHANGED <<final, answers>>
    BY <1>1 DEF Promise!TakePlace
  <2>3. \A d \in Effect : applied'[d] >= applied[d] /\ applied'[d] \in 0..1
    BY <2>1 DEF OnceInv
  <2>4. \A x : applied[x] = 1 => applied'[x] = 1
    BY <2>1 DEF OnceInv
  <2> QED
    BY <2>1, <2>2, <2>3, <2>4 DEF OnceInv
<1>2. CASE Promise!Settle
  BY <1>2 DEF Promise!Settle, OnceInv
<1>3. CASE Promise!Answer
  BY <1>3 DEF Promise!Answer, OnceInv
<1>4. CASE UNCHANGED Promise!vars
  BY <1>4 DEF Promise!vars, OnceInv
<1> QED
  BY <1>1, <1>2, <1>3, <1>4 DEF Promise!Next

\* Whatever implements the promise never changes the final use once it is set,
\* never answers anything else, and rests it on effects that took place once.
THEOREM PromiseAnswersOnce ==
  ImplementsAnswerOnce =>
    /\ [](answers \subseteq {final})
    /\ [](\A e \in Effect : applied[e] <= 1)
    /\ [](answers # {} => \A i \in DOMAIN final.ids : applied[final.ids[i]] = 1)
    /\ [][final # NoUse => final' = final]_vars
<1> DEFINE Stands == final # NoUse => final' = final
           Told == answers # {} => \A i \in DOMAIN final.ids : applied[final.ids[i]] = 1
           Once == \A e \in Effect : applied[e] <= 1
<1>1. Promise!Init => OnceInv
  BY DEF Promise!Init, OnceInv
<1>2. OnceInv /\ [Promise!Next]_(Promise!vars) => OnceInv' /\ [Stands]_vars
  BY OnceStep
<1>3. OnceInv => answers \subseteq {final} /\ Told /\ Once
  BY DEF OnceInv
<1> HIDE DEF Stands, Told, Once
<1>4. ImplementsAnswerOnce =>
        [](answers \subseteq {final}) /\ []Once /\ []Told /\ [][Stands]_vars
  BY <1>1, <1>2, <1>3, PTL DEF ImplementsAnswerOnce, Promise!Spec
<1> QED
  BY <1>4 DEF Stands, Told, Once
=============================================================================
