------------------------------ MODULE ToolLoop ------------------------------
(***************************************************************************)
(* The tool loop of the realtime assistant (openai_tool_loop.go) over the   *)
(* runs and operations of its journal (openai_tool_journal.go): carriers of *)
(* one process answer requests about one artifact, ask a provider, run the  *)
(* tool it calls, and put the terminal text to final use exactly once.      *)
(* Every journal call is one step, which ToolJournal justifies; so is every *)
(* call of the provider, the executor and the finalizer.  An operation is   *)
(* named by its semantic effect, of which the journal keeps one.  A call    *)
(* that returns an error ends the carrier's Run: a step whose guard fails   *)
(* leaves GiveUp.                                                           *)
(***************************************************************************)
EXTENDS Naturals, Sequences, FiniteSets

CONSTANTS
  Carrier,      \* Run calls in the process
  Request,      \* request digests of one authority expectation
  Effect,       \* semantic effects the provider may call for
  Text,         \* terminal responses it may give
  None,         \* no request, no text
  TurnLimit,    \* openAIToolRunnerMaxTurns
  MaxRuns, MaxStarts, MaxFaults,   \* bounds
  Faults        \* the kinds of fault that may strike

FaultKinds == {"ambiguous", "absent", "collision", "crash"}

ASSUME ToolLoopConstants ==
  /\ IsFiniteSet(Carrier) /\ IsFiniteSet(Effect)
  /\ None \notin Request \cup Text /\ TurnLimit \in Nat
  /\ MaxRuns \in Nat /\ MaxStarts \in Nat /\ MaxFaults \in Nat
  /\ Faults \subseteq FaultKinds

VARIABLES
  runs,      \* journal.state.Runs
  ops,       \* journal.state.Records with their envelopes, by effect
  applied,   \* how often each effect was executed
  final,     \* the final use recorded on the artifact
  cs,        \* where each carrier's Run is
  starts, faults,
  asked,     \* history: provider responses per run
  answers    \* history: the final uses whose text a caller got

vars == <<runs, ops, applied, final, cs, starts, faults, asked, answers>>

Run == 1..MaxRuns

\* openAIToolFinalizationRunDigest.
Digest(run, text, ids) == [run |-> run, text |-> text, ids |-> ids]
NoUse == Digest(0, None, <<>>)
Digests == [run : 0..MaxRuns, text : Text \cup {None}, ids : Seq(Effect)]

NoRun == [state |-> "none", req |-> None, turns |-> 0]
NoOp == [state |-> "none", run |-> 0, seq |-> 0, text |-> None, fin |-> NoUse]
Off == [pc |-> "off", req |-> None, run |-> 0, ids |-> <<>>, next |-> 0,
        todo |-> <<>>, after |-> "turn", path |-> "none", text |-> None]

RunStates == {"none", "active", "blocked", "completed"}
OpStates == {"none", "reserved", "committed", "sent", "completed", "quarantined"}
Pcs == {"off", "begin", "load", "lock", "reconcile", "attempt", "execute", "commit",
        "mark", "survey", "turn", "respond", "reserve", "record",
        "inspect", "finalize", "condemn", "use", "complete", "close"}

TypeOK ==
  /\ runs \in [Run -> [state : RunStates, req : Request \cup {None}, turns : 0..TurnLimit]]
  /\ ops \in [Effect -> [state : OpStates, run : 0..MaxRuns, seq : Nat,
                         text : Text \cup {None}, fin : Digests]]
  /\ applied \in [Effect -> Nat] /\ final \in Digests
  /\ cs \in [Carrier -> [pc : Pcs, req : Request \cup {None}, run : 0..MaxRuns,
                         ids : Seq(Effect), next : Nat, todo : Seq(Effect),
                         after : {"survey", "turn", "record"},
                         path : {"none", "resumed", "terminal"},
                         text : Text \cup {None}]]
  /\ starts \in 0..MaxStarts /\ faults \in 0..MaxFaults
  /\ asked \in [Run -> Nat] /\ answers \subseteq Digests

Init ==
  /\ runs = [r \in Run |-> NoRun] /\ ops = [e \in Effect |-> NoOp]
  /\ applied = [e \in Effect |-> 0] /\ final = NoUse
  /\ cs = [c \in Carrier |-> Off] /\ starts = 0 /\ faults = 0
  /\ asked = [r \in Run |-> 0] /\ answers = {}

journal == <<runs, ops>>
world == <<applied, final>>
bounds == <<starts, faults>>
history == <<asked, answers>>

Fault(kind) == kind \in Faults /\ faults < MaxFaults /\ faults' = faults + 1

Members(r) == {e \in Effect : ops[e].state # "none" /\ ops[e].run = r}

\* ids is the complete run r in the order of RunSequence.
InOrder(r, ids) ==
  /\ Len(ids) = Cardinality(Members(r))
  /\ \A i \in DOMAIN ids : ids[i] \in Members(r) /\ ops[ids[i]].seq = i - 1

\* RunOperations, which fails when the sequence has a gap.
Contiguous(r) == \A i \in 1..Cardinality(Members(r)) : \E e \in Members(r) : ops[e].seq = i - 1
RunOperations(r) ==
  [i \in 1..Cardinality(Members(r)) |-> CHOOSE e \in Members(r) : ops[e].seq = i - 1]

Listed(e, ids) == \E i \in DOMAIN ids : ids[i] = e

\* lockOperation: who is between it and its unlock.
Locked(e) ==
  \E d \in Carrier : /\ cs[d].pc \in {"reconcile", "attempt", "execute", "commit", "mark", "complete"}
                     /\ Head(cs[d].todo) = e

\* Resume the operations of todo one after the other, and go on at after.
Resuming(state, todo, after) ==
  [state EXCEPT !.pc = IF todo = <<>> THEN after ELSE "lock", !.todo = todo, !.after = after]

\* The operation at the head of todo is done and its lock released.
Advance(state, again, after) ==
  [state EXCEPT !.pc = IF Len(state.todo) = 1 THEN after ELSE again, !.todo = Tail(state.todo)]

Step(c, state) == cs' = [cs EXCEPT ![c] = state]
Goto(c, pc) == Step(c, [cs[c] EXCEPT !.pc = pc])

Quarantine(e) == ops' = [ops EXCEPT ![e].state = "quarantined"]

-----------------------------------------------------------------------------
(* Finding the run.                                                         *)

\* ActiveOperationRunForExpectation, which fails on more than one.
LiveRuns == {r \in Run : runs[r].state \in {"active", "blocked"} /\ Members(r) # {}}

Recover(c) ==
  /\ cs[c].pc = "off" /\ starts < MaxStarts /\ starts' = starts + 1
  /\ \E q \in Request :
       \/ /\ LiveRuns = {}
          /\ Step(c, [Off EXCEPT !.pc = "begin", !.req = q])
       \/ \E r \in LiveRuns :
            /\ LiveRuns = {r}
            /\ Step(c, [Off EXCEPT !.pc = "load", !.req = q, !.run = r])
  /\ UNCHANGED <<journal, world, faults, history>>

\* Wrong variant: a completed run is not found again.
SameRequestLive(c) ==
  {r \in Run : runs[r].req = cs[c].req /\ runs[r].state \in {"active", "blocked"}}

\* BeginOrResumeRun: the runs of this request that count, and the next of its
\* kind when there is none.  A blocked match is an error.
SameRequest(c) ==
  {r \in Run : /\ runs[r].req = cs[c].req
               /\ \/ runs[r].state \in {"active", "blocked"}
                  \/ runs[r].state = "completed" /\ Members(r) # {}}

Begin(c) ==
  /\ cs[c].pc = "begin"
  /\ \/ \E r \in SameRequest(c) :
          /\ SameRequest(c) = {r} /\ runs[r].state # "blocked"
          /\ Step(c, [cs[c] EXCEPT !.pc = "load", !.run = r])
          /\ UNCHANGED runs
     \/ /\ SameRequest(c) = {}
        /\ \E r \in Run :
             /\ runs[r].state = "none" /\ \A s \in 1..(r - 1) : runs[s].state # "none"
             /\ runs' = [runs EXCEPT ![r] = [state |-> "active", req |-> cs[c].req, turns |-> 0]]
             /\ Step(c, [cs[c] EXCEPT !.pc = "load", !.run = r])
  /\ UNCHANGED <<ops, world, bounds, history>>

Load(c) ==
  /\ cs[c].pc = "load" /\ Contiguous(cs[c].run)
  /\ LET ids == RunOperations(cs[c].run)
     IN Step(c, Resuming([cs[c] EXCEPT !.ids = ids, !.next = Len(ids)], ids, "survey"))
  /\ UNCHANGED <<journal, world, bounds, history>>

-----------------------------------------------------------------------------
(* resumeOpenAIToolOperation, under the operation's lock.                    *)

\* Wrong variant: carriers do not wait for each other's operations.
LockIgnored(c) ==
  /\ cs[c].pc = "lock"
  /\ Goto(c, "reconcile")
  /\ UNCHANGED <<journal, world, bounds, history>>

Lock(c) ==
  /\ cs[c].pc = "lock" /\ ~Locked(Head(cs[c].todo))
  /\ Goto(c, "reconcile")
  /\ UNCHANGED <<journal, world, bounds, history>>

\* The executor says whether the effect took place before anything is done;
\* an answer it cannot give, or an effect no longer in place, quarantines, as
\* does a preimage that moved while the effect was absent.
Reconcile(c) ==
  /\ cs[c].pc = "reconcile"
  /\ LET e == Head(cs[c].todo) IN
     /\ ops[e].state # "quarantined"
     /\ \/ /\ Goto(c, IF ops[e].state # "reserved" THEN "mark"
                      ELSE IF applied[e] = 0 THEN "attempt" ELSE "commit")
           /\ ops[e].state # "reserved" => applied[e] > 0
           /\ UNCHANGED <<ops, faults>>
        \/ /\ \/ Fault("ambiguous")
              \/ ops[e].state # "reserved" /\ applied[e] = 0 /\ UNCHANGED faults
           /\ Quarantine(e) /\ Step(c, Off)
  /\ UNCHANGED <<runs, world, starts, history>>

\* BeginAttempt.
Attempt(c) ==
  /\ cs[c].pc = "attempt" /\ ops[Head(cs[c].todo)].state = "reserved"
  /\ Goto(c, "execute")
  /\ UNCHANGED <<journal, world, bounds, history>>

Execute(c) ==
  /\ cs[c].pc = "execute"
  /\ applied' = [applied EXCEPT ![Head(cs[c].todo)] = @ + 1]
  /\ Goto(c, "commit")
  /\ UNCHANGED <<journal, final, bounds, history>>

CommitEffect(c) ==
  /\ cs[c].pc = "commit"
  /\ LET e == Head(cs[c].todo) IN
     ops[e].state = "reserved" /\ ops' = [ops EXCEPT ![e].state = "committed"]
  /\ Goto(c, "mark")
  /\ UNCHANGED <<runs, world, bounds, history>>

\* The reread, MarkContinuationSent when it is due, and the unlock.
Mark(c) ==
  /\ cs[c].pc = "mark"
  /\ LET e == Head(cs[c].todo) IN
     \/ ops[e].state = "committed" /\ ops' = [ops EXCEPT ![e].state = "sent"]
     \/ ops[e].state \in {"sent", "completed"} /\ UNCHANGED ops
  /\ Step(c, Advance(cs[c], "lock", cs[c].after))
  /\ UNCHANGED <<runs, world, bounds, history>>

\* Every operation of the run has the same terminal text already: no provider.
Survey(c) ==
  /\ cs[c].pc = "survey"
  /\ LET ids == cs[c].ids
         text == ops[ids[1]].text
     IN IF ids # <<>> /\ text # None /\ \A i \in DOMAIN ids : ops[ids[i]].text = text
        THEN Step(c, [cs[c] EXCEPT !.pc = "inspect", !.text = text, !.path = "resumed"])
        ELSE Goto(c, "turn")
  /\ UNCHANGED <<journal, world, bounds, history>>

-----------------------------------------------------------------------------
(* The provider.                                                            *)

\* Wrong variant: the limit lets one more turn through.
BeginProviderTurnLate(c) ==
  /\ cs[c].pc = "turn" /\ runs[cs[c].run].state = "active"
  /\ IF runs[cs[c].run].turns > TurnLimit
     THEN runs' = [runs EXCEPT ![cs[c].run].state = "blocked"] /\ Step(c, Off)
     ELSE runs' = [runs EXCEPT ![cs[c].run].turns = @ + 1] /\ Goto(c, "respond")
  /\ UNCHANGED <<ops, world, bounds, history>>

BeginProviderTurn(c) ==
  /\ cs[c].pc = "turn" /\ runs[cs[c].run].state = "active"
  /\ IF runs[cs[c].run].turns >= TurnLimit
     THEN runs' = [runs EXCEPT ![cs[c].run].state = "blocked"] /\ Step(c, Off)
     ELSE runs' = [runs EXCEPT ![cs[c].run].turns = @ + 1] /\ Goto(c, "respond")
  /\ UNCHANGED <<ops, world, bounds, history>>

\* A terminal text, for which every effect is revalidated, or one call.
Respond(c) ==
  /\ cs[c].pc = "respond"
  /\ asked' = [asked EXCEPT ![cs[c].run] = @ + 1]
  /\ \/ \E t \in Text :
          Step(c, Resuming([cs[c] EXCEPT !.text = t], cs[c].ids, "record"))
     \/ \E e \in Effect :
          Step(c, [cs[c] EXCEPT !.pc = "reserve", !.todo = <<e>>])
  /\ UNCHANGED <<journal, world, bounds, answers>>

\* Resume the operation Reserve returned.
Joined(c, e, next) ==
  LET ids == IF Listed(e, cs[c].ids) THEN cs[c].ids ELSE Append(cs[c].ids, e)
  IN Step(c, Resuming([cs[c] EXCEPT !.ids = ids, !.next = next], <<e>>, "turn"))

\* A correlation that belongs to another effect quarantines that one.
Collide(c) ==
  /\ Fault("collision") /\ Step(c, Off)
  /\ \E e \in Effect : ops[e].state # "none" /\ e # Head(cs[c].todo) /\ Quarantine(e)

\* The semantic effect has its operation already, in this run: its run has this
\* request, and OneRunPerRequest leaves no other (SupersedeRun is never called).
Replay(c) ==
  LET e == Head(cs[c].todo) IN
  /\ ops[e].state # "none" /\ runs[ops[e].run].req = cs[c].req
  /\ ops[e].run = cs[c].run
  /\ Joined(c, e, cs[c].next)
  /\ UNCHANGED <<ops, faults>>

\* Wrong variant: the proposed sequence number is not compared.
CreateUnordered(c) ==
  LET e == Head(cs[c].todo) IN
  /\ ops[e].state = "none"
  /\ \A m \in Members(cs[c].run) : ops[m].fin = NoUse
  /\ ops' = [ops EXCEPT ![e] = [NoOp EXCEPT !.state = "reserved", !.run = cs[c].run,
                                            !.seq = cs[c].next]]
  /\ Joined(c, e, cs[c].next + 1)
  /\ UNCHANGED faults

Create(c) ==
  LET e == Head(cs[c].todo) IN
  /\ ops[e].state = "none"
  /\ \A m \in Members(cs[c].run) : ops[m].fin = NoUse
  /\ cs[c].next = Cardinality(Members(cs[c].run))
  /\ ops' = [ops EXCEPT ![e] = [NoOp EXCEPT !.state = "reserved", !.run = cs[c].run,
                                            !.seq = cs[c].next]]
  /\ Joined(c, e, cs[c].next + 1)
  /\ UNCHANGED faults

\* Wrong variant: the run's state is not looked at.
ReserveAnyRun(c) ==
  /\ cs[c].pc = "reserve" /\ runs[cs[c].run].req = cs[c].req
  /\ Collide(c) \/ Replay(c) \/ Create(c)
  /\ UNCHANGED <<runs, world, starts, history>>

Reserve(c) ==
  /\ cs[c].pc = "reserve"
  /\ runs[cs[c].run].state = "active" /\ runs[cs[c].run].req = cs[c].req
  /\ Collide(c) \/ Replay(c) \/ Create(c)
  /\ UNCHANGED <<runs, world, starts, history>>

-----------------------------------------------------------------------------
(* The terminal text and its final use.                                     *)

\* Wrong variant: a later terminal text replaces the recorded one.
RecordRunTerminalResponseAgain(c) ==
  /\ cs[c].pc = "record" /\ cs[c].ids # <<>>
  /\ InOrder(ops[cs[c].ids[1]].run, cs[c].ids)
  /\ \A e \in Effect : Listed(e, cs[c].ids) => ops[e].state \in {"sent", "completed"}
  /\ ops' = [e \in Effect |-> IF Listed(e, cs[c].ids) THEN [ops[e] EXCEPT !.text = cs[c].text] ELSE ops[e]]
  /\ Step(c, [cs[c] EXCEPT !.pc = "inspect", !.path = "terminal"])
  /\ UNCHANGED <<runs, world, bounds, history>>

\* The complete run, every member ready, and no other text recorded; the loop
\* has asked the last two of each member just before.
RecordRunTerminalResponse(c) ==
  /\ cs[c].pc = "record" /\ cs[c].ids # <<>>
  /\ InOrder(ops[cs[c].ids[1]].run, cs[c].ids)
  /\ \A e \in Effect : Listed(e, cs[c].ids) => /\ ops[e].state \in {"sent", "completed"}
                                               /\ ops[e].text \in {None, cs[c].text}
  /\ ops' = [e \in Effect |-> IF Listed(e, cs[c].ids) THEN [ops[e] EXCEPT !.text = cs[c].text] ELSE ops[e]]
  /\ Step(c, [cs[c] EXCEPT !.pc = "inspect", !.path = "terminal"])
  /\ UNCHANGED <<runs, world, bounds, history>>

Use(c) == Digest(cs[c].run, cs[c].text, cs[c].ids)

\* The final use is there: receipt it on every operation.
Used(c) == Step(c, [cs[c] EXCEPT !.pc = "use", !.todo = cs[c].ids])

\* reconcileOrFinalizeOpenAIToolRun up to FinalizeOpenAIToolRun.
Inspect(c) ==
  /\ cs[c].pc = "inspect"
  /\ LET receipted == \E i \in DOMAIN cs[c].ids : ops[cs[c].ids[i]].fin # NoUse
         condemned == Step(c, [cs[c] EXCEPT !.pc = "condemn", !.todo = cs[c].ids])
     IN \/ final = Use(c) /\ Used(c) /\ UNCHANGED faults
        \/ /\ \/ final = NoUse /\ UNCHANGED faults
              \/ Fault("absent")
           /\ IF receipted THEN condemned ELSE Goto(c, "finalize")
        \/ /\ \/ final \notin {NoUse, Use(c)} /\ UNCHANGED faults
              \/ Fault("ambiguous")
           /\ condemned
  /\ UNCHANGED <<journal, world, starts, history>>

\* The artifact takes one final use, of operations that can all be proved.
Finalize(c) ==
  /\ cs[c].pc = "finalize" /\ final \in {NoUse, Use(c)}
  /\ \A i \in DOMAIN cs[c].ids : ops[cs[c].ids[i]].state # "none" /\ applied[cs[c].ids[i]] > 0
  /\ final' = Use(c)
  /\ Used(c)
  /\ UNCHANGED <<journal, applied, bounds, history>>

\* Quarantine every operation, one call each; then the error.
Condemn(c) ==
  /\ cs[c].pc = "condemn"
  /\ Quarantine(Head(cs[c].todo))
  /\ IF Len(cs[c].todo) = 1 THEN Step(c, Off)
     ELSE Step(c, [cs[c] EXCEPT !.todo = Tail(cs[c].todo)])
  /\ UNCHANGED <<runs, world, bounds, history>>

\* The receipt of the final use on one operation, under its lock.
CommitFinalUse(c) ==
  /\ cs[c].pc = "use"
  /\ LET e == Head(cs[c].todo) IN
     /\ ~Locked(e)
     /\ \/ /\ cs[c].path = "terminal" /\ ops[e].state = "completed"
           /\ Step(c, Advance(cs[c], "use", "close"))
           /\ UNCHANGED ops
        \/ /\ cs[c].path = "resumed" \/ ops[e].state # "completed"
           /\ ops[e].state \in {"committed", "sent", "completed"}
           /\ InOrder(ops[e].run, cs[c].ids)
           /\ Use(c) = Digest(ops[e].run, ops[e].text, cs[c].ids)
           /\ ops[e].fin \in {NoUse, Use(c)}
           /\ ops' = [ops EXCEPT ![e].fin = Use(c),
                                 ![e].state = IF @ = "completed" THEN @ ELSE "sent"]
           /\ Goto(c, "complete")
  /\ UNCHANGED <<runs, world, bounds, history>>

Complete(c) ==
  /\ cs[c].pc = "complete"
  /\ LET e == Head(cs[c].todo) IN
     /\ ops[e].state \in {"sent", "completed"} /\ ops[e].text # None /\ ops[e].fin # NoUse
     /\ ops' = [ops EXCEPT ![e].state = "completed"]
  /\ Step(c, Advance(cs[c], "use", "close"))
  /\ UNCHANGED <<runs, world, bounds, history>>

\* CompleteRun, and the answer to the caller.  The digest a completed run is
\* compared with holds the text and the members, which the guards pin.
CompleteRun(c) ==
  /\ cs[c].pc = "close" /\ runs[cs[c].run].state \in {"active", "completed"}
  /\ Contiguous(cs[c].run)
  /\ \A e \in Members(cs[c].run) : ops[e].state = "completed" /\ ops[e].text = cs[c].text
  /\ runs' = [runs EXCEPT ![cs[c].run].state = "completed"]
  /\ answers' = answers \cup {Use(c)}
  /\ Step(c, Off)
  /\ UNCHANGED <<ops, world, bounds, asked>>

-----------------------------------------------------------------------------
(* Errors and crashes.                                                      *)

\* An error of any call, a lease or context that ended: Run returns, its
\* deferred unlocks run, and what the journal holds stays.
GiveUp(c) ==
  /\ cs[c].pc # "off" /\ Step(c, Off)
  /\ UNCHANGED <<journal, world, bounds, history>>

Crash ==
  /\ Fault("crash") /\ cs' = [c \in Carrier |-> Off]
  /\ UNCHANGED <<journal, world, starts, history>>

Resume(c) == Lock(c) \/ Reconcile(c) \/ Attempt(c) \/ Execute(c) \/ CommitEffect(c) \/ Mark(c)

Finish(c) ==
  \/ RecordRunTerminalResponse(c) \/ Inspect(c) \/ Finalize(c) \/ Condemn(c)
  \/ CommitFinalUse(c) \/ Complete(c) \/ CompleteRun(c)

CarrierStep(c) ==
  \/ Recover(c) \/ Begin(c) \/ Load(c) \/ Resume(c) \/ Survey(c)
  \/ BeginProviderTurn(c) \/ Respond(c) \/ Reserve(c) \/ Finish(c) \/ GiveUp(c)

Next == Crash \/ \E c \in Carrier : CarrierStep(c)

Spec == Init /\ [][Next]_vars
-----------------------------------------------------------------------------
(* What the loop promises.                                                  *)

\* No effect is executed twice, whichever carriers, crashes and retries meet on
\* it, and whatever the provider was shown as done was done (the operation lock,
\* and the reconciliation that precedes BeginAttempt and every replay).
EffectsOnce ==
  \A e \in Effect :
    /\ applied[e] <= 1
    /\ ops[e].state \in {"committed", "sent", "completed"} => applied[e] = 1

\* The operations of a run are numbered without gap or repetition, whoever
\* reserved them (the sequence checks of Reserve).
RunsInSequence ==
  \A r \in Run : \A e \in Members(r) :
    /\ ops[e].seq < Cardinality(Members(r))
    /\ \A d \in Members(r) : ops[d].seq = ops[e].seq => d = e

\* What a caller was answered is the one final use of the artifact, and the
\* journal backs it: a completed run, all of its operations in their order, each
\* with that text and that receipt.  Two callers never get different answers
\* (RecordRunTerminalResponse, CommitFinalUse and CompleteRun together).
AnswersAreFinal ==
  \A a \in answers :
    /\ final = a /\ runs[a.run].state = "completed" /\ InOrder(a.run, a.ids)
    /\ \A e \in Members(a.run) : ops[e].text = a.text /\ ops[e].fin = a

\* No request has two runs: a retry finds the run of the call before it, ended or
\* not ("multiple live runs for one exact request").
OneRunPerRequest ==
  \A r, s \in Run : runs[r].state # "none" /\ runs[s].req = runs[r].req => r = s

\* The provider answers no run more often than the limit, over every carrier
\* and restart ("durable turn limit survives run and process restart").
TurnsBounded == \A r \in Run : asked[r] <= TurnLimit

\* A completed or blocked run never changes again and no operation
\* joins or leaves it.
SettledRunsStay ==
  [][\A r \in Run : runs[r].state \in {"completed", "blocked"} =>
       runs'[r] = runs[r] /\ Members(r)' = Members(r)]_vars

\* The journal, the carriers and their crashes behind it, the artifact is put to
\* use as the promise has it: Execute, Finalize and CompleteRun are its steps.
Promise == INSTANCE AnswerOnce WITH FinalUse <- Digests

ImplementsAnswerOnce == Promise!Spec
=============================================================================
