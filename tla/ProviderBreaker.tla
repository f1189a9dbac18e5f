--------------------------- MODULE ProviderBreaker ---------------------------
(***************************************************************************)
(* The circuit breaker of one provider seat (provider_breaker.go) and the   *)
(* calls that ride it: withProviderResilience asks for admission, calls the *)
(* primary dial, reports, and may replay once on the twin dial.  The        *)
(* records of different seats never meet.  A call to the responder is the   *)
(* gap between two actions; each region under the registry's lock is one.   *)
(***************************************************************************)
EXTENDS Naturals, FiniteSets

CONSTANTS
  Call,          \* slots for requests in flight; their number is a bound
  Threshold,     \* providerBreakerFailureThreshold
  MaxFails       \* bound: wire failures of the primary dial

ASSUME BreakerConstants == Threshold \in Nat /\ MaxFails \in Nat

VARIABLES
  twin,          \* whether seatFallbackModel names a fallback dial for the seat
  state,         \* the record: state, consecutiveFailures, probing, epoch,
  failures,      \*   and the class in openReason, "none" when empty
  probing,
  epoch,
  reason,
  due,           \* the cooldown of the last opening has elapsed
  call,          \* the requests: what they were admitted as and where they are
  fails,
  since,         \* history: calls admitted to the primary dial since the last opening
  quotaOut       \* history: the latest evidence on the primary dial is a quota failure

record == <<state, failures, probing, epoch, reason, due>>
vars == <<twin, state, failures, probing, epoch, reason, due, call, fails, since, quotaOut>>

\* The replayable wire classes behave alike and are one.
Class == {"quota", "wire"}

NoCall == [pc |-> "off", probe |-> FALSE, epoch |-> 0]

TypeOK ==
  /\ twin \in BOOLEAN
  /\ state \in {"closed", "open", "half_open"} /\ failures \in Nat
  /\ probing \in BOOLEAN /\ epoch \in Nat /\ reason \in Class \cup {"none"}
  /\ due \in BOOLEAN
  /\ call \in [Call -> [pc : {"off", "primary", "twin"}, probe : BOOLEAN, epoch : Nat]]
  /\ fails \in Nat /\ since \subseteq Call /\ quotaOut \in BOOLEAN

Init ==
  /\ twin \in BOOLEAN
  /\ state = "closed" /\ failures = 0 /\ probing = FALSE /\ epoch = 0
  /\ reason = "none" /\ due = FALSE
  /\ call = [c \in Call |-> NoCall]
  /\ fails = 0 /\ since = {} /\ quotaOut = FALSE

InPrimary == {c \in Call : call[c].pc = "primary"}

\* settleLocked, which every read of the record goes through first.
Settled == IF state = "open" /\ due THEN "half_open" ELSE state

Replayable(class) == class # "quota"

\* Wrong variant: the prefix of a failed probe hides its class.
ReasonUncut(class, probe) == IF probe THEN "probe_failed" ELSE class

\* openReason, as providerBreakerOpenClass reads it back.
Reason(class, probe) == class

-----------------------------------------------------------------------------
(* Admission.                                                               *)

\* Wrong variant: half-open admits everybody.
AdmitPrimaryAll(c) ==
  /\ call[c].pc = "off" /\ Settled # "open"
  /\ state' = Settled
  /\ probing' = (Settled = "half_open")
  /\ call' = [call EXCEPT ![c] = [pc |-> "primary", probe |-> Settled = "half_open", epoch |-> epoch]]
  /\ since' = since \cup {c}
  /\ UNCHANGED <<twin, failures, epoch, reason, due, fails, quotaOut>>

AdmitPrimary(c) ==
  /\ call[c].pc = "off"
  /\ Settled = "closed" \/ (Settled = "half_open" /\ ~probing)
  /\ state' = Settled
  /\ probing' = (Settled = "half_open")
  /\ call' = [call EXCEPT ![c] = [pc |-> "primary", probe |-> Settled = "half_open", epoch |-> epoch]]
  /\ since' = since \cup {c}
  /\ UNCHANGED <<twin, failures, epoch, reason, due, fails, quotaOut>>

\* Not admitted: the twin serves the request, unless there is none or the class
\* that opened the breaker is one the twin shares.  The request is then refused
\* with providerBreakerOpenError, which changes nothing.
Steer(c) ==
  /\ call[c].pc = "off"
  /\ Settled = "open" \/ (Settled = "half_open" /\ probing)
  /\ twin /\ (reason = "none" \/ Replayable(reason))
  /\ call' = [call EXCEPT ![c] = [NoCall EXCEPT !.pc = "twin"]]
  /\ UNCHANGED <<twin, record, fails, since, quotaOut>>

\* snapshot and paused: a health read or a background worker's check.
Look ==
  /\ Settled # state /\ state' = Settled /\ probing' = FALSE
  /\ UNCHANGED <<twin, failures, epoch, reason, due, call, fails, since, quotaOut>>

-----------------------------------------------------------------------------
(* Outcomes of the primary dial.                                            *)

End(c) == call' = [call EXCEPT ![c] = NoCall]

\* Wrong variant: any success closes the breaker.
SucceedAlways(c) ==
  /\ call[c].pc = "primary"
  /\ End(c) /\ since' = since \ {c}
  /\ failures' = 0 /\ reason' = "none" /\ state' = "closed"
  /\ probing' = (probing /\ ~(call[c].probe \/ state = "half_open"))
  /\ quotaOut' = FALSE
  /\ UNCHANGED <<twin, epoch, due, fails>>

\* recordPrimarySuccess, for an answer and for an output rejection; one that
\* was admitted before the breaker opened is only counted.
Succeed(c) ==
  /\ call[c].pc = "primary"
  /\ End(c) /\ since' = since \ {c}
  /\ IF call[c].epoch # epoch
     THEN UNCHANGED <<state, failures, probing, reason, quotaOut>>
     ELSE /\ failures' = 0 /\ reason' = "none" /\ state' = "closed"
          /\ probing' = (probing /\ ~(call[c].probe \/ state = "half_open"))
          /\ quotaOut' = FALSE
  /\ UNCHANGED <<twin, epoch, due, fails>>

\* Wrong variant: only wire evidence gives the slot back.
NoEvidenceHolds(c) ==
  /\ call[c].pc = "primary"
  /\ End(c) /\ since' = since \ {c}
  /\ UNCHANGED <<twin, record, fails, quotaOut>>

\* An error that is no wire failure: a probe gives its slot back (releaseProbe).
NoEvidence(c) ==
  /\ call[c].pc = "primary"
  /\ End(c) /\ since' = since \ {c}
  /\ probing' = (probing /\ ~call[c].probe)
  /\ UNCHANGED <<twin, state, failures, epoch, reason, due, fails, quotaOut>>

\* openLocked; the history forgets the calls admitted before.
Open(class, probe) ==
  /\ epoch' = IF state = "open" THEN epoch ELSE epoch + 1
  /\ state' = "open" /\ due' = FALSE /\ probing' = FALSE
  /\ reason' = Reason(class, probe)
  /\ since' = {}

\* Wrong variant: the threshold opens a breaker that is open already.
OpensAgain(class, probe) == probe \/ class = "quota" \/ failures + 1 >= Threshold

\* The cases of recordPrimaryFailure.
Opens(class, probe) ==
  probe \/ class = "quota" \/ (failures + 1 >= Threshold /\ state = "closed")

\* recordPrimaryFailure, and the one replay of a replayable failure whose
\* caller is still there.
Fail(c) ==
  /\ call[c].pc = "primary" /\ fails < MaxFails
  /\ fails' = fails + 1 /\ failures' = failures + 1
  /\ \E class \in Class :
       /\ quotaOut' = (class = "quota" \/ (quotaOut /\ ~call[c].probe))
       /\ IF Opens(class, call[c].probe)
          THEN Open(class, call[c].probe)
          ELSE /\ since' = since \ {c}
               /\ UNCHANGED <<state, probing, epoch, reason, due>>
       /\ \/ End(c)
          \/ /\ twin /\ Replayable(class)
             /\ call' = [call EXCEPT ![c] = [NoCall EXCEPT !.pc = "twin"]]
  /\ UNCHANGED twin

\* recordFallbackOutcome never changes the breaker.
Replayed(c) ==
  /\ call[c].pc = "twin" /\ End(c)
  /\ UNCHANGED <<twin, record, fails, since, quotaOut>>

\* The cooldown is ten minutes, a call of a resilient seat at most two
\* (openAIResponsesRequestTimeout): no call admitted before the opening is
\* still with the primary dial when it ends.
Elapse ==
  /\ state = "open" /\ ~due /\ InPrimary = {}
  /\ due' = TRUE
  /\ UNCHANGED <<twin, state, failures, probing, epoch, reason, call, fails, since, quotaOut>>

-----------------------------------------------------------------------------
Outcome(c) == Succeed(c) \/ NoEvidence(c) \/ Fail(c)

Next == \/ \E c \in Call : AdmitPrimary(c) \/ Steer(c) \/ Outcome(c) \/ Replayed(c)
        \/ Look \/ Elapse

Spec == Init /\ [][Next]_vars

\* The HTTP client's timeout ends every call; nobody has to send a request.
FairSpec == Spec /\ \A c \in Call : WF_vars(Outcome(c)) /\ WF_vars(Replayed(c))

-----------------------------------------------------------------------------
(* Properties.                                                              *)

\* Half-open admits exactly one probe in flight, and the primary dial sees no
\* other call meanwhile (provider_breaker.go:363-387).
OneProbe == state = "half_open" => Cardinality(InPrimary) <= 1

\* The probe slot is taken exactly while its call is in flight: a slot nobody
\* holds would keep the seat off its primary dial for good
\* (provider_breaker.go:345-361, 416-424).
SlotHeld == probing <=> \E c \in InPrimary : call[c].probe

\* Only a call admitted after the last opening closes the breaker or zeroes the
\* failures that opened it (provider_breaker.go:389-395).
StaleSuccessIgnored ==
  [][ (state # "closed" /\ state' = "closed") \/ failures' < failures
        => \E c \in since : call[c].pc = "primary" /\ call'[c].pc = "off" ]_vars

\* While the account is out of quota no request is steered to the twin, which
\* bills the same account, whatever other failures arrive late
\* (provider_breaker.go:285-289, 646-651).
QuotaFailsFast ==
  [][ \A c \in Call : call[c].pc = "off" /\ call'[c].pc = "twin" => ~quotaOut ]_vars

\* The slot of a probe comes back, whatever the call ends with.
ProbeReturned == probing ~> ~probing
=============================================================================
