------------------------ MODULE ProviderBreakerProofs ------------------------
(***************************************************************************)
(* Proofs about ProviderBreaker, for any number of concurrent requests, any *)
(* threshold and any number of failures.                                    *)
(***************************************************************************)
EXTENDS ProviderBreaker, FiniteSetTheorems, TLAPS

-----------------------------------------------------------------------------
(* The inductive invariant.                                                 *)

\* An open or a closed breaker has no probe out; a half-open one has at most one
\* call out, which is the probe that holds the slot.
SlotInv ==
  /\ \A c \in Call : call[c].probe => call[c].pc = "primary"
  /\ state # "half_open" => ~probing /\ \A c \in Call : ~call[c].probe
  /\ state = "half_open" =>
       /\ \A c, d \in InPrimary : c = d
       /\ \A c \in InPrimary : call[c].probe
       /\ probing <=> InPrimary # {}

\* The bound on a call's duration, kept until somebody settles the record.
DueInv == due /\ state = "open" => InPrimary = {}

\* The epoch names the calls admitted since the last opening.
EpochInv ==
  /\ \A c \in Call : call[c].epoch <= epoch
  /\ since = {c \in InPrimary : call[c].epoch = epoch}
  /\ state = "open" => since = {}
  /\ state # "open" => since = InPrimary

\* A quota failure that nothing has contradicted is why the breaker is not closed.
QuotaInv == quotaOut => state # "closed" /\ reason = "quota"

IInv == TypeOK /\ SlotInv /\ DueInv /\ EpochInv /\ QuotaInv

LEMMA InitIInv == Init => IInv
<1> SUFFICES ASSUME Init PROVE IInv
  OBVIOUS
<1>1. \A c \in Call : call[c].pc = "off" /\ ~call[c].probe /\ call[c].epoch = 0
  BY DEF Init, NoCall
<1>2. InPrimary = {}
  BY <1>1 DEF InPrimary
<1>3. TypeOK
  BY DEF Init, TypeOK, NoCall
<1>4. SlotInv /\ DueInv /\ EpochInv /\ QuotaInv
  BY <1>1, <1>2 DEF Init, SlotInv, DueInv, EpochInv, QuotaInv
<1> QED
  BY <1>3, <1>4 DEF IInv

-----------------------------------------------------------------------------
(* Every action keeps it.                                                   *)

\* Who is out with the primary dial after a call has ended there.
LEMMA EndedCall ==
  ASSUME TypeOK, NEW c \in Call, NEW after \in {"off", "twin"},
         call' = [call EXCEPT ![c] = [NoCall EXCEPT !.pc = after]]
  PROVE  /\ call' \in [Call -> [pc : {"off", "primary", "twin"}, probe : BOOLEAN, epoch : Nat]]
         /\ InPrimary' = InPrimary \ {c}
         /\ \A d \in Call \ {c} : call'[d] = call[d]
         /\ call'[c].pc = after /\ ~call'[c].probe /\ call'[c].epoch = 0
<1>1. \A d \in Call : call'[d] = IF d = c THEN [NoCall EXCEPT !.pc = after] ELSE call[d]
  BY DEF TypeOK
<1>2. [NoCall EXCEPT !.pc = after] \in [pc : {"off", "primary", "twin"}, probe : BOOLEAN, epoch : Nat]
  BY DEF NoCall
<1>3. call' \in [Call -> [pc : {"off", "primary", "twin"}, probe : BOOLEAN, epoch : Nat]]
  BY <1>2 DEF TypeOK
<1>4. InPrimary' = InPrimary \ {c}
  BY <1>1 DEF InPrimary, NoCall
<1> QED
  BY <1>1, <1>3, <1>4 DEF NoCall

LEMMA EndIsEnded ==
  ASSUME NEW c \in Call, End(c)
  PROVE  call' = [call EXCEPT ![c] = [NoCall EXCEPT !.pc = "off"]]
BY DEF End, NoCall

\* The slot and the cooldown after a settled read of the record.
LEMMA SettledSlot ==
  ASSUME IInv
  PROVE  /\ Settled \in {"closed", "open", "half_open"}
         /\ Settled = "closed" <=> state = "closed"
         /\ Settled = "half_open" => \/ state = "half_open"
                                     \/ state = "open" /\ InPrimary = {} /\ ~probing
         /\ Settled = "open" => state = "open"
BY DEF IInv, TypeOK, SlotInv, DueInv, Settled

LEMMA AdmitKeeps ==
  ASSUME IInv, NEW c \in Call, AdmitPrimary(c)
  PROVE  IInv'
<1> DEFINE new == [pc |-> "primary", probe |-> Settled = "half_open", epoch |-> epoch]
<1>1. \A d \in Call : call'[d] = IF d = c THEN new ELSE call[d]
  BY DEF IInv, TypeOK, AdmitPrimary
<1>2. InPrimary' = InPrimary \cup {c}
  BY <1>1 DEF InPrimary
<1>3. c \notin InPrimary
  BY DEF InPrimary, AdmitPrimary
<1>4. Settled = "half_open" => InPrimary = {}
  BY SettledSlot DEF IInv, SlotInv, AdmitPrimary
<1>5. TypeOK'
  <2>1. new \in [pc : {"off", "primary", "twin"}, probe : BOOLEAN, epoch : Nat]
    BY DEF IInv, TypeOK
  <2>2. call' \in [Call -> [pc : {"off", "primary", "twin"}, probe : BOOLEAN, epoch : Nat]]
    BY <2>1 DEF IInv, TypeOK, AdmitPrimary
  <2> QED
    BY <2>2, SettledSlot DEF IInv, TypeOK, AdmitPrimary
<1>6. SlotInv'
  <2>1. CASE Settled = "half_open"
    <3>1. InPrimary' = {c} /\ state' = "half_open"
      BY <1>2, <1>4, <2>1 DEF AdmitPrimary
    <3>2. probing' = TRUE
      BY <2>1 DEF AdmitPrimary
    <3>3. \A d \in Call : call'[d].probe => call'[d].pc = "primary"
      BY <1>1 DEF IInv, SlotInv
    <3>4. call'[c].probe
      <4>1. new.probe = (Settled = "half_open")
        OBVIOUS
      <4>2. call'[c] = new
        BY <1>1
      <4> QED
        BY <2>1, <4>1, <4>2
    <3>5. \A x, y \in InPrimary' : x = y
      BY <3>1
    <3>6. \A x \in InPrimary' : call'[x].probe
      BY <3>1, <3>4
    <3>7. probing' <=> InPrimary' # {}
      BY <3>1, <3>2
    <3>8. state' = "half_open"
      BY <3>1
    <3> QED
      BY <3>3, <3>5, <3>6, <3>7, <3>8 DEF SlotInv
  <2>2. CASE Settled = "closed"
    <3>1. state' = "closed" /\ state = "closed" /\ probing' = FALSE
      BY <2>2, SettledSlot DEF AdmitPrimary
    <3>2. \A d \in Call : ~call'[d].probe
      <4>1. new.probe = (Settled = "half_open")
        OBVIOUS
      <4>2. ~new.probe
        BY <2>2, <4>1
      <4>3. \A d \in Call : ~call[d].probe
        BY <3>1 DEF IInv, SlotInv
      <4> HIDE DEF new
      <4> QED
        BY <1>1, <4>2, <4>3
    <3>3. \A d \in Call : call'[d].probe => call'[d].pc = "primary"
      BY <3>2
    <3>4. ~probing' /\ state' # "half_open"
      BY <3>1
    <3> QED
      BY <3>2, <3>3, <3>4 DEF SlotInv
  <2> QED
    BY <2>1, <2>2 DEF AdmitPrimary
<1>7. DueInv'
  BY SettledSlot DEF DueInv, AdmitPrimary
<1>8. EpochInv'
  <2>1. \A d \in Call : call'[d].epoch <= epoch'
    BY <1>1 DEF IInv, TypeOK, EpochInv, AdmitPrimary
  <2>2. since' = {d \in InPrimary' : call'[d].epoch = epoch'}
    BY <1>1, <1>2, <1>3 DEF IInv, EpochInv, AdmitPrimary
  <2>3. since = InPrimary
    <3>1. CASE Settled = "half_open"
      BY <1>4, <3>1 DEF IInv, EpochInv
    <3>2. CASE Settled = "closed"
      BY <3>2, SettledSlot DEF IInv, EpochInv
    <3> QED
      BY <3>1, <3>2 DEF AdmitPrimary
  <2>4. since' = InPrimary' /\ state' # "open"
    BY <1>2, <2>3 DEF AdmitPrimary
  <2> QED
    BY <2>1, <2>2, <2>4 DEF EpochInv
<1>9. QuotaInv'
  BY SettledSlot DEF IInv, QuotaInv, AdmitPrimary
<1> QED
  BY <1>5, <1>6, <1>7, <1>8, <1>9 DEF IInv

LEMMA SteerKeeps ==
  ASSUME IInv, NEW c \in Call, Steer(c)
  PROVE  IInv'
<1> DEFINE new == [NoCall EXCEPT !.pc = "twin"]
<1>1. \A d \in Call : call'[d] = IF d = c THEN new ELSE call[d]
  BY DEF IInv, TypeOK, Steer
<1>2. new.pc = "twin" /\ new.probe = FALSE /\ new.epoch = 0
  BY DEF NoCall
<1>3. c \notin InPrimary
  BY DEF InPrimary, Steer
<1>4. InPrimary' = InPrimary /\ \A d \in InPrimary : call'[d] = call[d]
  BY <1>1, <1>2, <1>3 DEF InPrimary
<1>5. TypeOK'
  <2>1. call' \in [Call -> [pc : {"off", "primary", "twin"}, probe : BOOLEAN, epoch : Nat]]
    BY EndedCall DEF IInv, Steer
  <2> QED
    BY <2>1 DEF IInv, TypeOK, Steer, record
<1>6. SlotInv'
  BY <1>1, <1>2, <1>4 DEF IInv, SlotInv, Steer, record
<1>7. DueInv'
  BY <1>4 DEF IInv, DueInv, Steer, record
<1>8. EpochInv'
  BY <1>1, <1>2, <1>4 DEF IInv, TypeOK, EpochInv, Steer, record
<1>9. QuotaInv'
  BY DEF IInv, QuotaInv, Steer, record
<1> QED
  BY <1>5, <1>6, <1>7, <1>8, <1>9 DEF IInv

LEMMA LookKeeps ==
  ASSUME IInv, Look
  PROVE  IInv'
<1>1. /\ state = "open" /\ due /\ InPrimary = {} /\ ~probing
      /\ state' = "half_open" /\ probing' = FALSE
  BY SettledSlot DEF IInv, DueInv, SlotInv, Look, Settled
<1>2. InPrimary' = {}
  BY <1>1 DEF Look, InPrimary
<1>3. call' = call /\ since' = {} /\ since' = InPrimary'
  BY <1>1, <1>2 DEF IInv, EpochInv, Look
<1>4. TypeOK'
  BY <1>1 DEF IInv, TypeOK, Look
<1>5. SlotInv'
  BY <1>1, <1>2, <1>3 DEF IInv, SlotInv
<1>6. DueInv' /\ QuotaInv'
  BY <1>1, <1>2 DEF IInv, DueInv, QuotaInv, Look
<1>7. EpochInv'
  BY <1>1, <1>2, <1>3 DEF IInv, EpochInv, Look
<1> QED
  BY <1>4, <1>5, <1>6, <1>7 DEF IInv

LEMMA SucceedKeeps ==
  ASSUME IInv, NEW c \in Call, Succeed(c)
  PROVE  IInv'
<1>1. /\ call' \in [Call -> [pc : {"off", "primary", "twin"}, probe : BOOLEAN, epoch : Nat]]
      /\ InPrimary' = InPrimary \ {c}
      /\ \A d \in Call \ {c} : call'[d] = call[d]
      /\ call'[c].pc = "off" /\ ~call'[c].probe /\ call'[c].epoch = 0
  BY EndIsEnded, EndedCall DEF IInv, Succeed
<1>2. c \in InPrimary
  BY DEF InPrimary, Succeed
<1>3. TypeOK'
  BY <1>1 DEF IInv, TypeOK, Succeed
<1>4. EpochInv' /\ DueInv' /\ QuotaInv'
  <2>1. \A d \in Call : call'[d].epoch <= epoch'
    BY <1>1 DEF IInv, TypeOK, EpochInv, Succeed
  <2>2. since' = {d \in InPrimary' : call'[d].epoch = epoch'}
    BY <1>1 DEF IInv, EpochInv, Succeed, InPrimary
  <2>3. state' = "open" => state = "open"
    BY DEF Succeed
  <2>4. state' = "open" => since' = {}
    BY <2>3 DEF IInv, EpochInv, Succeed
  <2>5. DueInv'
    BY <1>1, <2>3 DEF IInv, DueInv, Succeed
  <2>6. QuotaInv'
    BY DEF IInv, QuotaInv, Succeed
  <2>7. state' # "open" => since' = InPrimary'
    <3>1. CASE call[c].epoch = epoch
      BY <1>1, <1>2, <3>1 DEF IInv, EpochInv, Succeed
    <3>2. CASE call[c].epoch # epoch
      BY <1>1, <3>2 DEF IInv, EpochInv, Succeed
    <3> QED
      BY <3>1, <3>2
  <2> QED
    BY <2>1, <2>2, <2>4, <2>5, <2>6, <2>7 DEF EpochInv
<1>5. SlotInv'
  <2>1. \A d \in Call : call'[d].probe => call'[d].pc = "primary"
    BY <1>1 DEF IInv, SlotInv
  <2>2. CASE call[c].epoch # epoch
    <3>1. state # "half_open"
      \* In half-open the call is the probe, admitted in this epoch.
      <4>1. SUFFICES ASSUME state = "half_open" PROVE FALSE
        OBVIOUS
      <4> QED
        BY <1>2, <2>2, <4>1 DEF IInv, SlotInv, EpochInv, InPrimary
    <3> QED
      BY <1>1, <2>1, <2>2, <3>1 DEF IInv, SlotInv, Succeed
  <2>3. CASE call[c].epoch = epoch
    <3>1. state' = "closed"
      BY <2>3 DEF Succeed
    <3>2. ~probing'
      BY <2>3 DEF IInv, SlotInv, Succeed
    <3>3. \A d \in Call : ~call'[d].probe
      BY <1>1, <1>2 DEF IInv, SlotInv, InPrimary
    <3> QED
      BY <2>1, <3>1, <3>2, <3>3 DEF SlotInv
  <2> QED
    BY <2>2, <2>3
<1> QED
  BY <1>3, <1>4, <1>5 DEF IInv

LEMMA NoEvidenceKeeps ==
  ASSUME IInv, NEW c \in Call, NoEvidence(c)
  PROVE  IInv'
<1>1. /\ call' \in [Call -> [pc : {"off", "primary", "twin"}, probe : BOOLEAN, epoch : Nat]]
      /\ InPrimary' = InPrimary \ {c}
      /\ \A d \in Call \ {c} : call'[d] = call[d]
      /\ call'[c].pc = "off" /\ ~call'[c].probe /\ call'[c].epoch = 0
  BY EndIsEnded, EndedCall DEF IInv, NoEvidence
<1>2. c \in InPrimary
  BY DEF InPrimary, NoEvidence
<1>3. TypeOK'
  BY <1>1 DEF IInv, TypeOK, NoEvidence
<1>4. SlotInv'
  <2>1. \A d \in Call : call'[d].probe => call'[d].pc = "primary"
    BY <1>1 DEF IInv, SlotInv
  <2>2. CASE state = "half_open"
    <3>1. InPrimary' = {} /\ call[c].probe
      BY <1>1, <1>2, <2>2 DEF IInv, SlotInv
    <3>2. probing' = FALSE /\ state' = "half_open"
      BY <2>2, <3>1 DEF NoEvidence
    <3> QED
      BY <2>1, <3>1, <3>2 DEF SlotInv
  <2>3. CASE state # "half_open"
    <3>1. probing' = FALSE /\ state' # "half_open"
      BY <2>3 DEF IInv, SlotInv, NoEvidence
    <3>2. \A d \in Call : ~call'[d].probe
      BY <1>1, <2>3 DEF IInv, SlotInv
    <3> QED
      BY <2>1, <3>1, <3>2 DEF SlotInv
  <2> QED
    BY <2>2, <2>3
<1>5. DueInv' /\ QuotaInv'
  BY <1>1 DEF IInv, DueInv, QuotaInv, NoEvidence
<1>6. EpochInv'
  <2>1. \A d \in Call : call'[d].epoch <= epoch'
    BY <1>1 DEF IInv, TypeOK, EpochInv, NoEvidence
  <2>2. since' = {d \in InPrimary' : call'[d].epoch = epoch'}
    BY <1>1 DEF IInv, EpochInv, NoEvidence, InPrimary
  <2>3. /\ state' = "open" => since' = {}
        /\ state' # "open" => since' = InPrimary'
    BY <1>1 DEF IInv, EpochInv, NoEvidence
  <2> QED
    BY <2>1, <2>2, <2>3 DEF EpochInv
<1> QED
  BY <1>3, <1>4, <1>5, <1>6 DEF IInv

\* A failure, opening the breaker or not.
LEMMA FailKeeps ==
  ASSUME IInv, NEW c \in Call, Fail(c)
  PROVE  IInv'
<1>1. PICK class \in Class :
        /\ quotaOut' = (class = "quota" \/ (quotaOut /\ ~call[c].probe))
        /\ IF Opens(class, call[c].probe)
           THEN Open(class, call[c].probe)
           ELSE /\ since' = since \ {c}
                /\ UNCHANGED <<state, probing, epoch, reason, due>>
        /\ \/ End(c)
           \/ /\ twin /\ Replayable(class)
              /\ call' = [call EXCEPT ![c] = [NoCall EXCEPT !.pc = "twin"]]
  BY DEF Fail
<1>2. PICK after \in {"off", "twin"} : call' = [call EXCEPT ![c] = [NoCall EXCEPT !.pc = after]]
  BY <1>1, EndIsEnded
<1>3. /\ call' \in [Call -> [pc : {"off", "primary", "twin"}, probe : BOOLEAN, epoch : Nat]]
      /\ InPrimary' = InPrimary \ {c}
      /\ \A d \in Call \ {c} : call'[d] = call[d]
      /\ call'[c].pc = after /\ ~call'[c].probe /\ call'[c].epoch = 0
  BY <1>2, EndedCall DEF IInv
<1>4. c \in InPrimary
  BY DEF InPrimary, Fail
<1>5. \A d \in Call : call'[d].probe => call'[d].pc = "primary"
  BY <1>3 DEF IInv, SlotInv
<1>6. \A d \in InPrimary' : d \in InPrimary /\ call'[d] = call[d]
  BY <1>3 DEF InPrimary
<1>7. CASE Opens(class, call[c].probe)
  <2>1. /\ epoch' = IF state = "open" THEN epoch ELSE epoch + 1
        /\ state' = "open" /\ due' = FALSE /\ probing' = FALSE
        /\ reason' = class /\ since' = {}
    BY <1>1, <1>7 DEF Open, Reason
  <2>2. TypeOK'
    <3>1. quotaOut' \in BOOLEAN
      BY <1>1
    <3>2. fails' \in Nat /\ failures' \in Nat /\ twin' \in BOOLEAN
      BY DEF IInv, TypeOK, Fail
    <3>3. epoch' \in Nat /\ reason' \in Class \cup {"none"}
      BY <2>1 DEF IInv, TypeOK
    <3> QED
      BY <1>3, <2>1, <3>1, <3>2, <3>3 DEF TypeOK
  <2>3. \A d \in Call : ~call'[d].probe
    <3>1. CASE state = "half_open"
      BY <1>3, <1>4, <1>5, <1>6, <3>1 DEF IInv, SlotInv, InPrimary
    <3>2. CASE state # "half_open"
      BY <1>3, <3>2 DEF IInv, SlotInv
    <3> QED
      BY <3>1, <3>2
  <2>4. SlotInv'
    BY <1>5, <2>1, <2>3 DEF SlotInv
  <2>5. DueInv'
    BY <2>1 DEF DueInv
  <2>6. EpochInv'
    <3>1. \A d \in Call : call'[d].epoch <= epoch'
      BY <1>3, <2>1 DEF IInv, TypeOK, EpochInv
    <3>2. \A d \in InPrimary' : call'[d].epoch # epoch'
      <4>1. CASE state = "open"
        BY <1>6, <2>1, <4>1 DEF IInv, EpochInv
      <4>2. CASE state # "open"
        BY <1>6, <2>1, <4>2 DEF IInv, TypeOK, EpochInv, InPrimary
      <4> QED
        BY <4>1, <4>2
    <3> QED
      BY <2>1, <3>1, <3>2 DEF EpochInv
  <2>7. QuotaInv'
    <3>1. CASE class = "quota"
      BY <2>1, <3>1 DEF QuotaInv
    <3>2. CASE class # "quota"
      \* Only a probe or a closed breaker opens for any other class.
      <4>1. quotaOut' = FALSE
        BY <1>1, <1>7, <3>2 DEF IInv, TypeOK, QuotaInv, Opens
      <4> QED
        BY <4>1 DEF QuotaInv
    <3> QED
      BY <3>1, <3>2
  <2> QED
    BY <2>2, <2>4, <2>5, <2>6, <2>7 DEF IInv
<1>8. CASE ~Opens(class, call[c].probe)
  <2>1. since' = since \ {c} /\ UNCHANGED <<state, probing, epoch, reason, due>>
    BY <1>1, <1>8
  <2>2. ~call[c].probe /\ class # "quota"
    BY <1>8 DEF Opens
  <2>3. TypeOK'
    BY <1>1, <1>3, <2>1 DEF IInv, TypeOK, Fail
  <2>4. state # "half_open"
    BY <1>4, <2>2 DEF IInv, SlotInv
  <2>5. SlotInv'
    BY <1>3, <1>5, <2>1, <2>4 DEF IInv, SlotInv
  <2>6. DueInv'
    BY <1>3, <2>1 DEF IInv, DueInv
  <2>7. EpochInv'
    <3>1. \A d \in Call : call'[d].epoch <= epoch'
      BY <1>3, <2>1 DEF IInv, TypeOK, EpochInv
    <3>2. since' = {d \in InPrimary' : call'[d].epoch = epoch'}
      BY <1>3, <2>1 DEF IInv, EpochInv, InPrimary
    <3>3. /\ state' = "open" => since' = {}
          /\ state' # "open" => since' = InPrimary'
      BY <1>3, <2>1 DEF IInv, EpochInv
    <3> QED
      BY <3>1, <3>2, <3>3 DEF EpochInv
  <2>8. QuotaInv'
    BY <1>1, <2>1, <2>2 DEF IInv, TypeOK, QuotaInv
  <2> QED
    BY <2>3, <2>5, <2>6, <2>7, <2>8 DEF IInv
<1> QED
  BY <1>7, <1>8

LEMMA ReplayedKeeps ==
  ASSUME IInv, NEW c \in Call, Replayed(c)
  PROVE  IInv'
<1>1. /\ call' \in [Call -> [pc : {"off", "primary", "twin"}, probe : BOOLEAN, epoch : Nat]]
      /\ InPrimary' = InPrimary \ {c}
      /\ \A d \in Call \ {c} : call'[d] = call[d]
      /\ call'[c].pc = "off" /\ ~call'[c].probe /\ call'[c].epoch = 0
  BY EndIsEnded, EndedCall DEF IInv, Replayed
<1>2. c \notin InPrimary
  BY DEF InPrimary, Replayed
<1>3. InPrimary' = InPrimary /\ \A d \in InPrimary : call'[d] = call[d]
  <2>1. InPrimary' = InPrimary
    BY <1>1, <1>2
  <2>2. \A d \in InPrimary : d \in Call \ {c}
    BY <1>2 DEF InPrimary
  <2> QED
    BY <1>1, <2>1, <2>2
<1>4. TypeOK'
  BY <1>1 DEF IInv, TypeOK, Replayed, record
<1>5. SlotInv'
  BY <1>1, <1>3 DEF IInv, SlotInv, Replayed, record
<1>6. DueInv' /\ QuotaInv'
  BY <1>3 DEF IInv, DueInv, QuotaInv, Replayed, record
<1>7. EpochInv'
  BY <1>1, <1>3 DEF IInv, TypeOK, EpochInv, Replayed, record
<1> QED
  BY <1>4, <1>5, <1>6, <1>7 DEF IInv

LEMMA ElapseKeeps ==
  ASSUME IInv, Elapse
  PROVE  IInv'
<1>1. InPrimary' = InPrimary
  BY DEF Elapse, InPrimary
<1>2. TypeOK' /\ QuotaInv' /\ DueInv'
  BY <1>1 DEF IInv, TypeOK, QuotaInv, DueInv, Elapse
<1>3. SlotInv' /\ EpochInv'
  BY <1>1 DEF IInv, SlotInv, EpochInv, Elapse
<1> QED
  BY <1>2, <1>3 DEF IInv

LEMMA NextKeeps ==
  ASSUME IInv, [Next]_vars
  PROVE  IInv'
<1>1. CASE UNCHANGED vars
  <2>1. InPrimary' = InPrimary
    BY <1>1 DEF vars, InPrimary
  <2> QED
    BY <1>1, <2>1 DEF vars, IInv, TypeOK, SlotInv, DueInv, EpochInv, QuotaInv
<1>2. CASE \E c \in Call : AdmitPrimary(c) \/ Steer(c) \/ Outcome(c) \/ Replayed(c)
  <2>1. PICK c \in Call : AdmitPrimary(c) \/ Steer(c) \/ Outcome(c) \/ Replayed(c)
    BY <1>2
  <2> QED
    BY <2>1, AdmitKeeps, SteerKeeps, SucceedKeeps, NoEvidenceKeeps, FailKeeps, ReplayedKeeps
       DEF Outcome
<1>3. CASE Look
  BY <1>3, LookKeeps
<1>4. CASE Elapse
  BY <1>4, ElapseKeeps
<1> QED
  BY <1>1, <1>2, <1>3, <1>4 DEF Next

-----------------------------------------------------------------------------
(* The theorems.                                                            *)

\* The inductive invariant holds: the registry's record and the calls in flight
\* agree at every step (provider_breaker.go:343-448).
THEOREM BreakerInvariant == Spec => []IInv
<1>1. Init => IInv
  BY InitIInv
<1>2. IInv /\ [Next]_vars => IInv'
  BY NextKeeps
<1> QED
  BY <1>1, <1>2, PTL DEF Spec

\* The record and the calls keep their types (provider_breaker.go:227-247).
THEOREM BreakerTypeCorrect == Spec => []TypeOK
<1>1. IInv => TypeOK
  BY DEF IInv
<1> QED
  BY <1>1, BreakerInvariant, PTL

\* Half-open lets one call at most through to the primary dial, however many
\* requests arrive (provider_breaker.go:365-387).
THEOREM AtMostOneProbe == Spec => []OneProbe
<1>1. IInv => OneProbe
  <2>1. SUFFICES ASSUME IInv, state = "half_open" PROVE Cardinality(InPrimary) <= 1
    BY DEF OneProbe
  <2>2. CASE InPrimary = {}
    BY <2>2, FS_EmptySet
  <2>3. CASE InPrimary # {}
    <3>1. PICK c : c \in InPrimary
      BY <2>3
    <3>2. InPrimary = {c}
      BY <2>1, <3>1 DEF IInv, SlotInv
    <3> QED
      BY <3>2, FS_Singleton
  <2> QED
    BY <2>2, <2>3
<1> QED
  BY <1>1, BreakerInvariant, PTL

\* The probe slot never outlives its call, nor the call its slot
\* (provider_breaker.go:418-424).
THEOREM SlotNeverLeaks == Spec => []SlotHeld
<1>1. IInv => SlotHeld
  <2>1. SUFFICES ASSUME IInv PROVE SlotHeld
    OBVIOUS
  <2>2. CASE state = "half_open"
    BY <2>1, <2>2 DEF IInv, SlotInv, SlotHeld
  <2>3. CASE state # "half_open"
    BY <2>1, <2>3 DEF IInv, SlotInv, SlotHeld, InPrimary
  <2> QED
    BY <2>2, <2>3
<1> QED
  BY <1>1, BreakerInvariant, PTL

\* Nothing but a success of a call admitted after the last opening closes the
\* breaker or takes failures off its count (provider_breaker.go:396-416).
THEOREM StaleSuccessNeverCloses == Spec => StaleSuccessIgnored
<1> DEFINE Honest ==
      (state # "closed" /\ state' = "closed") \/ failures' < failures
        => \E c \in since : call[c].pc = "primary" /\ call'[c].pc = "off"
<1>1. ASSUME IInv, [Next]_vars PROVE [Honest]_vars
  <2>1. SUFFICES ASSUME \/ state # "closed" /\ state' = "closed"
                        \/ failures' < failures,
                        Next
                 PROVE  \E c \in since : call[c].pc = "primary" /\ call'[c].pc = "off"
    BY <1>1
  <2>2. ~ Look /\ ~ Elapse
    BY <1>1, <2>1 DEF Look, Elapse, IInv, TypeOK, Settled
  <2>3. PICK c \in Call : AdmitPrimary(c) \/ Steer(c) \/ Outcome(c) \/ Replayed(c)
    BY <2>1, <2>2 DEF Next
  <2>4. ~ AdmitPrimary(c)
    BY <1>1, <2>1, SettledSlot DEF AdmitPrimary, IInv, TypeOK
  <2>5. ~ Steer(c) /\ ~ Replayed(c) /\ ~ NoEvidence(c)
    BY <1>1, <2>1 DEF Steer, Replayed, NoEvidence, record, IInv, TypeOK
  <2>6. ~ Fail(c)
    BY <1>1, <2>1 DEF Fail, Open, IInv, TypeOK
  <2>7. Succeed(c)
    BY <2>3, <2>4, <2>5, <2>6 DEF Outcome
  <2>8. call[c].epoch = epoch
    BY <1>1, <2>1, <2>7 DEF Succeed, IInv, TypeOK
  <2>9. c \in since /\ call[c].pc = "primary"
    BY <1>1, <2>7, <2>8 DEF Succeed, IInv, EpochInv, InPrimary
  <2>10. call'[c].pc = "off"
    BY <1>1, <2>7, EndIsEnded, EndedCall DEF Succeed, IInv
  <2> QED
    BY <2>9, <2>10
<1>2. IInv /\ [Next]_vars => [Honest]_vars
  BY <1>1
<1> QED
  BY <1>2, BreakerInvariant, PTL DEF Spec, StaleSuccessIgnored

\* While the latest evidence says the account is out of quota, no request
\* reaches the twin, in the order of any late outcomes
\* (provider_breaker.go:428-448, 646-651).
THEOREM QuotaNeverSteered == Spec => QuotaFailsFast
<1> DEFINE FailsFast ==
      \A c \in Call : call[c].pc = "off" /\ call'[c].pc = "twin" => ~quotaOut
<1>1. ASSUME IInv, [Next]_vars PROVE [FailsFast]_vars
  <2>1. SUFFICES ASSUME NEW c \in Call, call[c].pc = "off", call'[c].pc = "twin", Next
                 PROVE  ~quotaOut
    BY <1>1
  <2>2. ~ Look /\ ~ Elapse
    BY <2>1 DEF Look, Elapse
  <2>3. PICK d \in Call : AdmitPrimary(d) \/ Steer(d) \/ Outcome(d) \/ Replayed(d)
    BY <2>1, <2>2 DEF Next
  <2>4. CASE Steer(d)
    BY <1>1, <2>4 DEF Steer, IInv, QuotaInv, Replayable
  <2>5. CASE AdmitPrimary(d)
    BY <1>1, <2>1, <2>5 DEF AdmitPrimary, IInv, TypeOK
  <2>6. CASE Outcome(d) \/ Replayed(d)
    <3>1. d # c
      BY <2>1, <2>6 DEF Outcome, Succeed, NoEvidence, Fail, Replayed
    <3>2. PICK after \in {"off", "twin"} :
            call' = [call EXCEPT ![d] = [NoCall EXCEPT !.pc = after]]
      BY <2>6, EndIsEnded DEF Outcome, Succeed, NoEvidence, Fail, Replayed
    <3> QED
      BY <1>1, <2>1, <3>1, <3>2, EndedCall DEF IInv
  <2> QED
    BY <2>3, <2>4, <2>5, <2>6
<1>2. IInv /\ [Next]_vars => [FailsFast]_vars
  BY <1>1
<1> QED
  BY <1>2, BreakerInvariant, PTL DEF Spec, QuotaFailsFast
=============================================================================
