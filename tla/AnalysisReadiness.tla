-------------------------- MODULE AnalysisReadiness --------------------------
(***************************************************************************)
(* What the close protocol promises to a reader: two places, the durable   *)
(* receipt and the archive file, may each claim that the analysis of the   *)
(* meeting is final.  A claim names the exact source it covers, it is only *)
(* ever made for the source that is there at that moment, and the source   *)
(* changes only while nobody claims anything.                              *)
(***************************************************************************)
CONSTANT Row

VARIABLES source,   \* the transcript rows a reader of memory sees
          claim     \* claim[w] = {} or {the source w claims to cover}

Place == {"receipt", "archive"}

Init == source = {} /\ claim = [w \in Place |-> {}]

Certify(w) == claim' = [claim EXCEPT ![w] = {source}] /\ UNCHANGED source

Withdraw(w) == claim' = [claim EXCEPT ![w] = {}] /\ UNCHANGED source

Change ==
  /\ \A w \in Place : claim[w] = {}
  /\ source' \in SUBSET Row
  /\ UNCHANGED claim

Next == Change \/ \E w \in Place : Certify(w) \/ Withdraw(w)

Spec == Init /\ [][Next]_<<source, claim>>
=============================================================================
