----------------------------- MODULE AnswerOnce -----------------------------
(***************************************************************************)
(* What the tool loop promises about one artifact, whatever calls, retries  *)
(* and crashes are behind it: an effect takes place at most once, the       *)
(* artifact is put to one final use, of effects that have taken place, and  *)
(* every caller who gets an answer gets that one.                           *)
(***************************************************************************)
EXTENDS Naturals

CONSTANTS
  Effect,     \* what may be done to the artifact
  FinalUse,   \* records whose ids list the effects a final use rests on
  NoUse       \* no final use yet

VARIABLES
  applied,    \* how often each effect took place
  final,      \* the final use the artifact was put to
  answers     \* the final uses callers were told of

vars == <<applied, final, answers>>

Init == applied = [e \in Effect |-> 0] /\ final = NoUse /\ answers = {}

TakePlace ==
  /\ \E e \in Effect : applied[e] = 0 /\ applied' = [applied EXCEPT ![e] = 1]
  /\ UNCHANGED <<final, answers>>

Settle ==
  /\ final = NoUse
  /\ final' \in FinalUse /\ final' # NoUse
  /\ \A i \in DOMAIN final'.ids : applied[final'.ids[i]] = 1
  /\ UNCHANGED <<applied, answers>>

Answer ==
  /\ final # NoUse
  /\ answers' = answers \cup {final}
  /\ UNCHANGED <<applied, final>>

Next == TakePlace \/ Settle \/ Answer

Spec == Init /\ [][Next]_vars
=============================================================================
