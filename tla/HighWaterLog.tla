---------------------------- MODULE HighWaterLog ----------------------------
(***************************************************************************)
(* What the realtime tool journal promises, whatever happens underneath:    *)
(* one log that only grows, of which no acknowledged write is missing, and  *)
(* in which no reader ever sees a write whose caller was told it had not    *)
(* taken place.  ToolJournal implements it (HighWater there).               *)
(***************************************************************************)
EXTENDS Naturals, Sequences, Functions

CONSTANT Write   \* the writes there can be

VARIABLES
  log,       \* the writes the high-water store has fenced, in order
  acked,     \* the writes whose caller got success
  refused,   \* the writes whose caller was told they had no effect
  shown      \* the log as the latest reader saw it

vars == <<log, acked, refused, shown>>

Init == log = <<>> /\ acked = {} /\ refused = {} /\ shown = <<>>

Advance ==
  /\ \E id \in Write \ Range(log) : log' = Append(log, id)
  /\ UNCHANGED <<acked, refused, shown>>

Acknowledge ==
  /\ \E id \in Range(log) \ refused : acked' = acked \cup {id}
  /\ UNCHANGED <<log, refused, shown>>

Refuse ==
  /\ \E id \in Write \ (acked \cup Range(shown)) : refused' = refused \cup {id}
  /\ UNCHANGED <<log, acked, shown>>

Show ==
  /\ Range(log) \cap refused = {}
  /\ shown' = log
  /\ UNCHANGED <<log, acked, refused>>

Next == Advance \/ Acknowledge \/ Refuse \/ Show

Spec == Init /\ [][Next]_vars
=============================================================================
