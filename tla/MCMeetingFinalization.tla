----------------------- MODULE MCMeetingFinalization -----------------------
(***************************************************************************)
(* TLC instances of MeetingFinalization.  Rows are interchangeable model   *)
(* values, so they form a symmetry set where only safety is checked.       *)
(***************************************************************************)
EXTENDS MeetingFinalization, TLC

RowSymmetry == Permutations(Row)
=============================================================================
