--------------------------- MODULE MCToolJournal ----------------------------
(***************************************************************************)
(* The TLC instances of ToolJournal.                                        *)
(***************************************************************************)
EXTENDS ToolJournal
=============================================================================
