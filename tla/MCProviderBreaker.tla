------------------------- MODULE MCProviderBreaker -------------------------
(***************************************************************************)
(* The TLC instance of ProviderBreaker.  No symmetry: liveness is checked.  *)
(***************************************************************************)
EXTENDS ProviderBreaker
=============================================================================
