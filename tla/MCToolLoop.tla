----------------------------- MODULE MCToolLoop ------------------------------
(* Small instances of ToolLoop: carriers, requests, effects and texts are    *)
(* interchangeable.                                                          *)
EXTENDS ToolLoop, TLC

Symmetry == Permutations(Carrier) \cup Permutations(Request)
            \cup Permutations(Effect) \cup Permutations(Text)
=============================================================================
