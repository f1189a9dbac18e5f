------------------------- MODULE MCFinalizationQueue -------------------------
(* Small instances of FinalizationQueue: meetings of one kind, workers and   *)
(* timer slots are interchangeable.                                          *)
EXTENDS FinalizationQueue, TLC

Symmetry == Permutations(Historic) \cup Permutations(Meeting \ Historic)
            \cup Permutations(Worker) \cup Permutations(Timer)
=============================================================================
