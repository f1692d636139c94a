--------------------------- MODULE MCDataStorage ---------------------------
(* DataStorage on its own: threads, which are interchangeable, that make   *)
(* arbitrary calls.                                                        *)
EXTENDS DataStorage, TLC

ThreadSymmetry == Permutations(Thread)
=============================================================================
