--------------------------- MODULE MCRemoteLookup ---------------------------
(* RemoteLookup on small instances.                                        *)
EXTENDS RemoteLookup, TLC

Symmetry == Permutations(Thread)
=============================================================================
