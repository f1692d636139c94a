-------------------------- MODULE MCDistributedBms --------------------------
(* DistributedBms on small instances: model values for every name.         *)
EXTENDS DistributedBms
=============================================================================
