------------------------------- MODULE MCKits -------------------------------
(* Kits on small instances.                                                *)
EXTENDS Kits, TLC

\* Names alone and in arrays, up to one above the limit of two.
Inputs == {<<>>, <<"good">>, <<"blank">>, <<"bad">>, <<"good", "good">>, <<"good", "good", "good">>}

CONSTANTS r1, r2

\* The kits share nothing but the client: one request each of two of them.
OneOfEach == r1 :> {"bundleMgr", "ani"} @@ r2 :> {"bundle"}
=============================================================================
