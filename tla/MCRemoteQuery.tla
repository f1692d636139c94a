--------------------------- MODULE MCRemoteQuery ----------------------------
(* RemoteQuery on small instances.                                         *)
EXTENDS RemoteQuery

CONSTANTS d1, a1, a2, u1, u2

N(d, a) == [device |-> d, ability |-> a]
Q(op, names) == [op |-> op, names |-> names, record |-> TRUE]

\* Every operation, with names that are complete and names that
\* are not, batches up to one name above the limit of two, and requests that
\* come without a record.
Queries ==
    {Q("infos", s) : s \in {<<>>, <<N(d1, a1), N(d1, a2)>>, <<N(d1, a1), N(d1, Nothing)>>,
                            <<N(d1, a1), N(d1, a1), N(d1, a1)>>}}
      \cup {Q("info", <<N(d1, a1)>>), Q("version", <<N(d1, a1)>>), Q("version", <<N(Nothing, a1)>>),
            Q("bundleName", <<N(d1, a1)>>)}
      \cup {[q EXCEPT !.record = FALSE] :
               q \in {Q("infos", <<N(d1, a1)>>), Q("version", <<N(d1, a1)>>)}}

\* A question about stored information.
StoredInfo == {Q("bundleInfo", <<N(d1, a1)>>)}

TrustsFirst == Device \X {u1}
=============================================================================
