----------------------------- MODULE MCSetServer -----------------------------
(* Instances of SetServer for TLC. *)
EXTENDS SetServer

CONSTANTS n1, n2, w1, w2

Put(n, v) == [op |-> "put", names |-> <<n>>, val |-> v, id |-> 0]
Op(o, ns, x) == [op |-> o, names |-> ns, val |-> <<>>, id |-> x]

\* Two names with a set each, every operation, queries that repeat and miss names.
MixedValue == {<<>>, <<2>>, <<1, 2>>}
MixedRequest ==
  {Put(n1, <<1, 2>>), Put(n2, <<2>>), Op("del", <<n1>>, 0),
   Op("has", <<n1>>, 1), Op("info", <<n1>>, 0), Op("list", <<>>, 0),
   Op("intersect", <<n1, n2, n1>>, 0), Op("union", <<n1, n2>>, 0),
   Op("intersect", <<n1>>, 0), Op("bad", <<>>, 0)}

\* Writes of one name by everyone, and a query of it.  The bodies differ in
\* length, so that one file may be a prefix of another's region.
WriteValue == {<<>>, <<2>>, <<1, 2, 3>>, <<1, 4, 5, 6>>}
WriteRequest ==
  {Put(n1, v) : v \in WriteValue} \cup {Op("del", <<n1>>, 0), Op("info", <<n1>>, 0)}
=============================================================================
