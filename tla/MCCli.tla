-------------------------------- MODULE MCCli --------------------------------
(* A server with failing files, and a command line process beside it. *)
EXTENDS Cli

CONSTANTS n1, n2, w1, w2

Put(n, v) == [op |-> "put", names |-> <<n>>, val |-> v, id |-> 0]
Op(o, ns, x) == [op |-> o, names |-> ns, val |-> <<>>, id |-> x]
Run(o, ns, ids) == [op |-> o, names |-> ns, ids |-> ids]

\* Two sets that are written in two flushes each and whose mixture is a set, and
\* queries that end in a 404: every control path of a write, every lock conflict.
FaultRequest ==
  {Put(n1, <<1, 3>>), Put(n1, <<2, 4>>), Op("del", <<n1>>, 0),
   Op("intersect", <<n1, n2>>, 0)}
FaultValue == {<<>>, <<1, 3>>, <<2, 4>>}

\* Beside a command: a write of the other set over a first one, and its removal;
\* queries share nothing with a command.
FaultBeside == {w1} \X {Put(n1, <<2, 4>>), Op("del", <<n1>>, 0)}

\* An input that is neither sorted nor free of repetitions, one that does not
\* parse, a query without ids, and queries of what both the process and the server write.
FileCommand ==
  {Run("build", <<n1>>, <<4, 2, 4>>), Run("build", <<n1>>, Invalid),
   Run("info", <<n1>>, <<>>), Run("has", <<n1>>, <<3, 4>>), Run("has", <<n1>>, <<>>),
   Run("intersect", <<n1, n1>>, <<>>)}
=============================================================================
