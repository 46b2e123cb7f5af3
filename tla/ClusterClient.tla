---------------------------- MODULE ClusterClient ----------------------------
(***************************************************************************)
(* What the two clients of internal/cluster share: connections, the calls  *)
(* LoadSet, IntersectStored and IntersectQuery, and the goroutine that     *)
(* writes one message to one node and reads one reply.  Coordinator and    *)
(* ShardedCluster add how words are assigned to nodes, the order of a load *)
(* and how the replies of a gather are collected.                          *)
(*                                                                         *)
(* A client makes one call at a time.  A goroutine is a task; it belongs   *)
(* to the call that started it, and in ShardedCluster it can outlive it.   *)
(***************************************************************************)
EXTENDS ClusterNode

CONSTANTS
  Call,        \* the calls clients make: [op, name, with, set]
  Budget,      \* bounds: what each call of a client may be, and whether nodes die
  Misread,     \* the counts that eight bytes of two replies may decode to
  NoCall

\* The longest message: 1 << 30 bytes.
MaxMsg == 1024 * 1024 * 1024

\* The last bound says that every request is a message the nodes accept: an
\* operation, a name or two of at most 2^16 bytes, and words.
ASSUME ClientAssumption ==
  /\ Budget \subseteq [calls : [Client -> Seq(SUBSET Call)], deaths : BOOLEAN]
  /\ Misread \subseteq Nat
  /\ 8 * Words + 128 * 1024 <= MaxMsg
  /\ \A r \in Call : /\ r.op \in {"load", "stored", "query"}
                     /\ {r.name, r.with} \subseteq Name /\ r.set \in Global

VARIABLES
  pc,          \* "new", "idle", "loading", "gathering", "returned", "panicked"
  call,        \* the call in progress
  serial,      \* how many calls were begun
  todo,        \* LoadSet: the nodes whose slice was not yet acknowledged
  tasks,       \* goroutines: [node, serial, msg, at, len, got]
  results,     \* what the goroutines of the call in progress delivered
  out,         \* the value returned: [ok, count]
  budget,      \* the bounds of this behaviour
  value,       \* history: the versions of a name that a node may hold
  since,       \* history: those that came up since the load in progress began
  seen         \* history: the versions of each name asked for that a node may
               \* have held since the query in progress began

callVars == <<call, serial>>
historyVars == <<budget, value, since, seen>>
vars == <<nodeVars, pc, callVars, todo, tasks, results, out, historyVars>>

Empty == [i \in 0..Words - 1 |-> {}]
Nothing == [x \in Name |-> {}]

ClientInit ==
  /\ NodeInit
  /\ pc = [c \in Client |-> "new"]
  /\ call = [c \in Client |-> NoCall]
  /\ serial = [c \in Client |-> 0]
  /\ todo = [c \in Client |-> {}]
  /\ tasks = [c \in Client |-> {}]
  /\ results = [c \in Client |-> <<>>]
  /\ out = [c \in Client |-> NoCall]
  /\ budget \in Budget
  /\ value = [n \in Name |-> {Empty}]
  /\ since = [c \in Client |-> {}]
  /\ seen = [c \in Client |-> Nothing]

\* Connect to every node; a client that was connected closes what it had, and
\* the goroutines blocked on those connections end, but not those of the nodes.
Dial(c) ==
  /\ pc[c] \in {"new", "idle"}
  /\ \A n \in Node : alive[n]
  /\ link' = [link EXCEPT ![c] = [n \in Node |-> "open"]]
  /\ late' = [n \in Node |-> late[n] \cup Leftover(c, n, serial[c])]
  /\ inbox' = [inbox EXCEPT ![c] = [n \in Node |-> <<>>]]
  /\ outbox' = [outbox EXCEPT ![c] = [n \in Node |-> <<>>]]
  /\ tasks' = [tasks EXCEPT ![c] = {}]
  /\ pc' = [pc EXCEPT ![c] = "idle"]
  /\ UNCHANGED <<alive, sets, callVars, todo, results, out, historyVars>>

-----------------------------------------------------------------------------
(* The calls *)

\* set is history: the whole set the words of a load were cut from.
Message(r, words) ==
  [op |-> r.op, name |-> r.name, with |-> r.with, words |-> words, set |-> r.set]

\* A goroutine: what it sends, and what it got of the len bytes it reads.
Task(c, n, msg) ==
  [node |-> n, serial |-> serial'[c], msg |-> msg, at |-> "write", len |-> 0, got |-> <<>>]
Loading(c, x) == pc[c] = "loading" /\ call[c].name = x

\* What connections, also closed ones, still bring to a node.
Queues(n) == {inbox[c][n] : c \in Client} \cup {old.queue : old \in late[n]}

\* The versions of a name that requests on their way to a node carry: a load that
\* returned an error may have left one, and nothing calls it back.
Underway(x) ==
  {v \in value[x] : \E n \in Node : \E q \in Queues(n) : \E i \in DOMAIN q :
     q[i].op = "load" /\ q[i].name = x /\ q[i].set = v}

\* The names of the stored sets a query reads.
Operands(r) == {r.name} \cup (IF r.op = "stored" THEN {r.with} ELSE {})

\* The answers to a query when each node answers from one of the given versions of
\* a name; home is the node of each word.
Counts(r, home, versions) ==
  LET others == IF r.op = "stored" THEN versions[r.with] ELSE {r.set}
  IN  {Cardinality({p \in (0..Words - 1) \X Bit :
                      /\ p[2] \in f[home[p[1]]][p[1]]
                      /\ p[2] \in g[home[p[1]]][p[1]]}) :
         f \in [Node -> versions[r.name]], g \in [Node -> others]}

Begin(c, r, l) ==
  /\ pc[c] = "idle" /\ serial[c] < Len(budget.calls[c])
  /\ r \in budget.calls[c][serial[c] + 1]
  /\ pc' = [pc EXCEPT ![c] = l]
  /\ call' = [call EXCEPT ![c] = r]
  /\ serial' = [serial EXCEPT ![c] = @ + 1]
  /\ results' = [results EXCEPT ![c] = <<>>]
  /\ UNCHANGED <<nodeVars, out>>

BeginLoad(c, r) ==
  /\ r.op = "load"
  /\ Begin(c, r, "loading")
  /\ todo' = [todo EXCEPT ![c] = Node]
  /\ value' = [value EXCEPT ![r.name] = @ \cup {r.set}]
  /\ since' = [d \in Client |->
       IF d = c THEN {r.set} \cup Underway(r.name) \cup
                     {call[e].set : e \in {e \in Client : Loading(e, r.name)}}
       ELSE IF Loading(d, r.name) THEN since[d] \cup {r.set} ELSE since[d]]
  /\ seen' = [d \in Client |->
       IF pc[d] = "gathering" /\ seen[d][r.name] # {}
       THEN [seen[d] EXCEPT ![r.name] = @ \cup {r.set}] ELSE seen[d]]
  /\ UNCHANGED <<tasks, budget>>

\* gather starts a goroutine per node; slices[n] is node n's part of r.set, which
\* only an ad-hoc query sends.
BeginGather(c, r, slices) ==
  /\ r.op \in {"stored", "query"}
  /\ Begin(c, r, "gathering")
  /\ tasks' = [tasks EXCEPT ![c] = @ \cup
                 {Task(c, n, Message(r, IF r.op = "query" THEN slices[n] ELSE <<>>)) :
                    n \in Node}]
  /\ seen' = [seen EXCEPT ![c] =
                IF \E n \in Node : link[c][n] = "broken" THEN Nothing
                ELSE [x \in Name |-> IF x \in Operands(r) THEN value[x] ELSE {}]]
  /\ UNCHANGED <<todo, budget, value, since>>

\* One round of LoadSet: the slice of node n is written.
LoadNext(c, n, slice) ==
  /\ pc[c] = "loading" /\ n \in todo[c] /\ results[c] = <<>>
  /\ \A t \in tasks[c] : t.serial # serial[c]
  /\ serial' = serial
  /\ tasks' = [tasks EXCEPT ![c] = @ \cup
                 {Task(c, n, Message(call[c], slice))}]
  /\ UNCHANGED <<nodeVars, pc, call, todo, results, out, historyVars>>

Return(c, ok, count) ==
  /\ pc' = [pc EXCEPT ![c] = "returned"]
  /\ out' = [out EXCEPT ![c] = [ok |-> ok, count |-> count]]

\* What a gather makes of its results: an error, or the sum of the counts.
Failed(rs) == \E i \in DOMAIN rs : ~rs[i].ok
Total(rs) ==
  LET sum[i \in 0..Len(rs)] == IF i = 0 THEN 0 ELSE sum[i - 1] + rs[i].count
  IN  sum[Len(rs)]

\* The reply to a round of LoadSet: an error ends the load where it stands.
LoadAck(c) ==
  /\ pc[c] = "loading" /\ results[c] # <<>>
  /\ LET r == Head(results[c]) IN
       /\ todo' = [todo EXCEPT ![c] = @ \ {r.node}]
       /\ results' = [results EXCEPT ![c] = <<>>]
       /\ \/ ~r.ok /\ Return(c, FALSE, 0) /\ UNCHANGED value
          \/ /\ r.ok /\ todo[c] = {r.node}
             /\ Return(c, TRUE, 0)
             /\ value' = [value EXCEPT ![call[c].name] = since[c]]
          \/ r.ok /\ todo[c] # {r.node} /\ UNCHANGED <<pc, out, value>>
  /\ UNCHANGED <<nodeVars, callVars, tasks, budget, since, seen>>

\* The caller takes the result and may go on.
Taken(c) ==
  /\ pc[c] = "returned"
  /\ pc' = [pc EXCEPT ![c] = "idle"]
  /\ call' = [call EXCEPT ![c] = NoCall]
  /\ todo' = [todo EXCEPT ![c] = {}]
  /\ results' = [results EXCEPT ![c] = <<>>]
  /\ out' = [out EXCEPT ![c] = NoCall]
  /\ seen' = [seen EXCEPT ![c] = Nothing]
  /\ since' = [since EXCEPT ![c] = {}]
  /\ UNCHANGED <<nodeVars, serial, tasks, budget, value>>

-----------------------------------------------------------------------------
(* The goroutine of a task *)

Advance(c, t, at, len, got) ==
  /\ tasks' = [tasks EXCEPT ![c] =
                 (@ \ {t}) \cup {[t EXCEPT !.at = at, !.len = len, !.got = got]}]
  /\ UNCHANGED results

\* The goroutine ends; nobody reads the results of a call that returned.
Deliver(c, t, ok, count) ==
  /\ tasks' = [tasks EXCEPT ![c] = @ \ {t}]
  /\ results' =
       IF t.serial = serial[c] /\ pc[c] \in {"loading", "gathering"}
       THEN [results EXCEPT ![c] = Append(@, [node |-> t.node, ok |-> ok, count |-> count])]
       ELSE results

\* Write: on a broken connection it fails, or the kernel takes the bytes.
Write(c, t) ==
  /\ t \in tasks[c] /\ t.at = "write"
  /\ \/ /\ link[c][t.node] = "open"
        /\ inbox' = [inbox EXCEPT ![c][t.node] = Append(@, t.msg)]
        /\ Advance(c, t, "header", 4, <<>>)
     \/ /\ link[c][t.node] = "broken"
        /\ Advance(c, t, "header", 4, <<>>) \/ Deliver(c, t, FALSE, 0)
        /\ UNCHANGED inbox
  /\ UNCHANGED <<alive, sets, link, outbox, late, pc, callVars, todo, out, historyVars>>

\* The end of a call's task with the body it read: LoadSet ignores it, a gather
\* decodes a count.  From fewer than eight bytes that panics, which ends the
\* client's process and all its goroutines; eight bytes that are not the body of
\* one reply decode to some other count.
Finish(c, t, body) ==
  \/ t.msg.op = "load" /\ Deliver(c, t, TRUE, 0) /\ UNCHANGED pc
  \/ /\ t.msg.op # "load" /\ Len(body) < 8
     /\ pc' = [pc EXCEPT ![c] = "panicked"]
     /\ tasks' = [tasks EXCEPT ![c] = {}] /\ UNCHANGED results
  \/ /\ t.msg.op # "load" /\ Len(body) >= 8
     /\ LET first == SubSeq(body, 1, 8)
        IN  \E n \in IF first = SubSeq(Reply(first[1].count), 5, 12)
                     THEN {first[1].count} ELSE Misread :
              Deliver(c, t, TRUE, n)
     /\ UNCHANGED pc

\* A Read returns what has arrived, up to what is missing.
Missing(t) == t.len - Len(t.got)
Arrived(c, t) ==
  LET all == outbox[c][t.node]
  IN  IF Len(all) < Missing(t) THEN all ELSE SubSeq(all, 1, Missing(t))

Read(c, t) ==
  /\ t \in tasks[c] /\ t.at \in {"header", "body"}
  /\ outbox' = [outbox EXCEPT ![c][t.node] = SubSeq(@, Len(Arrived(c, t)) + 1, Len(@))]
  /\ UNCHANGED <<alive, sets, link, inbox, late, callVars, todo, out, historyVars>>

\* The header, or the body, has not arrived whole: io.ReadFull reads on.
ReadPart(c, t) ==
  /\ Arrived(c, t) # <<>> /\ Len(Arrived(c, t)) < Missing(t)
  /\ Read(c, t)
  /\ Advance(c, t, t.at, t.len, t.got \o Arrived(c, t))
  /\ UNCHANGED pc

\* The length of the message whose header these four bytes are: big-endian.
Length(h) == ((Byte(h[1]) * 256 + Byte(h[2])) * 256 + Byte(h[3])) * 256 + Byte(h[4])

\* A message that is too long is refused; the connection stays as it is.
ReadHeader(c, t) ==
  LET length == Length(t.got \o Arrived(c, t))
  IN  /\ t.at = "header" /\ Len(Arrived(c, t)) = Missing(t) /\ Read(c, t)
      /\ \/ length > MaxMsg /\ Deliver(c, t, FALSE, 0) /\ UNCHANGED pc
         \/ length = 0 /\ Finish(c, t, <<>>)
         \/ length \in 1..MaxMsg /\ Advance(c, t, "body", length, <<>>) /\ UNCHANGED pc

ReadBody(c, t) ==
  /\ t.at = "body" /\ Len(Arrived(c, t)) = Missing(t) /\ Read(c, t)
  /\ Finish(c, t, t.got \o Arrived(c, t))

\* The connection ends before the header or the body is complete.
ReadFails(c, t) ==
  /\ link[c][t.node] = "broken" /\ Arrived(c, t) = <<>> /\ Missing(t) > 0
  /\ Read(c, t)
  /\ Deliver(c, t, FALSE, 0) /\ UNCHANGED pc

Run(c) ==
  \E t \in tasks[c] :
    Write(c, t) \/ ReadPart(c, t) \/ ReadHeader(c, t) \/ ReadBody(c, t) \/ ReadFails(c, t)

-----------------------------------------------------------------------------
(* The nodes, as the client's module sees them *)

Serve(c, n) ==
  /\ Handle(c, n)
  /\ UNCHANGED <<pc, callVars, todo, tasks, results, out, historyVars>>

\* A node serves, or gives up, a connection that its client has closed.
ServeLate(n) ==
  /\ \E old \in late[n] : HandleLate(n, old) \/ HangUp(n, old)
  /\ UNCHANGED <<pc, callVars, todo, tasks, results, out, historyVars>>

NodeDies(n) ==
  /\ budget.deaths /\ Crash(n)
  /\ value' = [x \in Name |-> value[x] \cup {Empty}]
  /\ since' = [c \in Client |-> IF pc[c] = "loading" THEN since[c] \cup {Empty} ELSE {}]
  /\ UNCHANGED <<pc, callVars, todo, tasks, results, out, budget, seen>>

Network ==
  /\ \/ \E c \in Client, n \in Node : Lose(c, n)
     \/ \E n \in Node : Restart(n)
  /\ UNCHANGED <<pc, callVars, todo, tasks, results, out, historyVars>>

-----------------------------------------------------------------------------
(* Types *)

Labels == {"new", "idle", "loading", "gathering", "returned", "panicked"}

\* Types of the nodes' state, the calls and the goroutines.
TypeOK ==
  /\ NodeTypeOK
  /\ pc \in [Client -> Labels] /\ \A c \in Client : serial[c] \in 0..Len(budget.calls[c])
  /\ call \in [Client -> Call \cup {NoCall}]
  /\ todo \in [Client -> SUBSET Node]
  /\ \A c \in Client : \A t \in tasks[c] :
       t.node \in Node /\ t.serial \in 1..serial[c] /\ t.len \in 0..MaxMsg /\ Len(t.got) <= t.len
  /\ DOMAIN value = Name /\ \A x \in Name : value[x] # {} /\ value[x] \subseteq Global
=============================================================================
