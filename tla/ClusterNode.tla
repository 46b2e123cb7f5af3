----------------------------- MODULE ClusterNode -----------------------------
(***************************************************************************)
(* The shard nodes of internal/cluster and the TCP connections clients     *)
(* hold to them.  A node keeps one slice per named set and answers the     *)
(* requests of each connection one at a time, in order; it keeps nothing   *)
(* when its process dies.  Requests that were written before the client    *)
(* closed a connection still reach the node, which serves them beside the  *)
(* requests of the client's next connection.                               *)
(*                                                                         *)
(* The direction client -> node is a queue of requests.  The direction     *)
(* node -> client is a queue of bytes, because a reply is read with two    *)
(* calls (header, then body) and two goroutines may read one connection.   *)
(***************************************************************************)
EXTENDS Integers, Sequences, FiniteSets

CONSTANTS
  Nodes,       \* how many nodes the cluster has
  Client,      \* the processes that use the cluster
  Name,        \* names of stored sets
  Words,       \* how many 64-bit words a global set has
  Bit,         \* the bits of a word
  Piece        \* how many bytes are lost at once

Node == 0..Nodes - 1
Word == SUBSET Bit
Global == [0..Words - 1 -> Word]         \* a set over the whole universe

ASSUME NodeAssumption ==
  /\ Nodes \in Nat \ {0} /\ Words \in Nat
  /\ IsFiniteSet(Bit) /\ Piece \in Nat \ {0}

VARIABLES
  alive,       \* per node: its process runs
  sets,        \* per node and name: the words stored, <<>> when there are none
  link,        \* per client and node: "closed", "open" or "broken"
  inbox,       \* per client and node: requests on their way to the node
  outbox,      \* per client and node: bytes on their way to the client
  late         \* per node: what closed connections still bring, [of, serial, queue]

nodeVars == <<alive, sets, link, inbox, outbox, late>>

NodeInit ==
  /\ alive = [n \in Node |-> TRUE]
  /\ sets = [n \in Node |-> [x \in Name |-> <<>>]]
  /\ link = [c \in Client |-> [n \in Node |-> "closed"]]
  /\ inbox = [c \in Client |-> [n \in Node |-> <<>>]]
  /\ outbox = [c \in Client |-> [n \in Node |-> <<>>]]
  /\ late = [n \in Node |-> {}]

\* The number of bits set in both slices, over the words both have.
AndCount(s, t) ==
  LET common == {i \in DOMAIN s : i \in DOMAIN t}
  IN  Cardinality({p \in common \X Bit : p[2] \in s[p[1]] /\ p[2] \in t[p[1]]})

\* A bug for the checks to find: the buffer of a message is one byte too long.
ReplyLong(count) == [i \in 1..13 |-> [at |-> i, count |-> count]]

\* A reply on the wire: four bytes of length, eight bytes of count.  A byte is
\* its place in the reply and the count that is sent.
Reply(count) == [i \in 1..12 |-> [at |-> i, count |-> count]]

\* The value of a byte: the length 8, big-endian, then the count, little-endian.
Byte(b) ==
  LET rest[k \in 0..7] == IF k = 0 THEN b.count ELSE rest[k - 1] \div 256
  IN  IF b.at < 4 THEN 0 ELSE IF b.at = 4 THEN 8 ELSE rest[b.at - 5] % 256

Count(n, r) ==
  CASE r.op = "load" -> 0
    [] r.op = "stored" -> AndCount(sets[n][r.name], sets[n][r.with])
    [] r.op = "query" -> AndCount(sets[n][r.name], r.words)

\* A bug for the checks to find: a stored set is not acknowledged.
HandleNoAck(c, n) ==
  LET r == Head(inbox[c][n])
  IN  /\ alive[n] /\ link[c][n] = "open" /\ inbox[c][n] # <<>>
      /\ inbox' = [inbox EXCEPT ![c][n] = Tail(@)]
      /\ sets' = IF r.op = "load" THEN [sets EXCEPT ![n][r.name] = r.words] ELSE sets
      /\ outbox' = [outbox EXCEPT ![c][n] =
                      IF r.op = "load" THEN @ ELSE @ \o Reply(Count(n, r))]
      /\ UNCHANGED <<alive, link, late>>

\* The goroutine of one connection takes its next request, reads or replaces
\* slices under the node's lock, and writes the reply.
Handle(c, n) ==
  LET r == Head(inbox[c][n])
  IN  /\ alive[n] /\ link[c][n] = "open" /\ inbox[c][n] # <<>>
      /\ inbox' = [inbox EXCEPT ![c][n] = Tail(@)]
      /\ sets' = IF r.op = "load" THEN [sets EXCEPT ![n][r.name] = r.words] ELSE sets
      /\ outbox' = [outbox EXCEPT ![c][n] = @ \o Reply(Count(n, r))]
      /\ UNCHANGED <<alive, link, late>>

\* What a client's goroutines find when it connects anew: n serves what the old
\* connection brought, unless it brought nothing.
Leftover(c, n, serial) ==
  IF inbox[c][n] = <<>> THEN {} ELSE {[of |-> c, serial |-> serial, queue |-> inbox[c][n]]}

\* The goroutine of a connection that the client has closed takes the next
\* request; nobody reads its reply.
HandleLate(n, old) ==
  LET r == Head(old.queue)
  IN  /\ old \in late[n] /\ old.queue # <<>>
      /\ late' = [late EXCEPT ![n] = (@ \ {old}) \cup {[old EXCEPT !.queue = Tail(@)]}]
      /\ sets' = IF r.op = "load" THEN [sets EXCEPT ![n][r.name] = r.words] ELSE sets
      /\ UNCHANGED <<alive, link, inbox, outbox>>

\* Its read, or the write of a reply, fails and ends it.
HangUp(n, old) ==
  /\ old \in late[n]
  /\ late' = [late EXCEPT ![n] = @ \ {old}]
  /\ UNCHANGED <<alive, sets, link, inbox, outbox>>

\* A node's process dies: its sets are gone and its connections broken.
Crash(n) ==
  /\ alive[n]
  /\ alive' = [alive EXCEPT ![n] = FALSE]
  /\ sets' = [sets EXCEPT ![n] = [x \in Name |-> <<>>]]
  /\ link' = [c \in Client |->
                [link[c] EXCEPT ![n] = IF @ = "open" THEN "broken" ELSE @]]
  /\ inbox' = [c \in Client |-> [inbox[c] EXCEPT ![n] = <<>>]]
  /\ late' = [late EXCEPT ![n] = {}]
  /\ UNCHANGED outbox

\* Bytes still under way on a broken connection may be lost, the last first.
Lose(c, n) ==
  /\ link[c][n] = "broken" /\ outbox[c][n] # <<>>
  /\ outbox' = [outbox EXCEPT ![c][n] =
                  SubSeq(@, 1, IF Len(@) > Piece THEN Len(@) - Piece ELSE 0)]
  /\ UNCHANGED <<alive, sets, link, inbox, late>>

\* A node is started again: Listen, with no sets.
Restart(n) ==
  /\ ~alive[n]
  /\ alive' = [alive EXCEPT ![n] = TRUE]
  /\ UNCHANGED <<sets, link, inbox, outbox, late>>

Bytes == [at : 1..12, count : Nat]

NodeTypeOK ==
  /\ alive \in [Node -> BOOLEAN]
  /\ sets \in [Node -> [Name -> Seq(Word)]]
  /\ link \in [Client -> [Node -> {"closed", "open", "broken"}]]
  /\ outbox \in [Client -> [Node -> Seq(Bytes)]]
  /\ DOMAIN inbox = Client /\ DOMAIN late = Node
=============================================================================
