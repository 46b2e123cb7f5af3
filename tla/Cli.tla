-------------------------------- MODULE Cli --------------------------------
(***************************************************************************)
(* The command line tool of cmd/setrixdb beside the server of SetServer.   *)
(* A process runs one command: build writes a .sxset file the server may   *)
(* load when it starts; info, has and intersect read files one after the   *)
(* other.  Nothing locks a file: os.ReadFile reads in several system calls *)
(* while the server truncates, writes or unlinks.  As with two writes by   *)
(* clients (Overlap = FALSE), a build and a write of the server to the     *)
(* same name do not overlap; reads overlap with anything.                  *)
(***************************************************************************)
EXTENDS SetServer

CONSTANTS
  Command,     \* what users may run: [op, names, ids]
  Invalid,     \* the ids of an input with a token that is no number
  Beside,      \* bound: which worker may serve which requests while a command runs
  Linked

ASSUME CliAssumption ==
  /\ ~Overlap /\ Beside \subseteq Worker \X Request
  /\ Linked \notin Seq(Nat) /\ Invalid \notin Seq(Nat)
  /\ \A c \in Command :
       /\ c.op \in {"build", "info", "has", "intersect"}
       /\ c.names \in Seq(Name) \ {<<>>}
       /\ c.op # "intersect" => Len(c.names) = 1
       /\ c.ids # Invalid => c.ids \in Seq(Nat)
       /\ IF c.op = "build" THEN c.ids # Invalid => Finalize(c.ids) \in Value
                           ELSE c.ids # Invalid

VARIABLES
  at, cmd,     \* the next step of the process and its command
  off,         \* build: the offset of its descriptor, in cells
  cells,       \* the cells the read in progress has got
  inode,       \* what it reads: Linked, or the cells of a file since unlinked
  operands,    \* the sets that were read: [ids, torn]
  torn,        \* history: the file was created anew since it was opened
  shown        \* what the command printed and how it exited

process == <<at, cmd, off, cells, inode, operands, torn, shown>>
cliVars == <<vars, process>>
server == <<up, sets, lock, pc, req, got, fd, out>>

Shown(ok, count, ids) == [ok |-> ok, count |-> count, ids |-> ids]
Failure == Shown(FALSE, 0, {})

NoProcess ==
  /\ at' = "none" /\ cmd' = None /\ off' = 0 /\ cells' = <<>>
  /\ inode' = Linked /\ operands' = <<>> /\ torn' = FALSE /\ shown' = None

CliInit ==
  /\ Init
  /\ at = "none" /\ cmd = None /\ off = 0 /\ cells = <<>>
  /\ inode = Linked /\ operands = <<>> /\ torn = FALSE /\ shown = None

\* No request writes the name a build writes.
Apart ==
  at # "none" =>
    /\ \A w \in Worker : pc[w] # "idle" => <<w, req[w]>> \in Beside
    /\ cmd.op = "build" => \A w \in Worker : ~Writing(w, cmd.names[1])

\* The file the process works on.
File == IF cmd.op = "build" THEN cmd.names[1] ELSE cmd.names[Len(operands) + 1]

-----------------------------------------------------------------------------
(* Commands *)

\* Too few arguments, or an input that does not parse: no file was touched.
Refused(c) ==
  \/ c.ids = Invalid
  \/ c.op = "has" /\ c.ids = <<>>
  \/ c.op = "intersect" /\ Len(c.names) < 2

Launch(c) ==
  /\ at = "none"
  /\ cmd' = c
  /\ at' = IF Refused(c) THEN "exited" ELSE IF c.op = "build" THEN "create" ELSE "open"
  /\ shown' = IF Refused(c) THEN Failure ELSE None
  /\ UNCHANGED <<vars, off, cells, inode, operands, torn>>

\* The process writes contents to its file: the server does not know.
Rewrite(contents) ==
  /\ files' = [files EXCEPT ![File] = contents]
  /\ adrift' = adrift \cup {File}
  /\ UNCHANGED <<server, cmd, cells, inode, operands, torn>>

\* writeSet: os.Create, with the ids already sorted and each of them once.
BuildCreate ==
  /\ at = "create"
  /\ at' = "write" /\ off' = 0
  /\ puts' = [puts EXCEPT ![File] = @ \cup {Finalize(cmd.ids)}]
  /\ Rewrite(<<>>)
  /\ UNCHANGED shown

\* One write system call; k cells arrive.
BuildWrites(k) ==
  /\ off' = off + k
  /\ Rewrite(WriteAt(files[File], off, SubSeq(Encode(Finalize(cmd.ids)), off + 1, off + k)))
  /\ UNCHANGED puts

Left == Len(Encode(Finalize(cmd.ids))) - off

\* What is left fills the buffer or not; at most n cells may stay behind.
WriteOut(n) ==
  /\ at = "write"
  /\ LET k == IF Left < ChunkCells THEN Left ELSE ChunkCells
     IN  BuildWrites(k) /\ at' = IF Left - k <= n THEN "open" ELSE "write"
  /\ UNCHANGED shown

\* A bug for the checks to find: a buffer that did not fill is never flushed.
BuildNoFlush == WriteOut(ChunkCells - 1)

BuildFlush == WriteOut(0)

BuildFails ==
  /\ IOErrors /\ at' = "exited" /\ shown' = Failure
  /\ \/ at = "create" /\ UNCHANGED <<vars, cmd, off, cells, inode, operands, torn>>
     \/ at = "write" /\ \E k \in 0..ChunkCells - 1 : k < Left /\ BuildWrites(k)

\* What a command prints: g holds the sets it read.  When a build cannot read its
\* file back, cmdBuild ignores the error and prints the length of a nil slice.
Printed(c, g) ==
  CASE c.op = "build" -> Shown(TRUE, IF g = <<>> THEN 0 ELSE Len(g[1]), {})
    [] c.op = "info" -> Shown(TRUE, Len(g[1]), {})
    [] c.op = "has" -> Shown(TRUE, 0, {x \in Elems(c.ids) : ContainsSorted(g[1], x)})
    [] c.op = "intersect" -> Shown(TRUE, Len(Intersect(g)), Elems(Intersect(g)))

\* readSet returned s, which is NoSet when it failed.
HaveRead(s) ==
  LET all == Append(operands, [ids |-> s, torn |-> torn])
      g   == [i \in DOMAIN all |-> all[i].ids]
  IN  /\ off' = 0 /\ cells' = <<>> /\ inode' = Linked /\ torn' = FALSE
      /\ IF s = NoSet
         THEN /\ shown' = IF cmd.op = "build" THEN Printed(cmd, <<>>) ELSE Failure
              /\ at' = "exited" /\ UNCHANGED operands
         ELSE /\ operands' = all
              /\ at' = IF Len(all) = Len(cmd.names) THEN "exited" ELSE "open"
              /\ shown' = IF Len(all) = Len(cmd.names) THEN Printed(cmd, g) ELSE None

Open ==
  /\ at = "open" /\ files[File] # NoFile
  /\ at' = "read"
  /\ UNCHANGED <<vars, cmd, off, cells, inode, operands, torn, shown>>

\* There is no such file, or a system call of os.ReadFile fails.
ReadFails ==
  /\ \/ at = "open" /\ files[File] = NoFile
     \/ at \in {"open", "read"} /\ IOErrors
  /\ HaveRead(NoSet)
  /\ UNCHANGED <<vars, cmd>>

Source == IF inode = Linked THEN files[File] ELSE inode

\* One read system call that returns something.
ReadSome ==
  /\ at = "read"
  /\ \E n \in Len(cells) + 1..Len(Source) :
       cells' = cells \o SubSeq(Source, Len(cells) + 1, n)
  /\ UNCHANGED <<vars, at, cmd, off, inode, operands, torn, shown>>

\* One that returns nothing: that was the file.
ReadEnds ==
  /\ at = "read" /\ Len(Source) <= Len(cells)
  /\ HaveRead(ReadFile(cells))
  /\ UNCHANGED <<vars, cmd>>

Exit == at = "exited" /\ NoProcess /\ UNCHANGED vars

\* The user interrupts the command.
Killed == Crashes /\ at # "none" /\ NoProcess /\ UNCHANGED vars

Process ==
  \/ \E c \in Command : Launch(c)
  \/ BuildCreate \/ BuildFlush \/ BuildFails
  \/ Open \/ ReadFails \/ ReadSome \/ ReadEnds
  \/ Exit \/ Killed

\* What a step of the server does to the file a command is reading.
Watched ==
  /\ LET reading == at = "read" /\ inode = Linked
         anew    == \E w \in Worker : pc[w] = "create" /\ pc'[w] = "write" /\ Target(w) = File
     IN  /\ inode' = IF reading /\ files'[File] = NoFile THEN files[File] ELSE inode
         /\ torn' = (torn \/ (reading /\ anew))
  /\ UNCHANGED <<at, cmd, off, cells, operands, shown>>

CliNext == (Process \/ (Next /\ Watched)) /\ Apart'

CliSpec == CliInit /\ [][CliNext]_cliVars

FairCliSpec == CliSpec /\ Fairness

-----------------------------------------------------------------------------
(* Properties *)

\* A command that reads files while the server writes, truncates, unlinks or dies
\* fails, or answers from sets that were written whole under those names: half a
\* file is never taken for a set.  Files that were created anew while they were
\* being read are the exception: old and new cells may then form a set nobody
\* wrote.  (persist.go:51-77, cmdInfo, cmdHas, cmdIntersect.)
QueriesReadWholeSets ==
  at = "exited" /\ shown.ok /\ cmd.op # "build" =>
    \/ \E i \in DOMAIN operands : operands[i].torn
    \/ \E f \in [DOMAIN cmd.names -> UNION {puts[n] : n \in Name}] :
         LET common == {x \in Elems(f[1]) : \A i \in DOMAIN f : x \in Elems(f[i])}
         IN  /\ \A i \in DOMAIN f : f[i] \in puts[cmd.names[i]]
             /\ shown = IF cmd.op = "has" THEN Shown(TRUE, 0, common \cap Elems(cmd.ids))
                        ELSE Shown(TRUE, Cardinality(common),
                                   IF cmd.op = "info" THEN {} ELSE common)

\* A build that exits with success has left exactly the set of its input in the
\* file, whatever the file held before and whatever the server, its kills and
\* restarts did meanwhile; it printed the size of that set, or 0 when it could not
\* read its file back, and never another size (cmdBuild, main.go:164-187).
BuildLeavesItsSet ==
  at = "exited" /\ shown.ok /\ cmd.op = "build" =>
    /\ ReadFile(files[File]) # NoSet /\ Elems(ReadFile(files[File])) = Elems(cmd.ids)
    /\ Len(files[File]) = Cardinality(Elems(cmd.ids)) + 1
    /\ shown.count = IF operands = <<>> THEN 0 ELSE Cardinality(Elems(cmd.ids))
=============================================================================
