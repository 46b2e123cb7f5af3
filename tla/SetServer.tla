------------------------------ MODULE SetServer ------------------------------
(***************************************************************************)
(* The HTTP server of cmd/setrixdb-server: one goroutine per request over  *)
(* a map guarded by a sync.RWMutex, and one .sxset file per name written   *)
(* and removed outside the lock.  A worker is a request in service; each   *)
(* of its steps is a lock operation, one access to the map, or one system  *)
(* call on the file.                                                       *)
(*                                                                         *)
(* The bodies of PUT requests are strictly increasing here, so that the    *)
(* lazy finalization of a published set changes nothing; LazySet models    *)
(* finalization itself.                                                    *)
(***************************************************************************)
EXTENDS SetOps, SxsetFile

CONSTANTS
  Name,        \* names of sets, none of them containing a path separator
  Value,       \* what may be in a file, the bodies of PUT requests among them:
               \* strictly increasing sequences
  Request,     \* what clients may send: [op, names, val, id]
  Worker,      \* the requests that may be in service at once
  ChunkCells,  \* cells in one flush of the 4096-byte buffer of bufio.Writer
  Persistent,  \* the server was started with -data
  Overlap,     \* clients may have two writes of one name in service at once
  IOErrors,    \* create, write and remove may fail
  Crashes,     \* the process may be killed
  NoFile, NoReq, NoReply, None

Ops == {"put", "del", "has", "info", "list", "intersect", "union", "bad"}
WriteOps == {"put", "del"}
QueryOps == {"intersect", "union"}

\* The ids a set may hold: those of the bodies, and 0, which is what a hole in a
\* file reads as.
Ids == {0} \cup UNION {Elems(v) : v \in Value}

ASSUME ServerAssumption ==
  /\ Value \subseteq Seq(Nat)
  /\ \A v \in Value : StrictlyIncreasing(v)
  /\ NoSet \notin Seq(Nat) /\ NoFile \notin Seq(Nat)
  /\ \A ids \in SUBSET Ids : NoSet # ids
  /\ NoReq \notin Request /\ None \notin Worker
  /\ ChunkCells \in Nat \ {0}
  /\ {Persistent, Overlap, IOErrors, Crashes} \subseteq BOOLEAN
  /\ \A r \in Request :
       /\ r.op \in Ops /\ r.names \in Seq(Name) /\ r.val \in Value /\ r.id \in Nat
       /\ r.op \in WriteOps \cup {"has", "info"} => Len(r.names) = 1

VARIABLES
  up,          \* the process runs and accepts connections
  sets,        \* store.sets: the ids each name holds, or NoSet
  writer,      \* the worker that holds store.mu for writing, or None
  readers,     \* the workers that hold store.mu for reading
  files,       \* the cells of <name>.sxset, or NoFile
  pc, req,     \* per worker: the next step and the request
  got,         \* per worker: what it copied from the map under the lock
  fd,          \* per worker: offset of its descriptor; is the file still linked
  out,         \* per worker: the reply it has sent
  puts,        \* history: the values each name was ever PUT
  adrift       \* history: names whose file a failed call left behind the map

vars == <<up, sets, writer, readers, files, pc, req, got, fd, out, puts, adrift>>
disk == <<files, fd>>
lock == <<writer, readers>>

NoFd == [off |-> 0, linked |-> FALSE]
Target(w) == req[w].names[1]          \* the name a write is about

Init ==
  /\ up = FALSE
  /\ sets = [n \in Name |-> NoSet]
  /\ writer = None /\ readers = {}
  /\ files = [n \in Name |-> NoFile]
  /\ pc = [w \in Worker |-> "idle"]
  /\ req = [w \in Worker |-> NoReq]
  /\ got = [w \in Worker |-> <<>>]
  /\ fd = [w \in Worker |-> NoFd]
  /\ out = [w \in Worker |-> NoReply]
  /\ puts = [n \in Name |-> {}]
  /\ adrift = {}

Goto(w, l) == pc' = [pc EXCEPT ![w] = l]

\* A write of name n is in service.
Writing(w, n) == pc[w] # "idle" /\ req[w].op \in WriteOps /\ Target(w) = n

\* A request arrives and gets a goroutine.
Receive(w, r) ==
  /\ up /\ pc[w] = "idle"
  /\ ~Overlap /\ r.op \in WriteOps => \A x \in Worker : ~Writing(x, r.names[1])
  /\ req' = [req EXCEPT ![w] = r]
  /\ Goto(w, "received")
  /\ UNCHANGED <<up, sets, lock, got, disk, out, puts, adrift>>

\* Token, body and argument checks that answer before the map is touched.
Malformed(r) == r.op = "bad" \/ (r.op \in QueryOps /\ Len(r.names) < 2)

Refuse(w) ==
  /\ pc[w] = "received" /\ Malformed(req[w])
  /\ Goto(w, "answer")
  /\ UNCHANGED <<up, sets, lock, req, got, disk, out, puts, adrift>>

\* PUT: Lock; sets[name] = set.
PutStore(w) ==
  /\ pc[w] = "received" /\ req[w].op = "put"
  /\ writer = None /\ readers = {}
  /\ writer' = w
  /\ sets' = [sets EXCEPT ![Target(w)] = req[w].val]
  /\ got' = [got EXCEPT ![w] = <<req[w].val>>]
  /\ puts' = [puts EXCEPT ![Target(w)] = @ \cup {req[w].val}]
  /\ Goto(w, "unlock")
  /\ UNCHANGED <<up, readers, req, disk, out, adrift>>

\* DELETE: Lock; _, ok := sets[name]; delete(sets, name).
DelStore(w) ==
  /\ pc[w] = "received" /\ req[w].op = "del"
  /\ writer = None /\ readers = {}
  /\ writer' = w
  /\ got' = [got EXCEPT ![w] = <<sets[Target(w)]>>]
  /\ sets' = [sets EXCEPT ![Target(w)] = NoSet]
  /\ Goto(w, "unlock")
  /\ UNCHANGED <<up, readers, req, disk, out, puts, adrift>>

\* A bug for the checks to find: the loop runs without holding the lock.
ReadLockDropped(w) ==
  /\ pc[w] = "received" /\ ~Malformed(req[w]) /\ req[w].op \notin WriteOps
  /\ writer = None
  /\ Goto(w, "read")
  /\ UNCHANGED <<up, sets, lock, req, got, disk, out, puts, adrift>>

\* GET and POST: RLock.
ReadLock(w) ==
  /\ pc[w] = "received" /\ ~Malformed(req[w]) /\ req[w].op \notin WriteOps
  /\ writer = None
  /\ readers' = readers \cup {w}
  /\ Goto(w, "read")
  /\ UNCHANGED <<up, sets, writer, req, got, disk, out, puts, adrift>>

\* One lookup in the map under RLock.  A missing name ends the loop.
ReadNext(w) ==
  LET n == req[w].names[Len(got[w]) + 1]
  IN  /\ pc[w] = "read" /\ req[w].op # "list"
      /\ got' = [got EXCEPT ![w] = Append(@, sets[n])]
      /\ Goto(w, IF sets[n] = NoSet \/ Len(got[w]) + 1 = Len(req[w].names)
                 THEN "unlock" ELSE "read")
      /\ UNCHANGED <<up, sets, lock, req, disk, out, puts, adrift>>

\* GET /sets: the names in the map, in the order of an iteration over it.
Listing(S) == CHOOSE s \in [1..Cardinality(S) -> S] : Elems(s) = S

ReadNames(w) ==
  /\ pc[w] = "read" /\ req[w].op = "list"
  /\ got' = [got EXCEPT ![w] =
               Listing({n \in Name : sets[n] # NoSet})]
  /\ Goto(w, "unlock")
  /\ UNCHANGED <<up, sets, lock, req, disk, out, puts, adrift>>

\* Where a handler goes after Unlock or RUnlock.  The first definition is a bug
\* for the checks to find: DELETE leaves the file.
AfterUnlockNoForget(w) ==
  IF Persistent /\ req[w].op = "put" THEN "create" ELSE "answer"

AfterUnlock(w) ==
  IF Persistent /\ req[w].op = "put" THEN "create"
  ELSE IF Persistent /\ req[w].op = "del" /\ got[w] # <<NoSet>> THEN "remove"
  ELSE "answer"

\* A bug for the checks to find: the early return of a query that misses a name
\* keeps the read lock.
UnlockNotOn404(w) ==
  /\ pc[w] = "unlock"
  /\ writer' = IF writer = w THEN None ELSE writer
  /\ readers' = IF req[w].op \in QueryOps /\ NoSet \in Elems(got[w])
                THEN readers ELSE readers \ {w}
  /\ Goto(w, AfterUnlock(w))
  /\ UNCHANGED <<up, sets, req, got, disk, out, puts, adrift>>

\* Unlock or RUnlock.
Unlock(w) ==
  /\ pc[w] = "unlock"
  /\ writer' = IF writer = w THEN None ELSE writer
  /\ readers' = readers \ {w}
  /\ Goto(w, AfterUnlock(w))
  /\ UNCHANGED <<up, sets, req, got, disk, out, puts, adrift>>

\* A bug for the checks to find: the old contents are not truncated.
CreateNoTruncate(w) ==
  /\ pc[w] = "create"
  /\ files' = [files EXCEPT ![Target(w)] = IF @ = NoFile THEN <<>> ELSE @]
  /\ fd' = [fd EXCEPT ![w] = [off |-> 0, linked |-> TRUE]]
  /\ Goto(w, "write")
  /\ UNCHANGED <<up, sets, lock, req, got, out, puts, adrift>>

\* os.Create: the file exists and is empty; descriptors already open on the
\* same name keep their offsets.
Create(w) ==
  /\ pc[w] = "create"
  /\ files' = [files EXCEPT ![Target(w)] = <<>>]
  /\ fd' = [fd EXCEPT ![w] = [off |-> 0, linked |-> TRUE]]
  /\ Goto(w, "write")
  /\ UNCHANGED <<up, sets, lock, req, got, out, puts, adrift>>

Rest(w) == SubSeq(Encode(req[w].val), fd[w].off + 1, Len(Encode(req[w].val)))

\* A bug for the checks to find: the offset moves the wrong way.
TransferBackwards(w, k) ==
  /\ files' = IF fd[w].linked
              THEN [files EXCEPT ![Target(w)] =
                      WriteAt(@, fd[w].off, SubSeq(Rest(w), 1, k))]
              ELSE files
  /\ fd' = [fd EXCEPT ![w].off = @ - k]

\* One write system call of bufio.Writer that transfers k cells.  A file that
\* was unlinked meanwhile takes the bytes out of sight.
Transfer(w, k) ==
  /\ files' = IF fd[w].linked
              THEN [files EXCEPT ![Target(w)] =
                      WriteAt(@, fd[w].off, SubSeq(Rest(w), 1, k))]
              ELSE files
  /\ fd' = [fd EXCEPT ![w].off = @ + k]

Flush(w) ==
  LET k == IF Len(Rest(w)) < ChunkCells THEN Len(Rest(w)) ELSE ChunkCells
  IN  /\ pc[w] = "write"
      /\ Transfer(w, k)
      /\ Goto(w, IF k = Len(Rest(w)) THEN "answer" ELSE "write")
      /\ adrift' = IF k = Len(Rest(w)) THEN adrift \ {Target(w)} ELSE adrift
      /\ UNCHANGED <<up, sets, lock, req, got, out, puts>>

\* os.Create fails, or a write transfers part of its cells and fails: persist
\* logs the error and the handler goes on to its reply.
CreateFails(w) ==
  /\ IOErrors /\ pc[w] = "create"
  /\ Goto(w, "answer")
  /\ adrift' = adrift \cup {Target(w)}
  /\ UNCHANGED <<up, sets, lock, req, got, disk, out, puts>>

FlushFails(w) ==
  /\ IOErrors /\ pc[w] = "write"
  /\ \E k \in 0..ChunkCells - 1 : k < Len(Rest(w)) /\ Transfer(w, k)
  /\ Goto(w, "answer")
  /\ adrift' = adrift \cup {Target(w)}
  /\ UNCHANGED <<up, sets, lock, req, got, out, puts>>

\* os.Remove: open descriptors keep an unlinked file.
Remove(w) ==
  /\ pc[w] = "remove"
  /\ files' = [files EXCEPT ![Target(w)] = NoFile]
  /\ fd' = [x \in Worker |->
              IF pc[x] = "write" /\ Target(x) = Target(w)
              THEN [fd[x] EXCEPT !.linked = FALSE] ELSE fd[x]]
  /\ Goto(w, "answer")
  /\ adrift' = adrift \ {Target(w)}
  /\ UNCHANGED <<up, sets, lock, req, got, out, puts>>

RemoveFails(w) ==
  /\ IOErrors /\ pc[w] = "remove"
  /\ Goto(w, "answer")
  /\ adrift' = adrift \cup {Target(w)}
  /\ UNCHANGED <<up, sets, lock, req, got, disk, out, puts>>

Reply(code, count, ids) == [code |-> code, count |-> count, ids |-> ids]

\* The reply, computed after the lock was released from what was copied.
AnswerTo(r, g) ==
  LET inAll == Intersect(g)
      inAny == Union(g)
  IN  IF Malformed(r) THEN Reply(400, 0, {})
      ELSE IF r.op = "put" THEN Reply(201, Len(g[1]), {})
      ELSE IF r.op = "list" THEN Reply(200, Len(g), Elems(g))
      ELSE IF NoSet \in Elems(g) THEN Reply(404, 0, {})
      ELSE CASE r.op = "del" -> Reply(200, 0, {})
             [] r.op = "has" ->
                  Reply(200, 0, IF ContainsSorted(g[1], r.id) THEN {r.id} ELSE {})
             [] r.op = "info" -> Reply(200, Len(g[1]), {})
             [] r.op = "intersect" -> Reply(200, Len(inAll), Elems(inAll))
             [] r.op = "union" -> Reply(200, Len(inAny), Elems(inAny))

Answer(w) ==
  /\ pc[w] = "answer"
  /\ out' = [out EXCEPT ![w] = AnswerTo(req[w], got[w])]
  /\ Goto(w, "replied")
  /\ UNCHANGED <<up, sets, lock, req, got, disk, puts, adrift>>

\* The handler returns; its deferred f.Close has closed the descriptor.
Finish(w) ==
  /\ pc[w] = "replied"
  /\ req' = [req EXCEPT ![w] = NoReq]
  /\ got' = [got EXCEPT ![w] = <<>>]
  /\ fd' = [fd EXCEPT ![w] = NoFd]
  /\ out' = [out EXCEPT ![w] = NoReply]
  /\ Goto(w, "idle")
  /\ UNCHANGED <<up, sets, lock, files, puts, adrift>>

\* The process is killed: only what reached the files survives.
Crash ==
  /\ Crashes /\ up
  /\ up' = FALSE
  /\ sets' = [n \in Name |-> NoSet]
  /\ writer' = None /\ readers' = {}
  /\ pc' = [w \in Worker |-> "idle"]
  /\ req' = [w \in Worker |-> NoReq]
  /\ got' = [w \in Worker |-> <<>>]
  /\ fd' = [w \in Worker |-> NoFd]
  /\ out' = [w \in Worker |-> NoReply]
  /\ UNCHANGED <<files, puts, adrift>>

\* newStore: every readable .sxset is loaded before the first request; an
\* unreadable one is skipped and stays on disk.
Loaded(n) == IF Persistent /\ files[n] # NoFile THEN ReadFile(files[n]) ELSE NoSet

Start ==
  /\ ~up
  /\ up' = TRUE
  /\ sets' = [n \in Name |-> Loaded(n)]
  /\ adrift' = {}
  /\ UNCHANGED <<lock, pc, req, got, disk, out, puts>>

Acquire(w) == PutStore(w) \/ DelStore(w) \/ ReadLock(w)
Proceed(w) ==
  \/ Refuse(w) \/ ReadNext(w) \/ ReadNames(w) \/ Unlock(w)
  \/ Create(w) \/ CreateFails(w) \/ Flush(w) \/ FlushFails(w)
  \/ Remove(w) \/ RemoveFails(w) \/ Answer(w) \/ Finish(w)

Next ==
  \/ \E w \in Worker :
       \/ \E r \in Request : Receive(w, r)
       \/ Acquire(w)
       \/ Proceed(w)
  \/ Crash
  \/ Start

Spec == Init /\ [][Next]_vars

\* Every handler keeps running.  A goroutine blocked on store.mu is given its
\* turn: RWMutex lets no new reader in while a writer waits, and hands over to
\* the waiting readers when a writer leaves.
Fairness ==
  \A w \in Worker : /\ WF_vars(Proceed(w))
                    /\ SF_vars(Acquire(w))

FairSpec == Spec /\ Fairness

-----------------------------------------------------------------------------
(* Properties *)

Cells == Seq(Nat)
Labels == {"idle", "received", "read", "unlock", "create", "write", "remove",
           "answer", "replied"}

\* Types of the map, the lock, the files and the handlers' locals.
TypeOK ==
  /\ up \in BOOLEAN
  /\ sets \in [Name -> Cells \cup {NoSet}]
  /\ writer \in Worker \cup {None} /\ readers \in SUBSET Worker
  /\ files \in [Name -> Cells \cup {NoFile}]
  /\ pc \in [Worker -> Labels]
  /\ req \in [Worker -> Request \cup {NoReq}]
  /\ fd \in [Worker -> [off : Nat, linked : BOOLEAN]]
  /\ puts \in [Name -> SUBSET Value] /\ adrift \subseteq Name
  /\ DOMAIN got = Worker /\ DOMAIN out = Worker
  /\ \A w \in Worker : pc[w] # "idle" => req[w] \in Request

\* A write of n has changed the map and has not yet finished with the file.
InFlight(w, n) ==
  /\ pc[w] \in {"unlock", "create", "write", "remove"}
  /\ req[w].op \in WriteOps /\ Target(w) = n

\* Whenever no write of a name is in flight, a restart would bring back what
\* the map holds under that name: the last value PUT, or nothing after DELETE;
\* names whose last write of the file failed excepted (persist and forget only
\* log that), until a write succeeds or the server restarts.
\* (store.persist and store.forget after the unlock, loadFromDisk at boot.)
DiskFollowsMemory ==
  up => \A n \in Name :
    n \notin adrift /\ (\A w \in Worker : ~InFlight(w, n)) => Loaded(n) = sets[n]

\* The server never serves under a name a set nobody PUT there, whatever was
\* left in the files by errors, kills and partial writes (ReadFile's checks).
ServedWasPut == \A n \in Name : sets[n] # NoSet => sets[n] \in puts[n]

\* Every request takes effect atomically between its arrival and its reply,
\* and is answered exactly, although handlers read the map in a loop and
\* compute after RUnlock, and PUT replies long after its Unlock.
Phase(w) ==
  CASE pc[w] = "idle" -> "idle"
    [] pc[w] \in {"received", "read"} -> "pending"
    [] pc[w] \in {"unlock", "create", "write", "remove", "answer"} -> "done"
    [] pc[w] = "replied" -> "replied"

\* The contents of the map as sets, and the answer each request in service is
\* bound to get once it has read or changed the map.
Contents == [n \in Name |-> IF sets[n] = NoSet THEN NoSet ELSE Elems(sets[n])]
Phases == [w \in Worker |-> Phase(w)]
Bound == [w \in Worker |-> IF Phase(w) = "done" THEN AnswerTo(req[w], got[w])
                                               ELSE NoReply]

Store == INSTANCE SetStore WITH
  Id <- Ids, store <- Contents, phase <- Phases, call <- req, result <- Bound

Linearizable == Store!Spec

\* Every request that arrives is answered, unless the process is killed: no
\* path through a handler keeps store.mu (main.go:212 unlocks before its 404).
EveryRequestAnswered ==
  \A w \in Worker : pc[w] = "received" ~> (pc[w] = "replied" \/ ~up)
=============================================================================
