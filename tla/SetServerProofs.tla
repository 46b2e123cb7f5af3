--------------------------- MODULE SetServerProofs ---------------------------
(***************************************************************************)
(* Theorems about SetServer, and about Cli beside it, for any names,       *)
(* requests, workers, commands, bodies and size of the buffer: types;      *)
(* which sets files hold and a restart brings back; the implementation of  *)
(* the atomic store of SetStore, with or without kills, failing files and  *)
(* overlapping writes; what commands read, what a build leaves, and that   *)
(* the server's own properties hold beside the commands.                   *)
(***************************************************************************)
EXTENDS Cli, SetOpsProofs

-----------------------------------------------------------------------------
(* The file format *)

\* A WriteFile that got as far as k cells leaves this prefix of its bytes.
Prefix(v, k) == SubSeq(Encode(v), 1, k)

\* What Encode produces is one header and the ids, cell by cell.
LEMMA EncodeCells ==
  ASSUME NEW v \in Seq(Nat)
  PROVE  /\ Encode(v) \in Seq(Nat)
         /\ Len(Encode(v)) = Len(v) + 1
         /\ Encode(v)[1] = Len(v) + 1
         /\ \A i \in 2..Len(v) + 1 : Encode(v)[i] = v[i - 1]
<1>1. Len(v) \in Nat
  BY LenProperties
<1>2. <<Len(v) + 1>> \in Seq(Nat) /\ Len(<<Len(v) + 1>>) = 1
  BY <1>1
<1>3. Encode(v) = <<Len(v) + 1>> \o v
  BY DEF Encode, Header
<1>4. /\ <<Len(v) + 1>> \o v \in Seq(Nat)
      /\ Len(<<Len(v) + 1>> \o v) = 1 + Len(v)
      /\ \A i \in 1..1 + Len(v) :
           (<<Len(v) + 1>> \o v)[i] = IF i <= 1 THEN <<Len(v) + 1>>[i] ELSE v[i - 1]
  BY <1>2, ConcatProperties
<1> QED
  BY <1>1, <1>3, <1>4

\* The prefix of an encoding, cell by cell.
LEMMA PrefixCells ==
  ASSUME NEW v \in Seq(Nat), NEW k \in 0..Len(v) + 1
  PROVE  /\ Prefix(v, k) \in Seq(Nat)
         /\ Len(Prefix(v, k)) = k
         /\ \A i \in 1..k : Prefix(v, k)[i] = Encode(v)[i]
<1>1. Len(v) \in Nat
  BY LenProperties
<1>2. Encode(v) \in Seq(Nat) /\ Len(Encode(v)) = Len(v) + 1
  BY EncodeCells
<1>3. \A i \in 1..k : Encode(v)[i] \in Nat
  BY <1>1, <1>2, ElementOfSeq
<1> QED
  BY <1>1, <1>3, SubSeqProperties DEF Prefix

\* ReadFile accepts a complete file and gives back its ids, and rejects every
\* proper prefix of one.
LEMMA ReadPrefix ==
  ASSUME NEW v \in Seq(Nat), StrictlyIncreasing(v), NEW k \in 0..Len(v) + 1
  PROVE  ReadFile(Prefix(v, k)) = IF k = Len(v) + 1 THEN v ELSE NoSet
<1> DEFINE c == Prefix(v, k)
<1>1. Len(v) \in Nat
  BY LenProperties
<1>2. /\ c \in Seq(Nat) /\ Len(c) = k
      /\ \A i \in 1..k : c[i] = Encode(v)[i]
  BY PrefixCells
<1> SUFFICES ReadFile(c) = IF k = Len(v) + 1 THEN v ELSE NoSet
  OBVIOUS
<1> HIDE DEF c
<1>3. CASE k = 0
  <2>1. c = <<>>
    BY <1>2, <1>3, EmptySeq
  <2> QED
    BY <1>1, <1>3, <2>1 DEF ReadFile
<1>4. CASE k > 0
  <2>1. c # <<>> /\ c[1] - 1 = Len(v)
    <3>1. c # <<>>
      BY <1>2, <1>4
    <3>2. Encode(v)[1] = Len(v) + 1
      BY EncodeCells
    <3>3. c[1] = Encode(v)[1]
      BY <1>1, <1>2, <1>4
    <3> QED
      BY <1>1, <3>1, <3>2, <3>3
  <2>2. CASE k < Len(v) + 1
    BY <1>1, <1>2, <2>1, <2>2 DEF ReadFile
  <2>3. CASE k = Len(v) + 1
    <3> DEFINE ids == SubSeq(c, 2, Len(v) + 1)
    <3>1. \A i \in 2..Len(v) + 1 : c[i] = v[i - 1] /\ c[i] \in Nat
      <4>1. \A i \in 2..Len(v) + 1 : Encode(v)[i] = v[i - 1]
        BY EncodeCells
      <4>2. \A i \in 2..Len(v) + 1 : v[i - 1] \in Nat
        <5>1. \A j \in 1..Len(v) : v[j] \in Nat
          BY ElementOfSeq
        <5> QED
          BY <1>1, <5>1
      <4> TAKE i \in 2..Len(v) + 1
      <4>3. i \in 1..k
        BY <1>1, <2>3
      <4>4. c[i] = Encode(v)[i]
        BY <1>2, <4>3
      <4> QED
        BY <4>1, <4>2, <4>4
    <3>2. /\ ids \in Seq(Nat) /\ Len(ids) = Len(v)
          /\ \A i \in 1..Len(v) : ids[i] = c[i + 1]
      BY <1>1, <3>1, SubSeqProperties
    <3>3. ids = v
      <4> HIDE DEF ids
      <4>1. \A i \in 1..Len(v) : ids[i] = v[i]
        BY <1>1, <3>1, <3>2
      <4> QED
        BY <3>2, <4>1, SeqEqual
    <3>4. (c[1] - 1) + 1 = Len(v) + 1 /\ ~(c[1] - 1 < 0) /\ ~(c[1] - 1 > Len(c) - 1)
      BY <1>1, <1>2, <2>1, <2>3
    <3>5. SubSeq(c, 2, (c[1] - 1) + 1) = v
      BY <3>3, <3>4
    <3> QED
      BY <2>1, <2>3, <3>4, <3>5 DEF ReadFile
  <2> QED
    BY <1>1, <2>2, <2>3
<1> QED
  BY <1>1, <1>3, <1>4

\* Whatever a file holds, ReadFile returns ids or an error.
LEMMA ReadFileType ==
  ASSUME NEW c \in Seq(Nat)
  PROVE  ReadFile(c) \in Seq(Nat) \cup {NoSet}
<1>1. CASE c = <<>>
  BY <1>1 DEF ReadFile
<1>2. CASE c # <<>>
  <2>1. Len(c) \in Nat /\ Len(c) >= 1 /\ c[1] \in Nat
    BY <1>2, LenProperties, EmptySeq, ElementOfSeq
  <2>2. CASE c[1] - 1 < 0 \/ c[1] - 1 > Len(c) - 1
    BY <2>1, <2>2 DEF ReadFile
  <2>3. CASE c[1] - 1 >= 0 /\ c[1] - 1 <= Len(c) - 1
    <3>1. \A i \in 2..(c[1] - 1) + 1 : c[i] \in Nat
      BY <2>1, <2>3, ElementOfSeq
    <3>2. SubSeq(c, 2, (c[1] - 1) + 1) \in Seq(Nat)
      BY <2>1, <3>1, SubSeqProperties
    <3> QED
      BY <3>2 DEF ReadFile
  <2> QED
    BY <2>1, <2>2, <2>3
<1> QED
  BY <1>1, <1>2

\* A write leaves a file of cells, whoever else writes to it.
LEMMA WriteAtType ==
  ASSUME NEW c \in Seq(Nat), NEW from \in Nat, NEW chunk \in Seq(Nat)
  PROVE  WriteAt(c, from, chunk) \in Seq(Nat)
<1> DEFINE end == from + Len(chunk)
           top == IF Len(c) > end THEN Len(c) ELSE end
           cell(i) == IF i > from /\ i <= end THEN chunk[i - from]
                      ELSE IF i <= Len(c) THEN c[i] ELSE 0
<1>1. Len(c) \in Nat /\ Len(chunk) \in Nat /\ end \in Nat /\ top \in Nat
  BY LenProperties
<1>2. \A i \in 1..top : cell(i) \in Nat
  BY <1>1, ElementOfSeq
<1>3. WriteAt(c, from, chunk) = [i \in 1..top |-> cell(i)]
  BY DEF WriteAt
<1> HIDE DEF top, cell
<1>4. [i \in 1..top |-> cell(i)] \in Seq(Nat)
  BY <1>1, <1>2, IsASeq
<1> QED
  BY <1>3, <1>4

\* The next chunk of a WriteFile extends the prefix the file holds.
LEMMA WriteExtends ==
  ASSUME NEW v \in Seq(Nat), NEW o \in 0..Len(v) + 1,
         NEW k \in 0..(Len(v) + 1 - o)
  PROVE  WriteAt(Prefix(v, o), o,
                 SubSeq(SubSeq(Encode(v), o + 1, Len(Encode(v))), 1, k))
           = Prefix(v, o + k)
<1> DEFINE rest == SubSeq(Encode(v), o + 1, Len(Encode(v)))
           chunk == SubSeq(rest, 1, k)
           new == WriteAt(Prefix(v, o), o, chunk)
<1>1. Len(v) \in Nat /\ Len(Encode(v)) = Len(v) + 1
  BY LenProperties, EncodeCells
<1>2. \A i \in 1..Len(v) + 1 : Encode(v)[i] \in Nat
  BY <1>1, EncodeCells, ElementOfSeq
<1>3. /\ rest \in Seq(Nat) /\ Len(rest) = Len(v) + 1 - o
      /\ \A i \in 1..(Len(v) + 1 - o) : rest[i] = Encode(v)[o + i]
  BY <1>1, <1>2, SubSeqProperties
<1>4. /\ chunk \in Seq(Nat) /\ Len(chunk) = k
      /\ \A i \in 1..k : chunk[i] = Encode(v)[o + i]
  <2> HIDE DEF rest
  <2>1. \A i \in 1..k : rest[i] \in Nat
    BY <1>1, <1>3, ElementOfSeq
  <2> QED
    BY <1>1, <1>3, <2>1, SubSeqProperties
<1> HIDE DEF rest, chunk
<1>5. /\ Prefix(v, o) \in Seq(Nat) /\ Len(Prefix(v, o)) = o
      /\ \A i \in 1..o : Prefix(v, o)[i] = Encode(v)[i]
  BY PrefixCells
<1>6. o + k \in 0..Len(v) + 1
  BY <1>1
<1>7. /\ Prefix(v, o + k) \in Seq(Nat) /\ Len(Prefix(v, o + k)) = o + k
      /\ \A i \in 1..o + k : Prefix(v, o + k)[i] = Encode(v)[i]
  BY <1>6, PrefixCells
<1>8. new \in Seq(Nat)
  BY <1>4, <1>5, WriteAtType
<1>9. /\ new = [i \in 1..o + k |->
                  IF i > o /\ i <= o + k THEN chunk[i - o]
                  ELSE IF i <= o THEN Prefix(v, o)[i] ELSE 0]
  BY <1>1, <1>4, <1>5 DEF WriteAt
<1>10. Len(new) = o + k
  BY <1>1, <1>6, <1>8, <1>9, LenProperties
<1>11. \A i \in 1..o + k : new[i] = Encode(v)[i]
  BY <1>1, <1>4, <1>5, <1>9
<1> HIDE DEF new
<1>12. new = Prefix(v, o + k)
  BY <1>7, <1>8, <1>10, <1>11, SeqEqual
<1> QED
  BY <1>12 DEF new, chunk, rest

-----------------------------------------------------------------------------
(* Type correctness *)

\* Which handler may be at which step, and that a descriptor still linked to a
\* name has a file to write to.
Control ==
  \A w \in Worker :
    /\ pc[w] \in {"create", "write"} => req[w].op = "put"
    /\ pc[w] = "remove" => req[w].op = "del"
    /\ pc[w] = "read" => req[w].op \notin WriteOps
    /\ pc[w] = "write" /\ fd[w].linked => files[Target(w)] # NoFile

\* What a handler at work on a write knows of its request.
LEMMA RequestFacts ==
  ASSUME TypeOK, NEW w \in Worker, pc[w] # "idle"
  PROVE  /\ req[w] \in Request /\ req[w].op \in Ops
         /\ req[w].val \in Value /\ req[w].val \in Seq(Nat)
         /\ StrictlyIncreasing(req[w].val)
         /\ req[w].op \in WriteOps => Target(w) \in Name
<1>1. req[w] \in Request
  BY DEF TypeOK
<1>2. /\ req[w].op \in Ops /\ req[w].names \in Seq(Name) /\ req[w].val \in Value
      /\ req[w].op \in WriteOps => Len(req[w].names) = 1
  BY <1>1, ServerAssumption DEF WriteOps
<1>3. ASSUME req[w].op \in WriteOps PROVE Target(w) \in Name
  <2>1. Len(req[w].names) = 1
    BY <1>2, <1>3
  <2> QED
    BY <1>2, <2>1, ElementOfSeq DEF Target
<1> QED
  BY <1>1, <1>2, <1>3, ServerAssumption

\* What is left to write is a sequence of cells.
LEMMA RestType ==
  ASSUME TypeOK, NEW w \in Worker, pc[w] # "idle"
  PROVE  /\ Rest(w) \in Seq(Nat) /\ Len(Rest(w)) \in Nat
         /\ \A k \in 0..Len(Rest(w)) : SubSeq(Rest(w), 1, k) \in Seq(Nat)
<1> DEFINE e == Encode(req[w].val)
<1>1. e \in Seq(Nat) /\ Len(e) \in Nat
  BY RequestFacts, EncodeCells, LenProperties
<1>2. fd[w].off \in Nat
  BY DEF TypeOK
<1>3. Rest(w) = SubSeq(e, fd[w].off + 1, Len(e))
  BY DEF Rest
<1> HIDE DEF e
<1>4. \A i \in fd[w].off + 1..Len(e) : e[i] \in Nat
  BY <1>1, <1>2, ElementOfSeq
<1>5. Rest(w) \in Seq(Nat)
  BY <1>1, <1>2, <1>3, <1>4, SubSeqProperties
<1>6. Len(Rest(w)) \in Nat
  BY <1>5, LenProperties
<1>7. ASSUME NEW k \in 0..Len(Rest(w)) PROVE SubSeq(Rest(w), 1, k) \in Seq(Nat)
  <2>1. \A i \in 1..k : Rest(w)[i] \in Nat
    BY <1>5, <1>6, ElementOfSeq
  <2> QED
    BY <1>6, <2>1, SubSeqProperties
<1> QED
  BY <1>5, <1>6, <1>7

\* The initial state is well typed.
LEMMA TypeInit == Init => TypeOK /\ Control
<1> SUFFICES ASSUME Init PROVE TypeOK /\ Control
  OBVIOUS
<1>1. TypeOK
  BY DEF Init, TypeOK, Labels, NoFd
<1>2. Control
  BY DEF Init, Control
<1> QED
  BY <1>1, <1>2

\* One transfer keeps files files and offsets offsets.
LEMMA TransferType ==
  ASSUME TypeOK, Control, NEW w \in Worker, pc[w] = "write",
         NEW k \in 0..Len(Rest(w)), Transfer(w, k)
  PROVE  /\ files' \in [Name -> Cells \cup {NoFile}]
         /\ fd' \in [Worker -> [off : Nat, linked : BOOLEAN]]
         /\ \A n \in Name : files[n] # NoFile => files'[n] # NoFile
         /\ \A x \in Worker : fd'[x].linked = fd[x].linked
<1>1. /\ Target(w) \in Name /\ SubSeq(Rest(w), 1, k) \in Seq(Nat)
      /\ fd[w].off \in Nat /\ k \in Nat
  <2>1. Target(w) \in Name
    BY RequestFacts DEF Control, WriteOps
  <2>2. SubSeq(Rest(w), 1, k) \in Seq(Nat) /\ Len(Rest(w)) \in Nat
    BY RestType
  <2>3. fd[w].off \in Nat
    BY DEF TypeOK
  <2> QED
    BY <2>1, <2>2, <2>3
<1>2. /\ fd' \in [Worker -> [off : Nat, linked : BOOLEAN]]
      /\ \A x \in Worker : fd'[x].linked = fd[x].linked
  <2>1. fd' = [fd EXCEPT ![w] = [fd[w] EXCEPT !.off = fd[w].off + k]]
    BY DEF Transfer
  <2>2. fd \in [Worker -> [off : Nat, linked : BOOLEAN]]
    BY DEF TypeOK
  <2>3. fd[w].off + k \in Nat
    BY <1>1
  <2> QED
    BY <2>1, <2>2, <2>3
<1>3. CASE fd[w].linked
  <2>1. files[Target(w)] \in Seq(Nat)
    BY <1>1, <1>3 DEF Control, TypeOK, Cells
  <2> DEFINE c == WriteAt(files[Target(w)], fd[w].off, SubSeq(Rest(w), 1, k))
  <2>2. c \in Seq(Nat)
    BY <1>1, <2>1, WriteAtType
  <2>3. files' = [files EXCEPT ![Target(w)] = c]
    BY <1>3 DEF Transfer
  <2>4. c # NoFile
    BY <2>2, ServerAssumption
  <2> HIDE DEF c
  <2>5. files \in [Name -> Seq(Nat) \cup {NoFile}]
    BY DEF TypeOK, Cells
  <2>6. files' \in [Name -> Seq(Nat) \cup {NoFile}]
    BY <2>2, <2>3, <2>5
  <2>7. \A n \in Name : files[n] # NoFile => files'[n] # NoFile
    BY <2>3, <2>4, <2>5
  <2> QED
    BY <1>2, <2>6, <2>7 DEF Cells
<1>4. CASE ~fd[w].linked
  <2>1. files' = files
    BY <1>4 DEF Transfer
  <2> QED
    BY <1>1, <1>2, <2>1 DEF TypeOK
<1> QED
  BY <1>3, <1>4

\* The number of cells of one Flush.
LEMMA FlushSize ==
  ASSUME TypeOK, NEW w \in Worker, pc[w] = "write"
  PROVE  (IF Len(Rest(w)) < ChunkCells THEN Len(Rest(w)) ELSE ChunkCells)
           \in 0..Len(Rest(w))
<1>1. Len(Rest(w)) \in Nat /\ ChunkCells \in Nat
  BY RestType, ServerAssumption
<1> QED
  BY <1>1

\* Every step keeps the types and the control facts.
LEMMA TypeStep == TypeOK /\ Control /\ [Next]_vars => TypeOK' /\ Control'
<1> SUFFICES ASSUME TypeOK, Control, [Next]_vars
             PROVE  TypeOK' /\ Control'
  OBVIOUS
<1> USE DEF Goto, lock, disk
<1>1. ASSUME NEW w \in Worker, NEW r \in Request, Receive(w, r)
      PROVE  TypeOK' /\ Control'
  <2>1. TypeOK'
    BY <1>1 DEF Receive, TypeOK, Labels
  <2>2. Control'
    BY <1>1 DEF Receive, TypeOK, Control, Target
  <2> QED
    BY <2>1, <2>2
<1>2. ASSUME NEW w \in Worker, Refuse(w)
      PROVE  TypeOK' /\ Control'
  <2>1. TypeOK'
    BY <1>2 DEF Refuse, TypeOK, Labels
  <2>2. Control'
    BY <1>2 DEF Refuse, TypeOK, Control, Target
  <2> QED
    BY <2>1, <2>2
<1>3. ASSUME NEW w \in Worker, PutStore(w)
      PROVE  TypeOK' /\ Control'
  <2>1. /\ req[w].val \in Value /\ req[w].val \in Seq(Nat) /\ Target(w) \in Name
    BY <1>3, RequestFacts DEF PutStore, WriteOps
  <2>2. TypeOK'
    BY <1>3, <2>1 DEF PutStore, TypeOK, Labels, Cells
  <2>3. Control'
    BY <1>3 DEF PutStore, TypeOK, Control, Target
  <2> QED
    BY <2>2, <2>3
<1>4. ASSUME NEW w \in Worker, DelStore(w)
      PROVE  TypeOK' /\ Control'
  <2>1. Target(w) \in Name
    BY <1>4, RequestFacts DEF DelStore, WriteOps
  <2>2. TypeOK'
    BY <1>4, <2>1 DEF DelStore, TypeOK, Labels, Cells
  <2>3. Control'
    BY <1>4 DEF DelStore, TypeOK, Control, Target
  <2> QED
    BY <2>2, <2>3
<1>5. ASSUME NEW w \in Worker, ReadLock(w)
      PROVE  TypeOK' /\ Control'
  <2>1. TypeOK'
    BY <1>5 DEF ReadLock, TypeOK, Labels
  <2>2. Control'
    BY <1>5 DEF ReadLock, TypeOK, Control, Target
  <2> QED
    BY <2>1, <2>2
<1>6. ASSUME NEW w \in Worker, ReadNext(w) \/ ReadNames(w)
      PROVE  TypeOK' /\ Control'
  <2>1. \E l \in {"unlock", "read"} : pc' = [pc EXCEPT ![w] = l]
    BY <1>6 DEF ReadNext, ReadNames
  <2>2. /\ pc[w] = "read" /\ DOMAIN got' = DOMAIN got
        /\ UNCHANGED <<up, sets, writer, readers, files, req, fd, out, puts, adrift>>
    BY <1>6 DEF ReadNext, ReadNames
  <2>3. TypeOK'
    BY <2>1, <2>2 DEF TypeOK, Labels
  <2>4. Control'
    BY <2>1, <2>2 DEF TypeOK, Control, Target
  <2> QED
    BY <2>3, <2>4
<1>7. ASSUME NEW w \in Worker, Unlock(w)
      PROVE  TypeOK' /\ Control'
  <2>1. AfterUnlock(w) \in Labels
    BY DEF AfterUnlock, Labels
  <2>2. TypeOK'
    BY <1>7, <2>1 DEF Unlock, TypeOK, Labels
  <2>3. /\ AfterUnlock(w) = "create" => req[w].op = "put"
        /\ AfterUnlock(w) = "remove" => req[w].op = "del"
        /\ AfterUnlock(w) \notin {"write", "read"}
    BY DEF AfterUnlock
  <2>4. Control'
    BY <1>7, <2>3 DEF Unlock, TypeOK, Control, Target
  <2> QED
    BY <2>2, <2>4
<1>8. ASSUME NEW w \in Worker, Create(w)
      PROVE  TypeOK' /\ Control'
  <2>1. Target(w) \in Name
    BY <1>8, RequestFacts DEF Create, Control, WriteOps
  <2>2. <<>> \in Seq(Nat) /\ <<>> # NoFile
    BY EmptySeq, ServerAssumption
  <2>3. TypeOK'
    BY <1>8, <2>1, <2>2 DEF Create, TypeOK, Labels, Cells
  <2>4. Control'
    BY <1>8, <2>1, <2>2 DEF Create, TypeOK, Control, Target
  <2> QED
    BY <2>3, <2>4
<1>9. ASSUME NEW w \in Worker, CreateFails(w) \/ RemoveFails(w)
      PROVE  TypeOK' /\ Control'
  <2>1. Target(w) \in Name
    BY <1>9, RequestFacts DEF CreateFails, RemoveFails, Control, WriteOps
  <2>2. TypeOK'
    BY <1>9, <2>1 DEF CreateFails, RemoveFails, TypeOK, Labels
  <2>3. Control'
    BY <1>9 DEF CreateFails, RemoveFails, TypeOK, Control, Target
  <2> QED
    BY <2>2, <2>3
<1>10. ASSUME NEW w \in Worker, Flush(w) \/ FlushFails(w)
      PROVE  TypeOK' /\ Control'
  <2>1. pc[w] = "write"
    BY <1>10 DEF Flush, FlushFails
  <2>2. Len(Rest(w)) \in Nat /\ ChunkCells \in Nat
    BY <2>1, RestType, ServerAssumption
  <2>3. PICK k \in 0..Len(Rest(w)) : Transfer(w, k)
    BY <1>10, <2>1, <2>2, FlushSize DEF Flush, FlushFails
  <2>4. \E l \in {"answer", "write"} : pc' = [pc EXCEPT ![w] = l]
    BY <1>10 DEF Flush, FlushFails
  <2>5. UNCHANGED <<up, sets, writer, readers, req, got, out, puts>>
    BY <1>10 DEF Flush, FlushFails
  <2>6. /\ files' \in [Name -> Cells \cup {NoFile}]
        /\ fd' \in [Worker -> [off : Nat, linked : BOOLEAN]]
        /\ \A n \in Name : files[n] # NoFile => files'[n] # NoFile
        /\ \A x \in Worker : fd'[x].linked = fd[x].linked
    BY <2>1, <2>3, TransferType
  <2>7. TypeOK'
    <3>1. pc' \in [Worker -> Labels]
      BY <2>4 DEF TypeOK, Labels
    <3>2. \A x \in Worker : pc'[x] # "idle" => req[x] \in Request
      BY <2>1, <2>4 DEF TypeOK
    <3>3. Target(w) \in Name
      BY <2>1, RequestFacts DEF Control, WriteOps
    <3>4. adrift' \subseteq Name
      BY <1>10, <3>3 DEF Flush, FlushFails, TypeOK
    <3> QED
      BY <2>5, <2>6, <3>1, <3>2, <3>4 DEF TypeOK
  <2>8. ASSUME NEW x \in Worker, pc'[x] = "write", fd'[x].linked
        PROVE  files'[Target(x)] # NoFile
    <3>1. pc[x] = "write" /\ fd[x].linked
      BY <2>1, <2>4, <2>6, <2>8 DEF TypeOK
    <3>2. Target(x) \in Name /\ files[Target(x)] # NoFile
      BY <3>1, RequestFacts DEF Control, WriteOps
    <3> QED
      BY <2>6, <3>2
  <2>9. Control'
    BY <2>1, <2>4, <2>5, <2>8 DEF TypeOK, Control, Target
  <2> QED
    BY <2>7, <2>9
<1>11. ASSUME NEW w \in Worker, Remove(w)
      PROVE  TypeOK' /\ Control'
  <2>1. Target(w) \in Name
    BY <1>11, RequestFacts DEF Remove, Control, WriteOps
  <2>2. TypeOK'
    BY <1>11, <2>1 DEF Remove, TypeOK, Labels
  <2>3. ASSUME NEW x \in Worker, pc'[x] = "write", fd'[x].linked
        PROVE  files'[Target(x)] # NoFile
    <3>1. pc[x] = "write" /\ Target(x) # Target(w) /\ fd[x].linked
      BY <1>11, <2>3 DEF Remove, TypeOK
    <3>2. Target(x) \in Name /\ files[Target(x)] # NoFile
      BY <3>1, RequestFacts DEF Control, WriteOps
    <3> QED
      BY <1>11, <3>1, <3>2 DEF Remove, TypeOK
  <2>4. Control'
    BY <1>11, <2>3 DEF Remove, TypeOK, Control, Target
  <2> QED
    BY <2>2, <2>4
<1>12. ASSUME NEW w \in Worker, Answer(w) \/ Finish(w)
      PROVE  TypeOK' /\ Control'
  <2>1. TypeOK'
    <3>1. CASE Answer(w)
      BY <3>1 DEF Answer, TypeOK, Labels
    <3>2. CASE Finish(w)
      BY <3>2 DEF Finish, TypeOK, Labels, NoFd
    <3> QED
      BY <1>12, <3>1, <3>2
  <2>2. Control'
    BY <1>12 DEF Answer, Finish, TypeOK, Control, Target
  <2> QED
    BY <2>1, <2>2
<1>13. ASSUME Crash
      PROVE  TypeOK' /\ Control'
  <2>1. TypeOK'
    BY <1>13 DEF Crash, TypeOK, Labels, NoFd
  <2>2. Control'
    BY <1>13 DEF Crash, Control
  <2> QED
    BY <2>1, <2>2
<1>14. ASSUME Start
      PROVE  TypeOK' /\ Control'
  <2>1. \A n \in Name : Loaded(n) \in Cells \cup {NoSet}
    BY ReadFileType DEF Loaded, TypeOK, Cells
  <2>2. TypeOK'
    BY <1>14, <2>1 DEF Start, TypeOK
  <2>3. Control'
    BY <1>14 DEF Start, Control, Target
  <2> QED
    BY <2>2, <2>3
<1>15. CASE UNCHANGED vars
  BY <1>15 DEF vars, TypeOK, Control, Target
<1> QED
  BY <1>1, <1>2, <1>3, <1>4, <1>5, <1>6, <1>7, <1>8, <1>9, <1>10, <1>11, <1>12,
     <1>13, <1>14, <1>15 DEF Next, Acquire, Proceed

\* The map, the lock, the files and the handlers' locals are always what the
\* code declares them to be, for any number of names, requests and workers.
THEOREM TypeCorrect == Spec => []TypeOK
<1>1. Spec => [](TypeOK /\ Control)
  BY TypeInit, TypeStep, PTL DEF Spec
<1> QED
  BY <1>1, PTL

-----------------------------------------------------------------------------
(* What the files hold when clients do not overlap writes of one name *)

OneWriter ==
  \A w, x \in Worker : \A n \in Name : w # x => ~(Writing(w, n) /\ Writing(x, n))

\* Every file is as far as some WriteFile of a value PUT under its name got.
FilesArePrefixes ==
  \A n \in Name : files[n] # NoFile =>
    \E v \in puts[n] : \E k \in 0..Len(v) + 1 : files[n] = Prefix(v, k)

\* A WriteFile in progress owns the file, which ends at its offset.
WriterAtPrefix ==
  \A w \in Worker : pc[w] = "write" =>
    /\ fd[w].linked
    /\ fd[w].off \in 0..Len(req[w].val) + 1
    /\ files[Target(w)] = Prefix(req[w].val, fd[w].off)

PutIsKnown ==
  \A w \in Worker : pc[w] \in {"unlock", "create", "write"} /\ req[w].op = "put" =>
    req[w].val \in puts[Target(w)]

FileInv ==
  /\ TypeOK /\ Control
  /\ OneWriter /\ FilesArePrefixes /\ WriterAtPrefix /\ PutIsKnown /\ ServedWasPut

\* The map and the files agree where no write is in flight, and a write in
\* flight has already put its value in the map.
InFlightStored ==
  \A w \in Worker : \A n \in Name : InFlight(w, n) =>
    sets[n] = IF req[w].op = "put" THEN req[w].val ELSE NoSet

\* A DELETE that missed the map has no file to forget.
NothingToForget ==
  \A w \in Worker :
    pc[w] = "unlock" /\ req[w].op = "del" /\ got[w] = <<NoSet>> /\ Target(w) \notin adrift =>
      Loaded(Target(w)) = NoSet

DownIsIdle == ~up => \A w \in Worker : pc[w] = "idle"

DiskInv ==
  FileInv /\ DiskFollowsMemory /\ InFlightStored /\ NothingToForget /\ DownIsIdle

LEMMA FileInit == Init => FileInv
<1> SUFFICES ASSUME Init PROVE FileInv
  OBVIOUS
<1>1. OneWriter /\ FilesArePrefixes /\ WriterAtPrefix /\ PutIsKnown /\ ServedWasPut
  BY DEF Init, OneWriter, Writing, FilesArePrefixes, WriterAtPrefix, PutIsKnown,
         ServedWasPut
<1> QED
  BY <1>1, TypeInit DEF FileInv

\* A write in progress keeps a prefix in its file, whatever it transfers.
LEMMA TransferKeepsPrefix ==
  ASSUME FileInv, NEW w \in Worker, pc[w] = "write",
         NEW k \in 0..Len(Rest(w)), Transfer(w, k)
  PROVE  /\ fd'[w].linked /\ fd'[w].off = fd[w].off + k
         /\ fd'[w].off \in 0..Len(req[w].val) + 1
         /\ files' = [files EXCEPT ![Target(w)] = Prefix(req[w].val, fd'[w].off)]
         /\ \A x \in Worker : x # w => fd'[x] = fd[x]
         /\ k = Len(Rest(w)) => fd'[w].off = Len(req[w].val) + 1
<1> DEFINE v == req[w].val
           o == fd[w].off
<1>1. v \in Seq(Nat) /\ Len(v) \in Nat
  BY RequestFacts, LenProperties DEF FileInv
<1>2. fd[w].linked /\ o \in 0..Len(v) + 1 /\ files[Target(w)] = Prefix(v, o)
  BY DEF FileInv, WriterAtPrefix
<1>3. fd' = [fd EXCEPT ![w] = [fd[w] EXCEPT !.off = o + k]]
  BY DEF Transfer
<1>4. fd \in [Worker -> [off : Nat, linked : BOOLEAN]]
  BY DEF FileInv, TypeOK
<1>5. fd'[w].linked /\ fd'[w].off = o + k /\ \A x \in Worker : x # w => fd'[x] = fd[x]
  BY <1>2, <1>3, <1>4
<1>6. Rest(w) = SubSeq(Encode(v), o + 1, Len(Encode(v)))
  BY DEF Rest
<1>7. Len(Rest(w)) = Len(v) + 1 - o
  <2>1. Encode(v) \in Seq(Nat) /\ Len(Encode(v)) = Len(v) + 1
    BY <1>1, EncodeCells
  <2>2. \A i \in o + 1..Len(v) + 1 : Encode(v)[i] \in Nat
    BY <1>1, <1>2, <2>1, ElementOfSeq, SMTT(30)
  <2> HIDE DEF v, o
  <2> QED
    BY <1>1, <1>2, <1>6, <2>1, <2>2, SubSeqProperties
<1>8. k \in 0..(Len(v) + 1 - o)
  BY <1>7
<1>9. WriteAt(files[Target(w)], o, SubSeq(Rest(w), 1, k)) = Prefix(v, o + k)
  BY <1>1, <1>2, <1>6, <1>8, WriteExtends
<1>10. files' = [files EXCEPT ![Target(w)] = Prefix(v, o + k)]
  BY <1>2, <1>9 DEF Transfer
<1>11. o + k \in 0..Len(v) + 1 /\ (k = Len(Rest(w)) => o + k = Len(v) + 1)
  <2>1. o \in Nat /\ k \in Nat
    BY <1>1, <1>2, <1>8
  <2> HIDE DEF v, o
  <2> QED
    BY <1>1, <1>2, <1>7, <1>8, <2>1
<1> QED
  BY <1>5, <1>10, <1>11

\* A complete file loads as the value that was written, a shorter one not at all.
LEMMA LoadPrefix ==
  ASSUME TypeOK, NEW n \in Name, NEW v \in Value, NEW k \in 0..Len(v) + 1,
         files[n] = Prefix(v, k)
  PROVE  /\ Loaded(n) = v \/ Loaded(n) = NoSet
         /\ Persistent /\ k = Len(v) + 1 => Loaded(n) = v
<1>1. v \in Seq(Nat) /\ StrictlyIncreasing(v)
  BY ServerAssumption
<1>2. Prefix(v, k) \in Seq(Nat)
  BY <1>1, PrefixCells
<1>3. files[n] # NoFile
  BY <1>2, ServerAssumption
<1>4. ReadFile(files[n]) = IF k = Len(v) + 1 THEN v ELSE NoSet
  BY <1>1, ReadPrefix
<1> QED
  BY <1>3, <1>4 DEF Loaded

\* A step that leaves map, files, requests and history alone, and sends its
\* handler neither into a write nor, with a new value, towards one.
LEMMA QuietFileStep ==
  ASSUME FileInv, TypeOK', Control', NEW w \in Worker,
         pc[w] # "idle", pc' = [pc EXCEPT ![w] = pc'[w]],
         pc'[w] \in {"unlock", "create", "write"} /\ req[w].op = "put" =>
           pc[w] \in {"unlock", "create", "write"},
         pc'[w] # "write",
         UNCHANGED <<sets, files, req, fd, puts>>
  PROVE  FileInv'
<1>1. \A x \in Worker : pc'[x] # "idle" => pc[x] # "idle"
  BY DEF FileInv, TypeOK
<1>2. OneWriter'
  BY <1>1 DEF FileInv, OneWriter, Writing, Target
<1>3. FilesArePrefixes' /\ ServedWasPut'
  BY DEF FileInv, FilesArePrefixes, ServedWasPut, Prefix, Encode, Header
<1>4. \A x \in Worker : pc'[x] = "write" => pc[x] = "write"
  BY DEF FileInv, TypeOK
<1>5. WriterAtPrefix'
  BY <1>4 DEF FileInv, WriterAtPrefix, Target, Prefix, Encode, Header
<1>6. PutIsKnown'
  BY DEF FileInv, TypeOK, PutIsKnown, Target
<1> QED
  BY <1>2, <1>3, <1>5, <1>6 DEF FileInv

\* Without overlapping writes of one name, every step keeps FileInv.
LEMMA FileStep ==
  ASSUME ~Overlap, FileInv, [Next]_vars
  PROVE  FileInv'
<1>0. TypeOK' /\ Control'
  BY TypeStep DEF FileInv
<1> USE DEF Goto, lock, disk
<1>1. ASSUME NEW w \in Worker, NEW r \in Request, Receive(w, r)
      PROVE  FileInv'
  <2>1. /\ pc[w] = "idle" /\ pc' = [pc EXCEPT ![w] = "received"]
        /\ req' = [req EXCEPT ![w] = r]
        /\ UNCHANGED <<sets, files, fd, puts>>
    BY <1>1 DEF Receive
  <2>2. /\ req'[w] = r /\ pc'[w] = "received"
        /\ \A x \in Worker : x # w => req'[x] = req[x] /\ pc'[x] = pc[x]
    BY <2>1 DEF FileInv, TypeOK
  <2>3. r.op \in WriteOps => \A x \in Worker : ~Writing(x, r.names[1])
    BY <1>1 DEF Receive
  <2>4. OneWriter'
    <3> SUFFICES ASSUME NEW x \in Worker, NEW y \in Worker, NEW n \in Name, x # y,
                        Writing(x, n)', Writing(y, n)'
                 PROVE  FALSE
      BY DEF OneWriter
    <3>1. CASE x = w
      <4>1. r.op \in WriteOps /\ r.names[1] = n /\ Writing(y, n)
        BY <2>2, <3>1 DEF Writing, Target
      <4> QED
        BY <2>3, <4>1
    <3>2. CASE y = w
      <4>1. r.op \in WriteOps /\ r.names[1] = n /\ Writing(x, n)
        BY <2>2, <3>2 DEF Writing, Target
      <4> QED
        BY <2>3, <4>1
    <3>3. CASE x # w /\ y # w
      <4>1. Writing(x, n) /\ Writing(y, n)
        BY <2>2, <3>3 DEF Writing, Target
      <4> QED
        BY <4>1 DEF FileInv, OneWriter
    <3> QED
      BY <3>1, <3>2, <3>3
  <2>5. FilesArePrefixes' /\ ServedWasPut'
    BY <2>1 DEF FileInv, FilesArePrefixes, ServedWasPut, Prefix, Encode, Header
  <2>6. \A x \in Worker : pc'[x] \in {"unlock", "create", "write"} => x # w
    BY <2>2
  <2>7. WriterAtPrefix'
    BY <2>1, <2>2, <2>6 DEF FileInv, WriterAtPrefix, Target, Prefix, Encode, Header
  <2>8. PutIsKnown'
    BY <2>1, <2>2, <2>6 DEF FileInv, PutIsKnown, Target
  <2> QED
    BY <1>0, <2>4, <2>5, <2>7, <2>8 DEF FileInv
<1>2. ASSUME NEW w \in Worker,
             \/ Refuse(w) \/ ReadLock(w) \/ ReadNext(w) \/ ReadNames(w) \/ Unlock(w)
             \/ CreateFails(w) \/ RemoveFails(w) \/ Answer(w)
      PROVE  FileInv'
  <2>1. /\ pc[w] # "idle" /\ UNCHANGED <<sets, files, req, fd, puts>>
        /\ \E l \in Labels : pc' = [pc EXCEPT ![w] = l]
    BY <1>2 DEF Refuse, ReadLock, ReadNext, ReadNames, Unlock, AfterUnlock,
                CreateFails, RemoveFails, Answer, Labels
  <2>2. pc' = [pc EXCEPT ![w] = pc'[w]]
    BY <2>1 DEF FileInv, TypeOK
  <2>3. pc'[w] # "write"
    BY <1>2 DEF Refuse, ReadLock, ReadNext, ReadNames, Unlock, AfterUnlock,
                CreateFails, RemoveFails, Answer, FileInv, TypeOK
  <2>4. pc'[w] \in {"unlock", "create", "write"} =>
          pc[w] \in {"unlock", "create", "write"} \/ pc[w] = "read"
    BY <1>2 DEF Refuse, ReadLock, ReadNext, ReadNames, Unlock, AfterUnlock,
                CreateFails, RemoveFails, Answer, FileInv, TypeOK
  <2>5. pc[w] = "read" => req[w].op # "put"
    BY DEF FileInv, Control, WriteOps
  <2> QED
    BY <1>0, <2>1, <2>2, <2>3, <2>4, <2>5, QuietFileStep
<1>3. ASSUME NEW w \in Worker, PutStore(w)
      PROVE  FileInv'
  <2>1. /\ pc[w] = "received" /\ pc' = [pc EXCEPT ![w] = "unlock"]
        /\ sets' = [sets EXCEPT ![Target(w)] = req[w].val]
        /\ puts' = [puts EXCEPT ![Target(w)] = puts[Target(w)] \cup {req[w].val}]
        /\ UNCHANGED <<files, req, fd>>
    BY <1>3 DEF PutStore
  <2>2. Target(w) \in Name
    BY <1>3, RequestFacts DEF PutStore, FileInv, WriteOps
  <2>3. \A n \in Name : puts[n] \subseteq puts'[n]
    BY <2>1, <2>2 DEF FileInv, TypeOK
  <2>4. req[w].val \in puts'[Target(w)]
    BY <2>1, <2>2 DEF FileInv, TypeOK
  <2>5. OneWriter'
    BY <2>1 DEF FileInv, TypeOK, OneWriter, Writing, Target
  <2>6. FilesArePrefixes'
    BY <2>1, <2>3 DEF FileInv, FilesArePrefixes, Prefix, Encode, Header
  <2>7. WriterAtPrefix'
    BY <2>1 DEF FileInv, TypeOK, WriterAtPrefix, Target, Prefix, Encode, Header
  <2>8. PutIsKnown'
    <3> SUFFICES ASSUME NEW x \in Worker,
                        pc'[x] \in {"unlock", "create", "write"}, req[x].op = "put"
                 PROVE  req[x].val \in puts'[Target(x)]
      BY <2>1 DEF PutIsKnown, Target
    <3>1. CASE x = w
      BY <2>4, <3>1
    <3>2. CASE x # w
      <4>1. pc[x] \in {"unlock", "create", "write"}
        BY <2>1, <3>2 DEF FileInv, TypeOK
      <4>2. Target(x) \in Name /\ req[x].val \in puts[Target(x)]
        BY <4>1, RequestFacts DEF FileInv, PutIsKnown, WriteOps
      <4> QED
        BY <2>3, <4>2
    <3> QED
      BY <3>1, <3>2
  <2>9. ServedWasPut'
    BY <2>1, <2>2, <2>3, <2>4 DEF FileInv, TypeOK, ServedWasPut
  <2> QED
    BY <1>0, <2>5, <2>6, <2>7, <2>8, <2>9 DEF FileInv
<1>4. ASSUME NEW w \in Worker, DelStore(w)
      PROVE  FileInv'
  <2>1. /\ pc[w] = "received" /\ pc' = [pc EXCEPT ![w] = "unlock"]
        /\ req[w].op = "del" /\ sets' = [sets EXCEPT ![Target(w)] = NoSet]
        /\ UNCHANGED <<files, req, fd, puts>>
    BY <1>4 DEF DelStore
  <2>2. OneWriter'
    BY <2>1 DEF FileInv, TypeOK, OneWriter, Writing, Target
  <2>3. FilesArePrefixes'
    BY <2>1 DEF FileInv, FilesArePrefixes, Prefix, Encode, Header
  <2>4. WriterAtPrefix'
    BY <2>1 DEF FileInv, TypeOK, WriterAtPrefix, Target, Prefix, Encode, Header
  <2>5. PutIsKnown'
    BY <2>1 DEF FileInv, TypeOK, PutIsKnown, Target
  <2>6. ServedWasPut'
    BY <2>1 DEF FileInv, TypeOK, ServedWasPut
  <2> QED
    BY <1>0, <2>2, <2>3, <2>4, <2>5, <2>6 DEF FileInv
<1>5. ASSUME NEW w \in Worker, Create(w) \/ Flush(w) \/ FlushFails(w)
      PROVE  FileInv'
  <2> DEFINE t == Target(w)
             v == req[w].val
  <2>1. pc[w] \in {"create", "write"} /\ req[w].op = "put" /\ t \in Name
    <3>1. pc[w] \in {"create", "write"}
      BY <1>5 DEF Create, Flush, FlushFails
    <3> QED
      BY <3>1, RequestFacts DEF FileInv, Control, WriteOps
  <2>2. v \in puts[t] /\ v \in Seq(Nat) /\ Len(v) \in Nat
    BY <2>1, RequestFacts, LenProperties DEF FileInv, PutIsKnown
  <2>3. /\ UNCHANGED <<sets, req, puts>>
        /\ \E l \in {"write", "answer"} : pc' = [pc EXCEPT ![w] = l]
    BY <1>5 DEF Create, Flush, FlushFails
  <2>4. /\ fd'[w].linked /\ fd'[w].off \in 0..Len(v) + 1
        /\ files' = [files EXCEPT ![t] = Prefix(v, fd'[w].off)]
        /\ \A x \in Worker : x # w => fd'[x] = fd[x]
    <3>1. CASE Create(w)
      <4>1. fd'[w] = [off |-> 0, linked |-> TRUE]
            /\ \A x \in Worker : x # w => fd'[x] = fd[x]
        BY <3>1 DEF Create, FileInv, TypeOK
      <4>2. Prefix(v, 0) = <<>>
        BY SubSeqEmpty DEF Prefix
      <4>3. files' = [files EXCEPT ![t] = <<>>]
        BY <3>1 DEF Create
      <4>4. fd'[w].linked /\ fd'[w].off = 0
        BY <4>1
      <4>5. 0 \in 0..Len(v) + 1
        BY <2>2
      <4>6. files' = [files EXCEPT ![t] = Prefix(v, fd'[w].off)]
        BY <4>2, <4>3, <4>4
      <4> QED
        BY <4>1, <4>4, <4>5, <4>6
    <3>2. CASE Flush(w) \/ FlushFails(w)
      <4>1. pc[w] = "write"
        BY <3>2 DEF Flush, FlushFails
      <4>2. Len(Rest(w)) \in Nat /\ ChunkCells \in Nat
        BY <4>1, RestType, ServerAssumption DEF FileInv
      <4>3. PICK k \in 0..Len(Rest(w)) : Transfer(w, k)
        BY <3>2, <4>1, <4>2, FlushSize DEF Flush, FlushFails, FileInv
      <4> QED
        BY <4>1, <4>3, TransferKeepsPrefix
    <3> QED
      BY <1>5, <3>1, <3>2
  <2>5. \A x \in Worker : x # w => pc'[x] = pc[x]
    BY <2>3 DEF FileInv, TypeOK
  <2>6. OneWriter'
    BY <2>1, <2>3, <2>5 DEF FileInv, OneWriter, Writing, Target
  <2>7. FilesArePrefixes'
    <3> SUFFICES ASSUME NEW n \in Name, files'[n] # NoFile
                 PROVE  \E u \in puts[n] : \E k \in 0..Len(u) + 1 :
                          files'[n] = Prefix(u, k)
      BY <2>3 DEF FilesArePrefixes, Prefix, Encode, Header
    <3>1. CASE n = t
      <4>1. files'[n] = Prefix(v, fd'[w].off)
        BY <2>4, <3>1 DEF FileInv, TypeOK
      <4> QED
        BY <2>2, <2>4, <3>1, <4>1
    <3>2. CASE n # t
      <4>1. files'[n] = files[n]
        BY <2>4, <3>2 DEF FileInv, TypeOK
      <4> QED
        BY <4>1 DEF FileInv, FilesArePrefixes
    <3> QED
      BY <3>1, <3>2
  <2>8. WriterAtPrefix'
    <3> SUFFICES ASSUME NEW x \in Worker, pc'[x] = "write"
                 PROVE  /\ fd'[x].linked
                        /\ fd'[x].off \in 0..Len(req[x].val) + 1
                        /\ files'[Target(x)] = Prefix(req[x].val, fd'[x].off)
      BY <2>3 DEF WriterAtPrefix, Target, Prefix, Encode, Header
    <3>1. CASE x = w
      <4>1. files'[t] = Prefix(v, fd'[w].off)
        BY <2>1, <2>4 DEF FileInv, TypeOK
      <4> QED
        BY <2>4, <3>1, <4>1
    <3>2. CASE x # w
      <4>1. pc[x] = "write" /\ fd'[x] = fd[x]
        BY <2>4, <2>5, <3>2
      <4>2. Target(x) \in Name /\ req[x].op = "put"
        BY <4>1, RequestFacts DEF FileInv, Control, WriteOps
      <4>3. Target(x) # t
        BY <2>1, <3>2, <4>1, <4>2 DEF FileInv, OneWriter, Writing, WriteOps
      <4>4. files'[Target(x)] = files[Target(x)]
        BY <2>4, <4>2, <4>3 DEF FileInv, TypeOK
      <4> QED
        BY <4>1, <4>4 DEF FileInv, WriterAtPrefix
    <3> QED
      BY <3>1, <3>2
  <2>9. PutIsKnown'
    BY <2>1, <2>2, <2>3, <2>5 DEF FileInv, PutIsKnown, Target
  <2>10. ServedWasPut'
    BY <2>3 DEF FileInv, ServedWasPut
  <2> QED
    BY <1>0, <2>6, <2>7, <2>8, <2>9, <2>10 DEF FileInv
<1>6. ASSUME NEW w \in Worker, Remove(w)
      PROVE  FileInv'
  <2>1. /\ pc[w] = "remove" /\ pc' = [pc EXCEPT ![w] = "answer"]
        /\ files' = [files EXCEPT ![Target(w)] = NoFile]
        /\ UNCHANGED <<sets, req, puts>>
    BY <1>6 DEF Remove
  <2>2. req[w].op = "del" /\ Target(w) \in Name
    BY <2>1, RequestFacts DEF FileInv, Control, WriteOps
  <2>3. ASSUME NEW x \in Worker, pc'[x] = "write"
        PROVE  /\ pc[x] = "write" /\ fd'[x] = fd[x]
               /\ files'[Target(x)] = files[Target(x)]
    <3>1. x # w /\ pc[x] = "write"
      BY <2>1, <2>3 DEF FileInv, TypeOK
    <3>2. Target(x) \in Name /\ req[x].op = "put"
      BY <3>1, RequestFacts DEF FileInv, Control, WriteOps
    <3>3. Target(x) # Target(w)
      BY <2>1, <2>2, <3>1, <3>2 DEF FileInv, OneWriter, Writing, WriteOps
    <3> QED
      BY <1>6, <2>1, <2>2, <3>1, <3>2, <3>3 DEF Remove, FileInv, TypeOK
  <2>4. OneWriter'
    BY <2>1 DEF FileInv, TypeOK, OneWriter, Writing, Target
  <2>5. FilesArePrefixes'
    BY <2>1 DEF FileInv, TypeOK, FilesArePrefixes, Prefix, Encode, Header
  <2>6. WriterAtPrefix'
    <3> SUFFICES ASSUME NEW x \in Worker, pc'[x] = "write"
                 PROVE  /\ fd'[x].linked
                        /\ fd'[x].off \in 0..Len(req[x].val) + 1
                        /\ files'[Target(x)] = Prefix(req[x].val, fd'[x].off)
      BY <2>1 DEF WriterAtPrefix, Target, Prefix, Encode, Header
    <3> QED
      BY <2>3 DEF FileInv, WriterAtPrefix
  <2>7. PutIsKnown' /\ ServedWasPut'
    BY <2>1 DEF FileInv, TypeOK, PutIsKnown, ServedWasPut, Target
  <2> QED
    BY <1>0, <2>4, <2>5, <2>6, <2>7 DEF FileInv
<1>7. ASSUME NEW w \in Worker, Finish(w)
      PROVE  FileInv'
  <2>1. /\ pc'[w] = "idle" /\ UNCHANGED <<sets, files, puts>>
        /\ \A x \in Worker : x # w =>
             pc'[x] = pc[x] /\ req'[x] = req[x] /\ fd'[x] = fd[x]
    BY <1>7 DEF Finish, FileInv, TypeOK
  <2>2. OneWriter'
    BY <2>1 DEF FileInv, OneWriter, Writing, Target
  <2>3. FilesArePrefixes' /\ ServedWasPut'
    BY <2>1 DEF FileInv, FilesArePrefixes, ServedWasPut, Prefix, Encode, Header
  <2>4. WriterAtPrefix'
    BY <2>1, ZenonT(30) DEF FileInv, WriterAtPrefix, Target, Prefix, Encode, Header
  <2>5. PutIsKnown'
    BY <2>1 DEF FileInv, PutIsKnown, Target
  <2> QED
    BY <1>0, <2>2, <2>3, <2>4, <2>5 DEF FileInv
<1>8. ASSUME Crash
      PROVE  FileInv'
  <2>1. /\ \A x \in Worker : pc'[x] = "idle"
        /\ \A n \in Name : sets'[n] = NoSet
        /\ UNCHANGED <<files, puts>>
    BY <1>8 DEF Crash
  <2>2. FilesArePrefixes'
    BY <2>1 DEF FileInv, FilesArePrefixes, Prefix, Encode, Header
  <2>3. OneWriter' /\ WriterAtPrefix' /\ PutIsKnown' /\ ServedWasPut'
    BY <2>1 DEF OneWriter, Writing, WriterAtPrefix, PutIsKnown, ServedWasPut
  <2> QED
    BY <1>0, <2>2, <2>3 DEF FileInv
<1>9. ASSUME Start
      PROVE  FileInv'
  <2>1. /\ \A n \in Name : sets'[n] = Loaded(n)
        /\ UNCHANGED <<files, puts, pc, req, fd>>
    BY <1>9 DEF Start
  <2>2. ASSUME NEW n \in Name, Loaded(n) # NoSet
        PROVE  Loaded(n) \in puts[n]
    <3>1. files[n] # NoFile
      BY <2>2 DEF Loaded
    <3>2. PICK v \in puts[n] : \E k \in 0..Len(v) + 1 : files[n] = Prefix(v, k)
      BY <3>1 DEF FileInv, FilesArePrefixes
    <3>3. v \in Value
      BY DEF FileInv, TypeOK
    <3> QED
      BY <2>2, <3>2, <3>3, LoadPrefix DEF FileInv
  <2>3. ServedWasPut'
    BY <2>1, <2>2 DEF ServedWasPut
  <2>4. FilesArePrefixes'
    BY <2>1 DEF FileInv, FilesArePrefixes, Prefix, Encode, Header
  <2>5. OneWriter'
    BY <2>1 DEF FileInv, OneWriter, Writing, Target
  <2>6. WriterAtPrefix'
    BY <2>1 DEF FileInv, WriterAtPrefix, Target, Prefix, Encode, Header
  <2>7. PutIsKnown'
    BY <2>1 DEF FileInv, PutIsKnown, Target
  <2> QED
    BY <1>0, <2>3, <2>4, <2>5, <2>6, <2>7 DEF FileInv
<1>10. CASE UNCHANGED vars
  <2>1. UNCHANGED <<sets, files, puts, pc, req, fd>>
    BY <1>10 DEF vars
  <2>2. FilesArePrefixes' /\ ServedWasPut'
    BY <2>1 DEF FileInv, FilesArePrefixes, ServedWasPut, Prefix, Encode, Header
  <2>3. OneWriter'
    BY <2>1 DEF FileInv, OneWriter, Writing, Target
  <2>4. WriterAtPrefix'
    BY <2>1 DEF FileInv, WriterAtPrefix, Target, Prefix, Encode, Header
  <2>5. PutIsKnown'
    BY <2>1 DEF FileInv, PutIsKnown, Target
  <2> QED
    BY <1>0, <2>2, <2>3, <2>4, <2>5 DEF FileInv
<1> QED
  BY <1>1, <1>2, <1>3, <1>4, <1>5, <1>6, <1>7, <1>8, <1>9, <1>10
     DEF Next, Acquire, Proceed

\* When clients do not overlap writes of one name, the server never serves a
\* set nobody PUT under that name: not after kills in the middle of a
\* WriteFile, nor after failed or partial writes, for any buffer size.
THEOREM ServedSetsWerePut ==
  ASSUME ~Overlap
  PROVE  Spec => []ServedWasPut
<1>1. Spec => []FileInv
  BY FileInit, FileStep, PTL DEF Spec
<1>2. FileInv => ServedWasPut
  BY DEF FileInv
<1> QED
  BY <1>1, <1>2, PTL

-----------------------------------------------------------------------------
(* What a restart brings back *)

LEMMA DiskInit == Init => DiskInv
<1> SUFFICES ASSUME Init PROVE DiskInv
  OBVIOUS
<1>1. DiskFollowsMemory /\ InFlightStored /\ NothingToForget /\ DownIsIdle
  BY DEF Init, DiskFollowsMemory, InFlight, InFlightStored, NothingToForget, DownIsIdle
<1> QED
  BY <1>1, FileInit DEF DiskInv

LEMMA LoadedSame ==
  ASSUME NEW n \in Name, files'[n] = files[n]
  PROVE  Loaded(n)' = Loaded(n)
BY DEF Loaded, ReadFile, StrictlyIncreasing

\* A step that starts and ends no write and touches neither map nor files.
LEMMA QuietDiskStep ==
  ASSUME DiskInv, FileInv', up', up' = up,
         UNCHANGED <<sets, files, adrift>>,
         \A x \in Worker : \A n \in Name : InFlight(x, n)' <=> InFlight(x, n),
         \A x \in Worker : pc'[x] \in {"unlock", "create", "write", "remove"} =>
           req'[x] = req[x],
         \A x \in Worker : pc'[x] = "unlock" /\ req'[x].op = "del" =>
           pc[x] = "unlock" /\ got'[x] = got[x]
  PROVE  DiskInv'
<1>1. \A n \in Name : Loaded(n)' = Loaded(n)
  BY LoadedSame
<1>2. DiskFollowsMemory'
  BY <1>1 DEF DiskInv, DiskFollowsMemory
<1>3. InFlightStored'
  <2> SUFFICES ASSUME NEW x \in Worker, NEW n \in Name, InFlight(x, n)'
               PROVE  sets'[n] = IF req'[x].op = "put" THEN req'[x].val ELSE NoSet
    BY DEF InFlightStored
  <2>1. InFlight(x, n) /\ req'[x] = req[x]
    BY DEF InFlight
  <2> QED
    BY <2>1 DEF DiskInv, InFlightStored
<1>4. NothingToForget'
  <2> SUFFICES ASSUME NEW x \in Worker, pc'[x] = "unlock", req'[x].op = "del",
                      got'[x] = <<NoSet>>, Target(x)' \notin adrift'
               PROVE  Loaded(Target(x))' = NoSet
    BY DEF NothingToForget
  <2>1. pc[x] = "unlock" /\ req'[x] = req[x] /\ got[x] = <<NoSet>>
        /\ Target(x) \notin adrift
    BY DEF Target
  <2>2. Loaded(Target(x)) = NoSet /\ Target(x)' = Target(x)
    BY <2>1 DEF DiskInv, NothingToForget, Target
  <2>3. Target(x) \in Name
    BY <2>1, RequestFacts DEF DiskInv, FileInv, WriteOps
  <2>4. Loaded(Target(x))' = Loaded(Target(x))
    BY <2>2, <2>3 DEF Loaded, ReadFile, StrictlyIncreasing
  <2> QED
    BY <2>2, <2>4
<1>5. DownIsIdle'
  BY DEF DownIsIdle
<1> QED
  BY <1>2, <1>3, <1>4, <1>5 DEF DiskInv

\* A step of a write: it touches one name, which no other write is about.
LEMMA WriteDiskStep ==
  ASSUME DiskInv, FileInv', up', NEW w \in Worker, pc[w] # "idle",
         req[w].op \in WriteOps, UNCHANGED req,
         \A x \in Worker : x # w => pc'[x] = pc[x] /\ got'[x] = got[x],
         \A n \in Name : n # Target(w) => sets'[n] = sets[n] /\ files'[n] = files[n],
         up' = up, adrift' \ {Target(w)} = adrift \ {Target(w)},
         InFlight(w, Target(w))' =>
           sets'[Target(w)] = IF req[w].op = "put" THEN req[w].val ELSE NoSet,
         ~InFlight(w, Target(w))' /\ Target(w) \notin adrift' =>
           Loaded(Target(w))' = sets'[Target(w)],
         pc'[w] = "unlock" /\ req[w].op = "del" /\ got'[w] = <<NoSet>>
             /\ Target(w) \notin adrift' =>
           Loaded(Target(w))' = NoSet
  PROVE  DiskInv'
<1> DEFINE t == Target(w)
<1>1. t \in Name
  BY RequestFacts DEF DiskInv, FileInv
<1>2. \A x \in Worker : Target(x)' = Target(x)
  BY DEF Target
<1>3. \A x \in Worker : \A n \in Name : x # w => (InFlight(x, n)' <=> InFlight(x, n))
  BY DEF InFlight, Target
<1>4. \A n \in Name : n # t => ~InFlight(w, n)' /\ ~InFlight(w, n)
  BY DEF InFlight, Target
<1>5. \A x \in Worker : x # w => ~InFlight(x, t)
  BY <1>1 DEF DiskInv, FileInv, OneWriter, Writing, InFlight
<1>6. \A n \in Name : n # t => Loaded(n)' = Loaded(n)
  BY LoadedSame
<1>7. DiskFollowsMemory'
  <2> SUFFICES ASSUME NEW n \in Name, n \notin adrift', \A x \in Worker : ~InFlight(x, n)'
               PROVE  Loaded(n)' = sets'[n]
    BY DEF DiskFollowsMemory
  <2>1. CASE n = t
    <3>1. ~InFlight(w, Target(w))'
      BY <1>1, <1>2, <2>1 DEF InFlight
    <3> QED
      BY <1>2, <2>1, <3>1 DEF Loaded
  <2>2. CASE n # t
    <3>1. n \notin adrift /\ \A x \in Worker : ~InFlight(x, n)
      BY <1>3, <1>4, <2>2
    <3> QED
      BY <1>6, <2>2, <3>1 DEF DiskInv, DiskFollowsMemory
  <2> QED
    BY <2>1, <2>2
<1>8. InFlightStored'
  <2> SUFFICES ASSUME NEW x \in Worker, NEW n \in Name, InFlight(x, n)'
               PROVE  sets'[n] = IF req[x].op = "put" THEN req[x].val ELSE NoSet
    BY DEF InFlightStored
  <2>1. CASE x = w
    <3>1. n = t
      BY <1>4, <2>1
    <3>2. InFlight(w, Target(w))'
      BY <1>2, <2>1, <3>1 DEF InFlight
    <3> QED
      BY <2>1, <3>1, <3>2
  <2>2. CASE x # w
    <3>1. InFlight(x, n) /\ n # t
      BY <1>3, <1>5, <2>2
    <3> QED
      BY <3>1 DEF DiskInv, InFlightStored
  <2> QED
    BY <2>1, <2>2
<1>9. NothingToForget'
  <2> SUFFICES ASSUME NEW x \in Worker, pc'[x] = "unlock", req[x].op = "del",
                      got'[x] = <<NoSet>>, Target(x) \notin adrift'
               PROVE  Loaded(Target(x))' = NoSet
    BY <1>2 DEF NothingToForget
  <2>1. CASE x = w
    BY <2>1
  <2>2. CASE x # w
    <3>1. pc[x] = "unlock" /\ got[x] = <<NoSet>>
      BY <2>2
    <3>2. Target(x) \in Name
      BY <3>1, RequestFacts DEF DiskInv, FileInv, WriteOps
    <3>3. Target(x) # t
      BY <1>5, <2>2, <3>1, <3>2 DEF InFlight, WriteOps
    <3>4. Loaded(Target(x)) = NoSet
      <4>1. Target(x) \notin adrift
        BY <3>3
      <4> QED
        BY <3>1, <4>1 DEF DiskInv, NothingToForget
    <3>5. files'[Target(x)] = files[Target(x)]
      BY <3>2, <3>3
    <3>6. Loaded(Target(x))' = Loaded(Target(x))
      BY <1>2, <3>5 DEF Loaded, ReadFile, StrictlyIncreasing
    <3> QED
      BY <3>4, <3>6
  <2> QED
    BY <2>1, <2>2
<1>10. DownIsIdle'
  BY DEF DownIsIdle
<1> QED
  BY <1>7, <1>8, <1>9, <1>10 DEF DiskInv

\* With a data directory and no overlapping writes of one name, every step, kills
\* and failed writes included, keeps DiskInv.
LEMMA DiskStep ==
  ASSUME ~Overlap, Persistent, DiskInv, [Next]_vars
  PROVE  DiskInv'
<1>0. FileInv' /\ TypeOK /\ Control /\ TypeOK'
  BY FileStep DEF DiskInv, FileInv
<1>a. \A w \in Worker : pc[w] # "idle" => up
  BY DEF DiskInv, DownIsIdle
<1> USE DEF Goto, lock, disk
<1>1. ASSUME NEW w \in Worker, NEW r \in Request, Receive(w, r)
      PROVE  DiskInv'
  <2>1. /\ up /\ up' = up /\ UNCHANGED <<sets, files, got, adrift>>
        /\ pc[w] = "idle" /\ pc'[w] = "received"
        /\ \A x \in Worker : x # w => pc'[x] = pc[x] /\ req'[x] = req[x]
    BY <1>0, <1>1 DEF Receive, TypeOK
  <2>2. \A x \in Worker : \A n \in Name : InFlight(x, n)' <=> InFlight(x, n)
    BY <2>1 DEF InFlight, Target
  <2>3. \A x \in Worker : pc'[x] \in {"unlock", "create", "write", "remove"} => x # w
    BY <2>1
  <2> QED
    BY <1>0, <2>1, <2>2, <2>3, QuietDiskStep
<1>2. ASSUME NEW w \in Worker,
             Refuse(w) \/ ReadLock(w) \/ ReadNext(w) \/ ReadNames(w) \/ Answer(w)
      PROVE  DiskInv'
  <2>1. /\ pc[w] \in {"received", "read", "answer"} /\ UNCHANGED <<up, sets, files, req, adrift>>
        /\ \E l \in {"read", "unlock", "answer", "replied"} : pc' = [pc EXCEPT ![w] = l]
        /\ \A x \in Worker : x # w => got'[x] = got[x]
    BY <1>0, <1>2 DEF Refuse, ReadLock, ReadNext, ReadNames, Answer, TypeOK
  <2>2. pc'[w] = "unlock" => req[w].op \notin WriteOps
    BY <1>0, <1>2 DEF Refuse, ReadLock, ReadNext, ReadNames, Answer, TypeOK, Control
  <2>3. \A x \in Worker : x # w => pc'[x] = pc[x]
    BY <1>0, <2>1 DEF TypeOK
  <2>4. pc'[w] \in {"read", "unlock", "answer", "replied"}
    BY <1>0, <2>1 DEF TypeOK
  <2>5. \A x \in Worker : \A n \in Name : InFlight(x, n)' <=> InFlight(x, n)
    BY <2>1, <2>2, <2>3, <2>4 DEF InFlight, Target
  <2>6. \A x \in Worker : pc'[x] = "unlock" /\ req'[x].op = "del" => x # w
    BY <2>1, <2>2 DEF WriteOps
  <2>7. up /\ up'
    BY <1>a, <2>1
  <2> QED
    BY <1>0, <2>1, <2>3, <2>5, <2>6, <2>7, QuietDiskStep
<1>3. ASSUME NEW w \in Worker, Finish(w)
      PROVE  DiskInv'
  <2>1. /\ pc[w] = "replied" /\ pc'[w] = "idle" /\ UNCHANGED <<up, sets, files, adrift>>
        /\ \A x \in Worker : x # w =>
             pc'[x] = pc[x] /\ req'[x] = req[x] /\ got'[x] = got[x]
    BY <1>0, <1>3 DEF Finish, TypeOK
  <2>2. \A x \in Worker : \A n \in Name : InFlight(x, n)' <=> InFlight(x, n)
    BY <2>1 DEF InFlight, Target
  <2>3. \A x \in Worker : pc'[x] \in {"unlock", "create", "write", "remove"} => x # w
    BY <2>1
  <2>4. up /\ up'
    BY <1>a, <2>1
  <2> QED
    BY <1>0, <2>1, <2>2, <2>3, <2>4, QuietDiskStep
<1>4. ASSUME NEW w \in Worker, Unlock(w), req[w].op \notin WriteOps
      PROVE  DiskInv'
  <2>1. /\ pc[w] = "unlock" /\ pc' = [pc EXCEPT ![w] = "answer"]
        /\ UNCHANGED <<up, sets, files, req, got, adrift>>
    BY <1>4 DEF Unlock, AfterUnlock, WriteOps
  <2>2. pc'[w] = "answer" /\ \A x \in Worker : x # w => pc'[x] = pc[x]
    BY <1>0, <2>1 DEF TypeOK
  <2>3. \A x \in Worker : \A n \in Name : InFlight(x, n)' <=> InFlight(x, n)
    BY <1>4, <2>1, <2>2 DEF InFlight, Target
  <2>4. up /\ up'
    BY <1>a, <2>1
  <2> QED
    BY <1>0, <2>1, <2>2, <2>3, <2>4, QuietDiskStep
<1>5. ASSUME NEW w \in Worker, Unlock(w), req[w].op \in WriteOps
      PROVE  DiskInv'
  <2> DEFINE t == Target(w)
  <2>1. /\ pc[w] = "unlock" /\ UNCHANGED <<up, sets, files, req, got, adrift>>
        /\ pc' = [pc EXCEPT ![w] = AfterUnlock(w)]
    BY <1>5 DEF Unlock
  <2>2. pc'[w] = AfterUnlock(w) /\ \A x \in Worker : x # w => pc'[x] = pc[x]
    BY <1>0, <2>1 DEF TypeOK
  <2>3. t \in Name /\ up /\ up' /\ t' = t
    BY <1>0, <1>5, <1>a, <2>1, RequestFacts DEF Target
  <2>4. InFlight(w, t)
    BY <1>5, <2>1 DEF InFlight
  <2>5. sets'[t] = IF req[w].op = "put" THEN req[w].val ELSE NoSet
    BY <2>1, <2>3, <2>4 DEF DiskInv, InFlightStored
  <2>6. ASSUME ~InFlight(w, Target(w))', t \notin adrift' PROVE Loaded(t)' = sets'[t]
    <3>1. req[w].op = "del" /\ got[w] = <<NoSet>>
      BY <1>5, <2>1, <2>2, <2>6 DEF InFlight, AfterUnlock, WriteOps, Target
    <3>2. Loaded(t) = NoSet
      BY <2>1, <2>6, <3>1 DEF DiskInv, NothingToForget
    <3>3. Loaded(t)' = Loaded(t)
      BY <2>1, <2>3 DEF Loaded, ReadFile, StrictlyIncreasing
    <3> QED
      BY <2>5, <3>1, <3>2, <3>3
  <2>7. pc'[w] # "unlock"
    BY <2>2 DEF AfterUnlock
  <2> HIDE DEF t
  <2> QED
    BY <1>0, <1>5, <2>1, <2>2, <2>3, <2>5, <2>6, <2>7, WriteDiskStep DEF t
<1>6. ASSUME NEW w \in Worker, PutStore(w) \/ DelStore(w)
      PROVE  DiskInv'
  <2> DEFINE t == Target(w)
  <2>1. /\ pc[w] = "received" /\ pc' = [pc EXCEPT ![w] = "unlock"]
        /\ UNCHANGED <<up, files, req, adrift>> /\ req[w].op \in WriteOps
        /\ sets' = [sets EXCEPT ![t] = IF req[w].op = "put" THEN req[w].val ELSE NoSet]
    BY <1>6 DEF PutStore, DelStore, WriteOps
  <2>2. /\ pc'[w] = "unlock" /\ t \in Name /\ up /\ up' /\ t' = t
        /\ \A x \in Worker : x # w => pc'[x] = pc[x]
    BY <1>0, <1>a, <2>1, RequestFacts DEF TypeOK, Target
  <2>3. /\ sets'[t] = IF req[w].op = "put" THEN req[w].val ELSE NoSet
        /\ \A n \in Name : n # t => sets'[n] = sets[n]
    BY <1>0, <2>1, <2>2 DEF TypeOK
  <2>4. InFlight(w, Target(w))'
    BY <2>1, <2>2 DEF InFlight, Target
  <2>5. \A x \in Worker : ~InFlight(x, t)
    BY <1>0, <2>1, <2>2 DEF FileInv, DiskInv, OneWriter, Writing, InFlight
  <2>6. t \notin adrift => Loaded(t) = sets[t]
    BY <2>2, <2>5 DEF DiskInv, DiskFollowsMemory
  <2>7. req[w].op = "del" => got'[w] = <<sets[t]>>
    BY <1>0, <1>6 DEF PutStore, DelStore, TypeOK
  <2>8. \A x \in Worker : x # w => got'[x] = got[x]
    BY <1>0, <1>6 DEF PutStore, DelStore, TypeOK
  <2>9. ASSUME req[w].op = "del", got'[w] = <<NoSet>>, t \notin adrift'
        PROVE  Loaded(t)' = NoSet
    <3>0. Loaded(t) = sets[t]
      BY <2>1, <2>6, <2>9
    <3>1. sets[t] = NoSet
      BY <2>7, <2>9
    <3>2. Loaded(t)' = Loaded(t)
      BY <2>1, <2>2 DEF Loaded, ReadFile, StrictlyIncreasing
    <3> QED
      BY <3>0, <3>1, <3>2
  <2> HIDE DEF t
  <2> QED
    BY <1>0, <2>1, <2>2, <2>3, <2>4, <2>8, <2>9, WriteDiskStep DEF t
<1>7. ASSUME NEW w \in Worker, Create(w) \/ Flush(w)
      PROVE  DiskInv'
  <2> DEFINE t == Target(w)
             v == req[w].val
  <2>1. /\ pc[w] \in {"create", "write"} /\ UNCHANGED <<up, sets, req, got>>
        /\ \E l \in {"write", "answer"} : pc' = [pc EXCEPT ![w] = l]
        /\ adrift' \ {t} = adrift \ {t}
    BY <1>7 DEF Create, Flush
  <2>2. /\ req[w].op = "put" /\ t \in Name /\ up /\ up' /\ t' = t
        /\ v \in Value /\ v \in Seq(Nat) /\ Len(v) \in Nat
        /\ \A x \in Worker : x # w => pc'[x] = pc[x]
    BY <1>0, <1>a, <2>1, RequestFacts, LenProperties DEF Control, TypeOK, WriteOps, Target
  <2>3. sets'[t] = v
    BY <2>1, <2>2 DEF DiskInv, InFlightStored, InFlight, WriteOps
  <2>4. \A n \in Name : n # t => files'[n] = files[n]
    BY <1>0, <1>7 DEF Create, Flush, Transfer, TypeOK
  <2>5. ASSUME ~InFlight(w, Target(w))' PROVE Loaded(t)' = v
    <3>1. pc'[w] = "answer"
      BY <1>0, <2>1, <2>2, <2>5 DEF InFlight, WriteOps, Target, TypeOK
    <3>2. Flush(w) /\ pc[w] = "write"
      BY <1>0, <1>7, <3>1 DEF Create, Flush, TypeOK
    <3>3. Transfer(w, Len(Rest(w)))
      BY <1>0, <3>1, <3>2 DEF Flush, TypeOK
    <3>4. Len(Rest(w)) \in 0..Len(Rest(w))
      BY <1>0, <3>2, RestType
    <3>5. files' = [files EXCEPT ![t] = Prefix(v, Len(v) + 1)]
      BY <3>2, <3>3, <3>4, TransferKeepsPrefix DEF DiskInv
    <3>6. files'[t] = Prefix(v, Len(v) + 1)
      BY <1>0, <2>2, <3>5 DEF TypeOK
    <3>7. /\ Prefix(v, Len(v) + 1) \in Seq(Nat)
          /\ ReadFile(Prefix(v, Len(v) + 1)) = v
      BY <2>2, PrefixCells, ReadPrefix, ServerAssumption
    <3>8. Loaded(t)' = IF files'[t] # NoFile THEN ReadFile(files'[t]) ELSE NoSet
      BY <2>2 DEF Loaded, ReadFile, StrictlyIncreasing
    <3> QED
      BY <3>6, <3>7, <3>8, ServerAssumption
  <2>6. pc'[w] # "unlock"
    BY <1>0, <2>1 DEF TypeOK
  <2> HIDE DEF t
  <2> QED
    BY <1>0, <2>1, <2>2, <2>3, <2>4, <2>5, <2>6, WriteDiskStep DEF t, WriteOps
<1>8. ASSUME NEW w \in Worker, Remove(w)
      PROVE  DiskInv'
  <2> DEFINE t == Target(w)
  <2>1. /\ pc[w] = "remove" /\ UNCHANGED <<up, sets, req, got>>
        /\ pc' = [pc EXCEPT ![w] = "answer"]
        /\ files' = [files EXCEPT ![t] = NoFile]
        /\ adrift' \ {t} = adrift \ {t}
    BY <1>8 DEF Remove
  <2>2. /\ req[w].op = "del" /\ t \in Name /\ up /\ up' /\ t' = t
        /\ pc'[w] = "answer" /\ \A x \in Worker : x # w => pc'[x] = pc[x]
    BY <1>0, <1>a, <2>1, RequestFacts DEF Control, TypeOK, WriteOps, Target
  <2>3. sets'[t] = NoSet
    BY <2>1, <2>2 DEF DiskInv, InFlightStored, InFlight, WriteOps
  <2>4. files'[t] = NoFile /\ \A n \in Name : n # t => files'[n] = files[n]
    BY <1>0, <2>1, <2>2 DEF TypeOK
  <2>5. Loaded(t)' = NoSet
    BY <2>2, <2>4 DEF Loaded
  <2> HIDE DEF t
  <2> QED
    BY <1>0, <2>1, <2>2, <2>3, <2>4, <2>5, WriteDiskStep DEF t, WriteOps
<1>9. ASSUME Crash
      PROVE  DiskInv'
  <2>1. ~up' /\ \A x \in Worker : pc'[x] = "idle"
    BY <1>9 DEF Crash
  <2>2. DiskFollowsMemory' /\ InFlightStored' /\ NothingToForget' /\ DownIsIdle'
    BY <2>1 DEF DiskFollowsMemory, InFlight, InFlightStored, NothingToForget, DownIsIdle
  <2> QED
    BY <1>0, <2>2 DEF DiskInv
<1>10. ASSUME Start
      PROVE  DiskInv'
  <2>1. /\ ~up /\ up' /\ UNCHANGED <<files, pc>>
        /\ \A n \in Name : sets'[n] = Loaded(n)
    BY <1>10 DEF Start
  <2>2. \A x \in Worker : pc'[x] = "idle"
    BY <2>1 DEF DiskInv, DownIsIdle
  <2>3. \A n \in Name : Loaded(n)' = Loaded(n)
    BY <2>1, LoadedSame
  <2>4. DiskFollowsMemory' /\ InFlightStored' /\ NothingToForget' /\ DownIsIdle'
    BY <2>1, <2>2, <2>3
       DEF DiskFollowsMemory, InFlight, InFlightStored, NothingToForget, DownIsIdle
  <2> QED
    BY <1>0, <2>4 DEF DiskInv
<1>11. CASE UNCHANGED vars
  <2>1. \A n \in Name : Loaded(n)' = Loaded(n)
    BY <1>11, LoadedSame DEF vars
  <2>2. DiskFollowsMemory'
    BY <1>11, <2>1 DEF vars, DiskInv, DiskFollowsMemory, InFlight, Target
  <2>3. InFlightStored' /\ DownIsIdle'
    BY <1>11 DEF vars, DiskInv, InFlightStored, DownIsIdle, InFlight, Target
  <2>4. NothingToForget'
    BY <1>11 DEF vars, DiskInv, NothingToForget, Target, Loaded, ReadFile, StrictlyIncreasing
  <2> QED
    BY <1>0, <2>2, <2>3, <2>4 DEF DiskInv
<1>12. ASSUME NEW w \in Worker, CreateFails(w) \/ FlushFails(w) \/ RemoveFails(w)
       PROVE  DiskInv'
  <2> DEFINE t == Target(w)
  <2>1. /\ pc[w] \in {"create", "write", "remove"} /\ UNCHANGED <<up, sets, req, got>>
        /\ pc' = [pc EXCEPT ![w] = "answer"]
        /\ adrift' = adrift \cup {t}
    BY <1>12 DEF CreateFails, FlushFails, RemoveFails
  <2>2. /\ req[w].op \in WriteOps /\ t \in Name /\ up /\ up' /\ t' = t
        /\ pc'[w] = "answer" /\ \A x \in Worker : x # w => pc'[x] = pc[x]
    BY <1>0, <1>a, <2>1, RequestFacts DEF Control, TypeOK, WriteOps, Target
  <2>3. \A n \in Name : n # t => files'[n] = files[n]
    BY <1>0, <1>12 DEF CreateFails, FlushFails, RemoveFails, Transfer, TypeOK
  <2>4. ~InFlight(w, Target(w))'
    BY <2>2 DEF InFlight
  <2> HIDE DEF t
  <2> QED
    BY <1>0, <2>1, <2>2, <2>3, <2>4, WriteDiskStep DEF t
<1> QED
  BY <1>1, <1>2, <1>3, <1>4, <1>5, <1>6, <1>7, <1>8, <1>9, <1>10, <1>11, <1>12
     DEF Next, Acquire, Proceed

\* When clients do not overlap writes of one name, a kill at any moment loses no
\* name that no write is in flight for, except one whose last write of the file
\* failed: the restart finds on disk what the map held, DELETEs included.
THEOREM RestartKeepsSettledSets ==
  ASSUME ~Overlap, Persistent
  PROVE  Spec => []DiskFollowsMemory
<1>1. Spec => []DiskInv
  BY DiskInit, DiskStep, PTL DEF Spec
<1>2. DiskInv => DiskFollowsMemory
  BY DEF DiskInv
<1> QED
  BY <1>1, <1>2, PTL

-----------------------------------------------------------------------------
(* Answers *)

\* The store counts as FiniteSets does.
LEMMA StoreCounts ==
  ASSUME NEW S PROVE Store!Cardinality(S) = Cardinality(S)
BY DEF Store!Cardinality, Cardinality

\* A request that is refused is refused by the store as well.
LEMMA AnswerRefused ==
  ASSUME NEW r \in Request, NEW g, Malformed(r)
  PROVE  AnswerTo(r, g) = Store!Answer(r)
BY DEF AnswerTo, Malformed, QueryOps, Reply, Store!Answer, Store!Reply

\* A PUT is answered with the number of ids of its body.
LEMMA AnswerPut ==
  ASSUME NEW r \in Request, r.op = "put"
  PROVE  AnswerTo(r, <<r.val>>) = Store!Answer(r)
<1>1. r.val \in Seq(Nat) /\ StrictlyIncreasing(r.val)
  BY ServerAssumption
<1>2. Ascending(r.val)
  BY <1>1, NeighboursAscend DEF StrictlyIncreasing
<1>3. Elems(r.val) = {r.val[i] : i \in 1..Len(r.val)}
  BY <1>1, ElemsFacts
<1>4. Len(r.val) = Cardinality({r.val[i] : i \in 1..Len(r.val)})
  BY <1>1, <1>2, <1>3, CountAscending
<1>5. ~Malformed(r)
  BY DEF Malformed, QueryOps
<1>6. AnswerTo(r, <<r.val>>) = Reply(201, Len(r.val), {})
  BY <1>5 DEF AnswerTo
<1>7. Store!Answer(r) = Reply(201, Cardinality({r.val[i] : i \in 1..Len(r.val)}), {})
  BY StoreCounts DEF Reply, Store!Answer, Store!Reply
<1> QED
  BY <1>4, <1>6, <1>7

\* Every set of the map is ascending, and its ids are of a body or 0.
SetsAscend ==
  \A n \in Name : sets[n] # NoSet => Ascending(sets[n]) /\ Elems(sets[n]) \subseteq Ids

\* What a lookup loop has in hand when it ends: the sets of the names up to the
\* first one that is missing.
Copied(r, g) ==
  /\ g \in Seq(Seq(Nat) \cup {NoSet})
  /\ Len(g) \in 1..Len(r.names)
  /\ \A i \in 1..Len(g) : g[i] = sets[r.names[i]]
  /\ g[Len(g)] = NoSet \/ Len(g) = Len(r.names)

\* A name is in the store when it is in the map.
LEMMA ContentsFacts ==
  ASSUME TypeOK, SetsAscend, NEW n \in Name
  PROVE  /\ Contents[n] = NoSet <=> sets[n] = NoSet
         /\ sets[n] # NoSet =>
              /\ Contents[n] = Elems(sets[n]) /\ sets[n] \in AscendingSeqs
              /\ Cardinality(Contents[n]) = Len(sets[n])
<1>1. sets[n] \in Seq(Nat) \cup {NoSet}
  BY DEF TypeOK, Cells
<1>2. CASE sets[n] = NoSet
  BY <1>2 DEF Contents
<1>3. CASE sets[n] # NoSet
  <2>1. sets[n] \in AscendingSeqs /\ Elems(sets[n]) \in SUBSET Ids
    BY <1>1, <1>3 DEF SetsAscend, AscendingSeqs
  <2>2. Contents[n] = Elems(sets[n])
    BY <1>3 DEF Contents
  <2>3. Elems(sets[n]) # NoSet
    BY <2>1, ServerAssumption
  <2>4. Cardinality(Elems(sets[n])) = Len(sets[n])
    BY <2>1, CountAscending DEF AscendingSeqs
  <2> QED
    BY <1>3, <2>1, <2>2, <2>3, <2>4
<1> QED
  BY <1>2, <1>3

\* A DELETE is told whether the name was there.
LEMMA AnswerDel ==
  ASSUME TypeOK, SetsAscend, NEW r \in Request, r.op = "del"
  PROVE  AnswerTo(r, <<sets[r.names[1]]>>) = Store!Answer(r)
<1> DEFINE n == r.names[1]
           g == <<sets[n]>>
<1>1. Len(r.names) = 1 /\ n \in Name
  <2>1. Len(r.names) = 1 /\ r.names \in Seq(Name)
    BY ServerAssumption DEF WriteOps
  <2> QED
    BY <2>1, ElementOfSeq
<1>2. Elems(g) = {sets[n]}
  BY DEF Elems
<1>3. Store!Missing(r) = {m \in {n} : Contents[m] = NoSet}
  <2>1. {r.names[i] : i \in 1..Len(r.names)} = {n}
    BY <1>1
  <2> QED
    BY <2>1 DEF Store!Missing
<1>4. NoSet \in Elems(g) <=> Store!Missing(r) # {}
  BY <1>1, <1>2, <1>3, ContentsFacts
<1>5. ~Malformed(r)
  BY DEF Malformed, QueryOps
<1> HIDE DEF g, n
<1>6. AnswerTo(r, g) = IF NoSet \in Elems(g) THEN Reply(404, 0, {}) ELSE Reply(200, 0, {})
  BY <1>5 DEF AnswerTo
<1>7. Store!Answer(r) = IF Store!Missing(r) # {} THEN Reply(404, 0, {}) ELSE Reply(200, 0, {})
  BY DEF Reply, Store!Answer, Store!Reply
<1> QED
  BY <1>4, <1>6, <1>7 DEF g, n

\* A loop that ends early has seen a name that is not in the store, and one that
\* does not end early has seen every name there.
LEMMA CopiedMisses ==
  ASSUME TypeOK, SetsAscend, NEW r \in Request, NEW g, Copied(r, g)
  PROVE  /\ NoSet \in Elems(g) <=> Store!Missing(r) # {}
         /\ NoSet \notin Elems(g) => Len(g) = Len(r.names) /\ g \in Seq(AscendingSeqs)
<1>1. /\ Len(g) \in Nat /\ DOMAIN g = 1..Len(g) /\ Len(g) >= 1 /\ Len(g) <= Len(r.names)
      /\ Len(r.names) \in Nat /\ \A i \in 1..Len(r.names) : r.names[i] \in Name
  <2>1. r.names \in Seq(Name)
    BY ServerAssumption
  <2> QED
    BY <2>1, LenProperties, ElementOfSeq DEF Copied
<1>2. Elems(g) = {g[i] : i \in 1..Len(g)}
  BY <1>1 DEF Elems
<1>3. \A i \in 1..Len(g) : g[i] = sets[r.names[i]] /\ i \in 1..Len(r.names)
  BY <1>1 DEF Copied
<1>4. ASSUME NoSet \in Elems(g) PROVE Store!Missing(r) # {}
  <2>1. PICK i \in 1..Len(g) : g[i] = NoSet
    BY <1>2, <1>4
  <2>2. r.names[i] \in Name /\ Contents[r.names[i]] = NoSet
    BY <1>1, <1>3, <2>1, ContentsFacts
  <2>3. r.names[i] \in {r.names[j] : j \in 1..Len(r.names)}
    BY <1>3
  <2> QED
    BY <2>2, <2>3 DEF Store!Missing
<1>5. ASSUME NoSet \notin Elems(g)
      PROVE  Len(g) = Len(r.names) /\ \A i \in 1..Len(g) : g[i] \in AscendingSeqs
  <2>1. \A i \in 1..Len(g) : g[i] # NoSet
    BY <1>2, <1>5
  <2>2. Len(g) = Len(r.names)
    BY <1>1, <2>1 DEF Copied
  <2> QED
    BY <1>1, <1>3, <2>1, <2>2, ContentsFacts
<1>6. ASSUME NoSet \notin Elems(g) PROVE Store!Missing(r) = {}
  <2> SUFFICES ASSUME NEW i \in 1..Len(r.names) PROVE Contents[r.names[i]] # NoSet
    BY DEF Store!Missing
  <2>1. g[i] = sets[r.names[i]] /\ g[i] # NoSet
    BY <1>2, <1>3, <1>5, <1>6
  <2> QED
    BY <1>1, <2>1, ContentsFacts
<1>7. ASSUME NoSet \notin Elems(g) PROVE g \in Seq(AscendingSeqs)
  BY <1>1, <1>5, <1>7, SeqDef DEF Copied
<1> QED
  BY <1>4, <1>5, <1>6, <1>7

\* A query is answered with set theory on the store at the instant its last name
\* was looked up.
LEMMA AnswerRead ==
  ASSUME TypeOK, SetsAscend, NEW r \in Request, ~Malformed(r),
         r.op \in {"has", "info"} \cup QueryOps, NEW g, Copied(r, g)
  PROVE  AnswerTo(r, g) = Store!Answer(r)
<1>1. /\ r.op \notin {"put", "list", "bad", "del"}
      /\ ~(r.op = "bad" \/ (r.op \in {"intersect", "union"} /\ Len(r.names) < 2))
  BY DEF Malformed, QueryOps
<1>2. CASE NoSet \in Elems(g)
  <2>1. Store!Missing(r) # {}
    BY <1>2, CopiedMisses
  <2>2. Store!Answer(r) = Reply(404, 0, {})
    BY <1>1, <2>1 DEF Reply, Store!Answer, Store!Reply
  <2>3. AnswerTo(r, g) = Reply(404, 0, {})
    BY <1>1, <1>2 DEF AnswerTo
  <2> QED
    BY <2>2, <2>3
<1>3. CASE NoSet \notin Elems(g)
  <2> DEFINE parts == {Contents[r.names[i]] : i \in 1..Len(r.names)}
             all == {x \in UNION parts : \A p \in parts : x \in p}
  <2>1. Store!Missing(r) = {} /\ Len(g) = Len(r.names) /\ g \in Seq(AscendingSeqs) /\ g # <<>>
    <3>1. Len(g) # 0
      BY DEF Copied
    <3> QED
      BY <1>3, <3>1, CopiedMisses, EmptySeq
  <2>2. \A i \in 1..Len(g) : /\ r.names[i] \in Name /\ g[i] = sets[r.names[i]]
                             /\ g[i] \in AscendingSeqs /\ g[i] # NoSet
                             /\ Contents[r.names[i]] = Elems(g[i])
                             /\ Cardinality(Contents[r.names[i]]) = Len(g[i])
    <3> TAKE i \in 1..Len(g)
    <3>1. r.names \in Seq(Name) /\ i \in 1..Len(r.names)
      BY <2>1, ServerAssumption
    <3>2. r.names[i] \in Name /\ g[i] \in AscendingSeqs /\ g[i] = sets[r.names[i]]
      BY <2>1, <3>1, ElementOfSeq DEF Copied
    <3>3. g[i] # NoSet
      BY <3>2, ServerAssumption DEF AscendingSeqs
    <3> QED
      BY <3>2, <3>3, ContentsFacts
  <2>3. parts = {Elems(g[i]) : i \in 1..Len(g)}
    BY <2>1, <2>2
  <2>4. CASE r.op \in {"has", "info"}
    <3>1. Len(g) = 1
      BY <2>1, <2>4, ServerAssumption
    <3>2. 1 \in 1..Len(g) /\ g[1] \in Seq(Nat) /\ Ascending(g[1]) /\ r.id \in Int
      BY <2>2, <3>1, ServerAssumption DEF AscendingSeqs
    <3>3. CASE r.op = "has"
      <4>1. ContainsSorted(g[1], r.id) <=> r.id \in Elems(g[1])
        BY <3>2, AscendingIsSorted, ContainsIsMembership
      <4>2. Contents[r.names[1]] = Elems(g[1])
        BY <2>2, <3>2
      <4>3. AnswerTo(r, g) = Reply(200, 0, IF ContainsSorted(g[1], r.id) THEN {r.id} ELSE {})
        BY <1>1, <1>3, <3>3 DEF AnswerTo
      <4>4. Store!Answer(r) = Reply(200, 0, {r.id} \cap Contents[r.names[1]])
        BY <1>1, <2>1, <3>3 DEF Reply, Store!Answer, Store!Reply
      <4>5. {r.id} \cap Contents[r.names[1]] = IF ContainsSorted(g[1], r.id) THEN {r.id} ELSE {}
        BY <4>1, <4>2
      <4> QED
        BY <4>3, <4>4, <4>5
    <3>4. CASE r.op = "info"
      <4>1. Store!Cardinality(Contents[r.names[1]]) = Len(g[1])
        BY <2>2, <3>2, StoreCounts
      <4>2. AnswerTo(r, g) = Reply(200, Len(g[1]), {})
        BY <1>1, <1>3, <3>4 DEF AnswerTo
      <4>3. Store!Answer(r) = Reply(200, Store!Cardinality(Contents[r.names[1]]), {})
        BY <1>1, <2>1, <3>4 DEF Reply, Store!Answer, Store!Reply
      <4> QED
        BY <4>1, <4>2, <4>3
    <3> QED
      BY <2>4, <3>3, <3>4
  <2>5. CASE r.op = "intersect"
    <3>1. all = InAll(g)
      <4>1. 1 \in 1..Len(g)
        BY DEF Copied
      <4> QED
        BY <2>3, <4>1 DEF InAll
    <3>2. Elems(Intersect(g)) = all /\ Intersect(g) \in AscendingSeqs
      BY <2>1, <3>1, IntersectIsIntersection
    <3>3. Store!Cardinality(all) = Len(Intersect(g))
      BY <3>2, CountAscending, StoreCounts DEF AscendingSeqs
    <3>4. AnswerTo(r, g) = Reply(200, Len(Intersect(g)), Elems(Intersect(g)))
      BY <1>1, <1>3, <2>5 DEF AnswerTo
    <3>5. Store!Answer(r) = Reply(200, Store!Cardinality(all), all)
      BY <1>1, <2>1, <2>5 DEF Reply, Store!Answer, Store!Reply
    <3> QED
      BY <3>2, <3>3, <3>4, <3>5
  <2>6. CASE r.op = "union"
    <3>1. UNION parts = InSome(g)
      BY <2>3 DEF InSome
    <3>2. Elems(Union(g)) = UNION parts /\ Union(g) \in AscendingSeqs
      BY <2>1, <3>1, UnionIsUnion
    <3>3. Store!Cardinality(UNION parts) = Len(Union(g))
      BY <3>2, CountAscending, StoreCounts DEF AscendingSeqs
    <3>4. AnswerTo(r, g) = Reply(200, Len(Union(g)), Elems(Union(g)))
      BY <1>1, <1>3, <2>6 DEF AnswerTo
    <3>5. Store!Answer(r) = Reply(200, Store!Cardinality(UNION parts), UNION parts)
      BY <1>1, <2>1, <2>6 DEF Reply, Store!Answer, Store!Reply
    <3> QED
      BY <3>2, <3>3, <3>4, <3>5
  <2> QED
    BY <2>4, <2>5, <2>6 DEF QueryOps
<1> QED
  BY <1>2, <1>3

\* The names in the map, in any order, are the names in the store.
LEMMA AnswerList ==
  ASSUME TypeOK, SetsAscend, NEW r \in Request, r.op = "list",
         IsFiniteSet({n \in Name : sets[n] # NoSet})
  PROVE  AnswerTo(r, Listing({n \in Name : sets[n] # NoSet})) = Store!Answer(r)
<1> DEFINE P == {n \in Name : sets[n] # NoSet}
           g == Listing(P)
<1>1. {m \in Name : Contents[m] # NoSet} = P
  BY ContentsFacts
<1> HIDE DEF P
<1>2. Cardinality(P) \in Nat /\ g \in [1..Cardinality(P) -> P] /\ Elems(g) = P
  <2>1. Cardinality(P) \in Nat /\ ExistsBijection(1..Cardinality(P), P)
    BY FS_CardinalityType DEF P
  <2>2. PICK f \in [1..Cardinality(P) -> P] : \A t \in P : \E s \in 1..Cardinality(P) : f[s] = t
    BY <2>1 DEF ExistsBijection, Bijection, Surjection
  <2>3. Elems(f) = P
    BY <2>2 DEF Elems
  <2> QED
    BY <2>1, <2>3 DEF Listing
<1>3. Len(g) = Cardinality(P)
  <2> HIDE DEF g
  <2>1. g \in Seq(P)
    BY <1>2, SeqDef
  <2>2. DOMAIN g = 1..Len(g) /\ Len(g) \in Nat /\ DOMAIN g = 1..Cardinality(P)
    BY <1>2, <2>1, LenProperties
  <2> QED
    BY <1>2, <2>2
<1>4. ~Malformed(r)
  BY DEF Malformed, QueryOps
<1> HIDE DEF g
<1>5. AnswerTo(r, g) = Reply(200, Len(g), Elems(g))
  BY <1>4 DEF AnswerTo
<1>6. Store!Answer(r) = Reply(200, Store!Cardinality(P), P)
  BY <1>1 DEF Reply, Store!Answer, Store!Reply
<1> QED
  BY <1>2, <1>3, <1>5, <1>6, StoreCounts DEF g, P

-----------------------------------------------------------------------------
(* The inductive invariant *)

\* Who loops over the map holds the read lock, so that no write can come between.
ReadersRegistered == \A w \in Worker : pc[w] = "read" => w \in readers

\* A loop in progress has copied the sets the map still holds, and has more to do.
Looking(w) ==
  /\ ~Malformed(req[w]) /\ req[w].op \notin WriteOps
  /\ req[w].op = "list" => got[w] = <<>>
  /\ req[w].op # "list" =>
       /\ got[w] \in Seq(Seq(Nat))
       /\ Len(got[w]) < Len(req[w].names)
       /\ \A i \in 1..Len(got[w]) : got[w][i] = sets[req[w].names[i]]

LoopsCopyTheMap == \A w \in Worker : pc[w] = "read" => Looking(w)

\* A handler has copied nothing before it has a lock, and replies last.
Fresh ==
  \A w \in Worker : /\ pc[w] \in {"idle", "received"} => got[w] = <<>>
                    /\ pc[w] # "replied" => out[w] = NoReply

\* Beyond its header a file holds ids of bodies, or a hole.
FilesKnown ==
  \A n \in Name : files[n] # NoFile => \A i \in 2..Len(files[n]) : files[n][i] \in Ids

\* Only finitely many names are in the map and on the disk.
FewNames ==
  /\ IsFiniteSet({n \in Name : sets[n] # NoSet})
  /\ IsFiniteSet({n \in Name : files[n] # NoFile})

StoreInv ==
  /\ TypeOK /\ Control /\ ReadersRegistered /\ LoopsCopyTheMap /\ Fresh
  /\ SetsAscend /\ FilesKnown /\ FewNames /\ DownIsIdle

\* The ids of a body are known ids, in ascending order.
LEMMA ValueFacts ==
  ASSUME NEW v \in Value
  PROVE  v \in Seq(Nat) /\ Ascending(v) /\ Elems(v) \subseteq Ids /\ Ids \subseteq Nat
<1>1. \A u \in Value : u \in Seq(Nat) /\ StrictlyIncreasing(u)
  BY ServerAssumption
<1>2. Ascending(v)
  BY <1>1, NeighboursAscend DEF StrictlyIncreasing
<1>3. \A u \in Value : Elems(u) \subseteq Nat
  BY <1>1, ElemsFacts
<1> QED
  BY <1>1, <1>2, <1>3 DEF Ids

LEMMA StoreInit == Init => StoreInv
<1> SUFFICES ASSUME Init PROVE StoreInv
  OBVIOUS
<1>1. TypeOK /\ Control
  BY TypeInit
<1>2. ReadersRegistered /\ LoopsCopyTheMap /\ Fresh /\ DownIsIdle
  BY DEF Init, ReadersRegistered, LoopsCopyTheMap, Fresh, DownIsIdle
<1>3. SetsAscend /\ FilesKnown
  BY DEF Init, SetsAscend, FilesKnown
<1>4. {n \in Name : sets[n] # NoSet} = {} /\ {n \in Name : files[n] # NoFile} = {}
  BY DEF Init
<1>5. FewNames
  BY <1>4, FS_EmptySet DEF FewNames
<1> QED
  BY <1>1, <1>2, <1>3, <1>5 DEF StoreInv

\* What a step of one handler leaves alone.
Others(w) ==
  \A x \in Worker \ {w} :
    /\ pc'[x] = pc[x] /\ req'[x] = req[x] /\ got'[x] = got[x] /\ out'[x] = out[x]
    /\ x \in readers => x \in readers'

LEMMA StepOfOne ==
  ASSUME TypeOK, NEW w \in Worker,
         (\E r \in Request : Receive(w, r)) \/ Acquire(w) \/ Proceed(w)
  PROVE  Others(w)
<1>1. /\ DOMAIN pc = Worker /\ DOMAIN req = Worker /\ DOMAIN got = Worker
      /\ DOMAIN out = Worker
  BY DEF TypeOK
<1>2. ASSUME NEW r \in Request, Receive(w, r) PROVE Others(w)
  BY <1>1, <1>2 DEF Receive, Goto, lock, disk, Others
<1>3. CASE Acquire(w)
  BY <1>1, <1>3 DEF Acquire, PutStore, DelStore, ReadLock, Goto, lock, disk, Others
<1>4. CASE Refuse(w) \/ ReadNext(w) \/ ReadNames(w) \/ Unlock(w)
  BY <1>1, <1>4 DEF Refuse, ReadNext, ReadNames, Unlock, Goto, lock, disk, Others
<1>5. CASE Create(w) \/ CreateFails(w) \/ Remove(w) \/ RemoveFails(w)
  BY <1>1, <1>5 DEF Create, CreateFails, Remove, RemoveFails, Goto, lock, disk, Others
<1>6. CASE Flush(w)
  BY <1>1, <1>6 DEF Flush, Goto, lock, Others
<1>7. CASE FlushFails(w)
  BY <1>1, <1>7 DEF FlushFails, Goto, lock, Others
<1>8. CASE Answer(w) \/ Finish(w)
  BY <1>1, <1>8 DEF Answer, Finish, Goto, lock, disk, Others
<1> QED
  BY <1>2, <1>3, <1>4, <1>5, <1>6, <1>7, <1>8 DEF Proceed

\* Only PUT, DELETE, a kill and a start change the map.
LEMMA MapSteps ==
  ASSUME [Next]_vars
  PROVE  \/ \E w \in Worker : PutStore(w) \/ DelStore(w)
         \/ Crash \/ Start \/ UNCHANGED sets
BY DEF Next, vars, Receive, Acquire, Proceed, ReadLock, Refuse, ReadNext, ReadNames, Unlock,
       Create, CreateFails, Flush, FlushFails, Remove, RemoveFails, Answer, Finish

\* Only the writes and the removals of handlers change a file.
LEMMA FileSteps ==
  ASSUME [Next]_vars
  PROVE  \/ \E w \in Worker : Create(w) \/ Flush(w) \/ FlushFails(w) \/ Remove(w)
         \/ UNCHANGED files
BY DEF Next, vars, disk, Receive, Acquire, Proceed, PutStore, DelStore, ReadLock, Refuse,
       ReadNext, ReadNames, Unlock, CreateFails, RemoveFails, Answer, Finish, Crash, Start

\* A start loads ascending sets of known ids.
LEMMA LoadedFacts ==
  ASSUME TypeOK, FilesKnown, NEW n \in Name, Loaded(n) # NoSet
  PROVE  /\ Loaded(n) \in Seq(Nat) /\ Ascending(Loaded(n)) /\ Elems(Loaded(n)) \subseteq Ids
         /\ files[n] # NoFile
<1> DEFINE c == files[n]
           k == c[1] - 1
           ids == SubSeq(c, 2, k + 1)
<1>1. c # NoFile /\ Loaded(n) = ReadFile(c)
  BY DEF Loaded
<1>2. c \in Seq(Nat)
  BY <1>1 DEF TypeOK, Cells
<1>3. c # <<>> /\ ~(k < 0) /\ ~(k > Len(c) - 1) /\ StrictlyIncreasing(ids) /\ Loaded(n) = ids
  BY <1>1 DEF ReadFile
<1>4. Len(c) \in Nat /\ Len(c) # 0 /\ (\A i \in 1..Len(c) : c[i] \in Nat)
      /\ \A i \in 2..Len(c) : c[i] \in Ids
  BY <1>1, <1>2, <1>3, LenProperties, ElementOfSeq, EmptySeq DEF FilesKnown
<1> HIDE DEF c
<1>5. k \in Nat /\ k + 1 <= Len(c)
  BY <1>3, <1>4
<1> HIDE DEF k
<1>6. /\ ids \in Seq(Nat) /\ Len(ids) = k
      /\ \A i \in 1..k : ids[i] = c[i + 1]
  <2>1. \A i \in 2..k + 1 : c[i] \in Nat
    BY <1>4, <1>5
  <2>2. (IF 2 <= k + 1 THEN (k + 1) - 2 + 1 ELSE 0) = k /\ (k + 1) - 2 + 1 = k
    BY <1>5
  <2>3. \A i \in 1..k : (2 + i) - 1 = i + 1
    BY <1>5
  <2> QED
    BY <1>5, <2>1, <2>2, <2>3, SubSeqProperties
<1> HIDE DEF ids
<1>7. Ascending(ids)
  BY <1>3, <1>6, NeighboursAscend DEF StrictlyIncreasing
<1>8. Elems(ids) \subseteq Ids
  <2>1. \A i \in 1..k : i + 1 \in 2..Len(c) /\ ids[i] = c[i + 1]
    BY <1>4, <1>5, <1>6
  <2>2. Elems(ids) = {ids[i] : i \in 1..k}
    BY <1>6, ElemsFacts
  <2> QED
    BY <1>4, <2>1, <2>2
<1> QED
  BY <1>1, <1>3, <1>6, <1>7, <1>8 DEF c, k, ids

\* The sets of the map stay ascending and made of known ids, under finitely many
\* names.
LEMMA SetsStep ==
  ASSUME StoreInv, [Next]_vars
  PROVE  SetsAscend' /\ IsFiniteSet({n \in Name : sets'[n] # NoSet})
<1> USE DEF StoreInv
<1> DEFINE P == {n \in Name : sets[n] # NoSet}
<1>1. IsFiniteSet(P) /\ sets = [n \in Name |-> sets[n]]
  BY DEF FewNames, TypeOK
<1>2. ASSUME NEW w \in Worker, PutStore(w) PROVE SetsAscend' /\ IsFiniteSet({n \in Name : sets'[n] # NoSet})
  <2>1. req[w].val \in Value /\ Target(w) \in Name
    BY <1>2, RequestFacts DEF PutStore, WriteOps
  <2>2. sets' = [sets EXCEPT ![Target(w)] = req[w].val]
    BY <1>2 DEF PutStore
  <2>3. SetsAscend'
    BY <1>1, <2>1, <2>2, ValueFacts DEF SetsAscend
  <2>4. {n \in Name : sets'[n] # NoSet} \subseteq P \cup {Target(w)}
    BY <1>1, <2>2
  <2>5. IsFiniteSet(P \cup {Target(w)})
    BY <1>1, FS_AddElement
  <2> QED
    BY <2>3, <2>4, <2>5, FS_Subset
<1>3. ASSUME NEW w \in Worker, DelStore(w) PROVE SetsAscend' /\ IsFiniteSet({n \in Name : sets'[n] # NoSet})
  <2>1. sets' = [sets EXCEPT ![Target(w)] = NoSet]
    BY <1>3 DEF DelStore
  <2>2. SetsAscend'
    BY <1>1, <2>1 DEF SetsAscend
  <2>3. {n \in Name : sets'[n] # NoSet} \subseteq P
    BY <1>1, <2>1
  <2> QED
    BY <1>1, <2>2, <2>3, FS_Subset
<1>4. CASE Crash
  <2>1. \A n \in Name : sets'[n] = NoSet
    BY <1>4 DEF Crash
  <2>2. {n \in Name : sets'[n] # NoSet} = {}
    BY <2>1
  <2> QED
    BY <2>1, <2>2, FS_EmptySet DEF SetsAscend
<1>5. CASE Start
  <2>1. \A n \in Name : sets'[n] = Loaded(n)
    BY <1>5 DEF Start
  <2>2. SetsAscend'
    BY <2>1, LoadedFacts DEF SetsAscend
  <2>3. {n \in Name : sets'[n] # NoSet} \subseteq {n \in Name : files[n] # NoFile}
    BY <2>1, LoadedFacts
  <2> QED
    BY <2>2, <2>3, FS_Subset DEF FewNames
<1>6. CASE UNCHANGED sets
  BY <1>1, <1>6 DEF SetsAscend
<1> QED
  BY <1>2, <1>3, <1>4, <1>5, <1>6, MapSteps

\* A transfer puts ids of the body, or nothing, beyond the header.
LEMMA TransferKnown ==
  ASSUME StoreInv, NEW w \in Worker, pc[w] = "write",
         NEW k \in 0..Len(Rest(w)), Transfer(w, k)
  PROVE  FilesKnown' /\ IsFiniteSet({n \in Name : files'[n] # NoFile})
<1> USE DEF StoreInv
<1> DEFINE v == req[w].val
           n == Target(w)
           c == files[n]
           o == fd[w].off
           chunk == SubSeq(Rest(w), 1, k)
           new == WriteAt(c, o, chunk)
<1>1. IsFiniteSet({m \in Name : files[m] # NoFile})
  BY DEF FewNames
<1>2. CASE ~fd[w].linked
  <2>1. files' = files
    BY <1>2 DEF Transfer
  <2> QED
    BY <1>1, <2>1 DEF FilesKnown
<1>3. CASE fd[w].linked
  <2>1. /\ v \in Value /\ v \in Seq(Nat) /\ n \in Name /\ c # NoFile /\ c \in Seq(Nat)
        /\ o \in Nat /\ Len(c) \in Nat /\ Len(v) \in Nat
    <3>1. v \in Value /\ v \in Seq(Nat) /\ n \in Name
      BY RequestFacts DEF Control, WriteOps
    <3>2. c # NoFile /\ c \in Seq(Nat) /\ o \in Nat
      BY <1>3, <3>1 DEF Control, TypeOK, Cells
    <3> QED
      BY <3>1, <3>2, LenProperties
  <2>2. files' = [files EXCEPT ![n] = new]
    BY <1>3 DEF Transfer
  <2>3. \A i \in 2..Len(v) + 1 : Encode(v)[i] \in Ids
    <3> HIDE DEF v
    <3>1. \A i \in 2..Len(v) + 1 : Encode(v)[i] = v[i - 1] /\ i - 1 \in 1..Len(v)
      <4>1. \A i \in 2..Len(v) + 1 : Encode(v)[i] = v[i - 1]
        BY <2>1, EncodeCells
      <4> QED
        BY <2>1, <4>1
    <3>2. \A i \in 1..Len(v) : v[i] \in Elems(v)
      BY <2>1, ElemsFacts
    <3>3. Elems(v) \subseteq Ids
      BY <2>1, ValueFacts
    <3> QED
      BY <3>1, <3>2, <3>3
  <2>4. /\ k \in Nat /\ Len(chunk) = k
        /\ \A i \in 1..k : o + i <= Len(v) + 1 /\ chunk[i] = Encode(v)[o + i]
    <3> DEFINE e == Encode(v)
               rest == Rest(w)
    <3>1. e \in Seq(Nat) /\ Len(e) = Len(v) + 1 /\ \A i \in 1..Len(v) + 1 : e[i] \in Nat
      BY <2>1, EncodeCells, ElementOfSeq
    <3>2. rest = SubSeq(e, o + 1, Len(e))
      BY DEF Rest
    <3> HIDE DEF e
    <3>3. /\ rest \in Seq(Nat)
          /\ Len(rest) = IF o + 1 <= Len(e) THEN Len(e) - (o + 1) + 1 ELSE 0
          /\ \A i \in 1..Len(e) - (o + 1) + 1 : rest[i] = e[(o + 1) + i - 1]
      <4> HIDE DEF o, rest
      <4> DEFINE a == o + 1
                 L == Len(e)
      <4>1. /\ a \in Int /\ L \in Int /\ \A i \in a..L : e[i] \in Nat
        BY <2>1, <3>1
      <4>2. rest = SubSeq(e, a, L)
        BY <3>2
      <4> HIDE DEF a, L
      <4>3. /\ rest \in Seq(Nat)
            /\ Len(rest) = IF a <= L THEN L - a + 1 ELSE 0
            /\ \A i \in 1..L - a + 1 : rest[i] = e[a + i - 1]
        BY <4>1, <4>2, SubSeqProperties
      <4> QED
        BY <4>3 DEF a, L
    <3>4. k \in Nat /\ k <= Len(rest) /\ Len(rest) \in Nat
      BY <3>3, LenProperties
    <3> HIDE DEF rest
    <3>5. \A i \in 1..k : rest[i] \in Nat
      BY <3>3, <3>4, ElementOfSeq
    <3>6. chunk = SubSeq(rest, 1, k)
      BY DEF rest
    <3> HIDE DEF chunk
    <3>7. Len(chunk) = k /\ \A i \in 1..k : chunk[i] = rest[i]
      BY <3>4, <3>5, <3>6, SubSeqProperties
    <3> HIDE DEF v, o
    <3>8. ASSUME NEW i \in 1..k
          PROVE  o + i <= Len(v) + 1 /\ rest[i] = e[o + i]
      <4>1. i \in 1..Len(e) - (o + 1) + 1 /\ (o + 1) + i - 1 = o + i
        BY <2>1, <3>1, <3>3, <3>4
      <4> QED
        BY <2>1, <3>1, <3>3, <4>1
    <3> QED
      BY <3>4, <3>7, <3>8 DEF e
  <2> HIDE DEF c, chunk, o, v
  <2>5. ASSUME NEW i \in 2..Len(new) PROVE new[i] \in Ids
    <3>1. /\ new = [j \in 1..(IF Len(c) > o + k THEN Len(c) ELSE o + k) |->
                      IF j > o /\ j <= o + k THEN chunk[j - o]
                      ELSE IF j <= Len(c) THEN c[j] ELSE 0]
      BY <2>4 DEF WriteAt
    <3> DEFINE N == IF Len(c) > o + k THEN Len(c) ELSE o + k
    <3>2. N \in Nat
      BY <2>1, <2>4
    <3>3. Len(new) = N
      <4> HIDE DEF N
      <4> QED
        BY <3>1, <3>2 DEF N
    <3>4. i \in 1..N /\ i \in Nat
      BY <3>2, <3>3
    <3>5. new[i] = IF i > o /\ i <= o + k THEN chunk[i - o] ELSE IF i <= Len(c) THEN c[i] ELSE 0
      BY <3>1, <3>4
    <3>6. CASE i > o /\ i <= o + k
      <4>1. PICK j \in 1..k : i - o = j /\ i = o + j
        <5>1. o \in Nat /\ k \in Nat /\ i \in Nat
          BY <2>1, <2>4, <3>4
        <5>2. i - o \in 1..k /\ i = o + (i - o)
          BY <3>6, <5>1
        <5> QED
          BY <5>2
      <4>2. chunk[i - o] = Encode(v)[i] /\ i <= Len(v) + 1
        BY <2>4, <4>1
      <4>3. i \in 2..Len(v) + 1
        BY <2>1, <3>4, <4>2
      <4> QED
        BY <2>3, <3>5, <3>6, <4>2, <4>3
    <3>7. CASE ~(i > o /\ i <= o + k)
      BY <2>1, <3>4, <3>5, <3>7 DEF FilesKnown, Ids, c
    <3> QED
      BY <3>6, <3>7
  <2>6. files = [m \in Name |-> files[m]]
    BY DEF TypeOK
  <2> HIDE DEF new, n
  <2>7. FilesKnown'
    BY <2>1, <2>2, <2>5, <2>6 DEF FilesKnown
  <2>8. {m \in Name : files'[m] # NoFile} \subseteq {m \in Name : files[m] # NoFile}
    BY <2>1, <2>2, <2>6 DEF c
  <2> QED
    BY <1>1, <2>7, <2>8, FS_Subset
<1> QED
  BY <1>2, <1>3

\* No step puts an unknown id in a file, or makes the files infinitely many.
LEMMA FilesStep ==
  ASSUME StoreInv, [Next]_vars
  PROVE  FilesKnown' /\ IsFiniteSet({n \in Name : files'[n] # NoFile})
<1> USE DEF StoreInv
<1> DEFINE P == {n \in Name : files[n] # NoFile}
<1>1. IsFiniteSet(P) /\ files = [n \in Name |-> files[n]]
  BY DEF FewNames, TypeOK
<1>2. ASSUME NEW w \in Worker, Create(w)
      PROVE  FilesKnown' /\ IsFiniteSet({n \in Name : files'[n] # NoFile})
  <2>1. files' = [files EXCEPT ![Target(w)] = <<>>] /\ Len(<<>>) = 0
    BY <1>2, EmptySeq DEF Create
  <2>2. FilesKnown'
    BY <1>1, <2>1 DEF FilesKnown
  <2>3. {n \in Name : files'[n] # NoFile} \subseteq P \cup {Target(w)}
    BY <1>1, <2>1
  <2>4. IsFiniteSet(P \cup {Target(w)})
    BY <1>1, FS_AddElement
  <2> QED
    BY <2>2, <2>3, <2>4, FS_Subset
<1>3. ASSUME NEW w \in Worker, Flush(w)
      PROVE  FilesKnown' /\ IsFiniteSet({n \in Name : files'[n] # NoFile})
  <2>1. pc[w] = "write" /\ \E k \in 0..Len(Rest(w)) : Transfer(w, k)
    BY <1>3, FlushSize DEF Flush
  <2> QED
    BY <2>1, TransferKnown
<1>4. ASSUME NEW w \in Worker, FlushFails(w)
      PROVE  FilesKnown' /\ IsFiniteSet({n \in Name : files'[n] # NoFile})
  <2>1. /\ pc[w] = "write"
        /\ \E k \in 0..ChunkCells - 1 : k < Len(Rest(w)) /\ Transfer(w, k)
    BY <1>4 DEF FlushFails
  <2>2. Len(Rest(w)) \in Nat /\ ChunkCells \in Nat
    BY <2>1, RestType, ServerAssumption
  <2>3. \E k \in 0..Len(Rest(w)) : Transfer(w, k)
    BY <2>1, <2>2
  <2> QED
    BY <2>1, <2>3, TransferKnown
<1>5. ASSUME NEW w \in Worker, Remove(w)
      PROVE  FilesKnown' /\ IsFiniteSet({n \in Name : files'[n] # NoFile})
  <2>1. files' = [files EXCEPT ![Target(w)] = NoFile]
    BY <1>5 DEF Remove
  <2>2. FilesKnown'
    BY <1>1, <2>1 DEF FilesKnown
  <2>3. {n \in Name : files'[n] # NoFile} \subseteq P
    BY <1>1, <2>1
  <2> QED
    BY <1>1, <2>2, <2>3, FS_Subset
<1>6. CASE UNCHANGED files
  BY <1>1, <1>6 DEF FilesKnown
<1> QED
  BY <1>2, <1>3, <1>4, <1>5, <1>6, FileSteps

\* A request that is not refused and reads the map names a set, or asks for the list.
LEMMA ReadsName ==
  ASSUME NEW r \in Request, ~Malformed(r), r.op \notin WriteOps, r.op # "list"
  PROVE  /\ r.op \in {"has", "info"} \cup QueryOps
         /\ r.names \in Seq(Name) /\ Len(r.names) \in Nat /\ Len(r.names) > 0
<1>1. /\ r.op \in Ops /\ r.names \in Seq(Name)
      /\ r.op \in {"has", "info"} => Len(r.names) = 1
  BY ServerAssumption
<1>2. Len(r.names) \in Nat
  BY <1>1, LenProperties
<1>3. r.op \in {"has", "info"} \cup QueryOps
  BY <1>1 DEF Ops, WriteOps, QueryOps, Malformed
<1>4. r.op \in QueryOps => ~(Len(r.names) < 2)
  BY DEF Malformed
<1> QED
  BY <1>1, <1>2, <1>3, <1>4

\* The next name of a loop, and what the loop has in hand after it.
LEMMA NextName ==
  ASSUME StoreInv, NEW w \in Worker, ReadNext(w)
  PROVE  LET n == req[w].names[Len(got[w]) + 1]
         IN  /\ n \in Name
             /\ Len(got'[w]) = Len(got[w]) + 1
             /\ got'[w] \in Seq(Seq(Nat) \cup {NoSet})
             /\ Len(got'[w]) \in 1..Len(req[w].names)
             /\ \A i \in 1..Len(got'[w]) : got'[w][i] = sets[req[w].names[i]]
             /\ got'[w][Len(got'[w])] = sets[n]
             /\ sets[n] # NoSet => got'[w] \in Seq(Seq(Nat))
<1> DEFINE n == req[w].names[Len(got[w]) + 1]
           T == Seq(Nat) \cup {NoSet}
           g == got[w]
           ns == req[w].names
<1>1. /\ g \in Seq(Seq(Nat)) /\ Len(g) < Len(ns) /\ \A i \in 1..Len(g) : g[i] = sets[ns[i]]
      /\ req[w] \in Request /\ ~Malformed(req[w]) /\ req[w].op \notin WriteOps
      /\ req[w].op # "list"
  BY DEF StoreInv, ReadNext, LoopsCopyTheMap, Looking, TypeOK
<1>2. ns \in Seq(Name) /\ Len(ns) \in Nat /\ Len(g) \in Nat /\ g \in Seq(T)
  <2>1. g \in Seq(T)
    BY <1>1, SeqMonotonic
  <2> QED
    BY <1>1, <2>1, ReadsName, LenProperties
<1>3. n \in Name /\ sets[n] \in T
  <2>1. Len(g) + 1 \in 1..Len(ns)
    BY <1>1, <1>2
  <2>2. n \in Name
    BY <1>2, <2>1, ElementOfSeq
  <2> QED
    BY <2>2 DEF StoreInv, TypeOK, Cells
<1>4. got'[w] = Append(g, sets[n])
  BY DEF ReadNext, StoreInv, TypeOK
<1> HIDE DEF g, ns
<1>5. /\ Append(g, sets[n]) \in Seq(T) /\ Len(Append(g, sets[n])) = Len(g) + 1
      /\ \A i \in 1..Len(g) : Append(g, sets[n])[i] = g[i]
      /\ Append(g, sets[n])[Len(g) + 1] = sets[n]
  <2> HIDE DEF n, T
  <2> QED
    BY <1>2, <1>3, AppendProperties
<1>6. ASSUME sets[n] # NoSet PROVE Append(g, sets[n]) \in Seq(Seq(Nat))
  <2>1. sets[n] \in Seq(Nat)
    BY <1>3, <1>6
  <2> HIDE DEF n
  <2> QED
    BY <1>1, <2>1, AppendProperties DEF g
<1>7. \A i \in 1..Len(g) + 1 : Append(g, sets[n])[i] = sets[ns[i]]
  <2> TAKE i \in 1..Len(g) + 1
  <2>1. CASE i = Len(g) + 1
    BY <1>5, <2>1 DEF g, ns
  <2>2. CASE i # Len(g) + 1
    <3>1. i \in 1..Len(g)
      BY <1>2, <2>2
    <3> QED
      BY <1>1, <1>5, <3>1 DEF g, ns
  <2> QED
    BY <2>1, <2>2
<1>8. Len(g) + 1 \in 1..Len(ns)
  BY <1>1, <1>2 DEF g, ns
<1> HIDE DEF n
<1>9. /\ n \in Name
      /\ Len(got'[w]) = Len(got[w]) + 1
      /\ got'[w] \in Seq(Seq(Nat) \cup {NoSet})
      /\ Len(got'[w]) \in 1..Len(req[w].names)
      /\ \A i \in 1..Len(got'[w]) : got'[w][i] = sets[req[w].names[i]]
      /\ got'[w][Len(got'[w])] = sets[n]
      /\ sets[n] # NoSet => got'[w] \in Seq(Seq(Nat))
  BY <1>3, <1>4, <1>5, <1>6, <1>7, <1>8 DEF g, ns
<1> QED
  BY <1>9 DEF n

\* A step that keeps the map keeps the loops of the others.
LEMMA LoopsOfOthers ==
  ASSUME StoreInv, NEW w \in Worker, Others(w), UNCHANGED sets,
         NEW x \in Worker \ {w}, pc'[x] = "read"
  PROVE  x \in readers' /\ Looking(x)'
<1>1. pc[x] = "read" /\ Looking(x) /\ x \in readers
  BY DEF Others, StoreInv, LoopsCopyTheMap, ReadersRegistered
<1>2. req'[x] = req[x] /\ got'[x] = got[x] /\ x \in readers'
  BY <1>1 DEF Others
<1> QED
  BY <1>1, <1>2 DEF Looking, Malformed

\* Whoever is in the loop after a step has the read lock and a true copy.
LEMMA LoopsStep ==
  ASSUME StoreInv, [Next]_vars
  PROVE  ReadersRegistered' /\ LoopsCopyTheMap'
<1> USE DEF StoreInv
<1> SUFFICES ASSUME NEW x \in Worker, pc'[x] = "read" PROVE x \in readers' /\ Looking(x)'
  BY DEF ReadersRegistered, LoopsCopyTheMap
<1>0. /\ DOMAIN pc = Worker /\ DOMAIN req = Worker /\ DOMAIN got = Worker
  BY DEF TypeOK
\* No write of the map while somebody loops.
<1>1. ASSUME NEW w \in Worker, PutStore(w) \/ DelStore(w) PROVE FALSE
  <2>1. readers = {} /\ pc'[w] = "unlock"
    BY <1>0, <1>1 DEF PutStore, DelStore, Goto
  <2>2. Others(w) /\ x # w
    BY <1>1, <2>1, StepOfOne DEF Acquire
  <2> QED
    BY <2>1, <2>2 DEF Others, ReadersRegistered
<1>2. ASSUME NEW w \in Worker, ReadLock(w) PROVE x \in readers' /\ Looking(x)'
  <2>1. UNCHANGED sets /\ Others(w)
    BY <1>2, StepOfOne DEF ReadLock, Acquire
  <2>2. CASE x = w
    <3>1. /\ pc[w] = "received" /\ ~Malformed(req[w]) /\ req[w].op \notin WriteOps
          /\ readers' = readers \cup {w} /\ req' = req /\ got' = got
      BY <1>2 DEF ReadLock
    <3>2. got[w] = <<>> /\ req[w] \in Request
      BY <3>1 DEF Fresh, TypeOK
    <3>3. req[w].op # "list" => Len(req[w].names) \in Nat /\ Len(req[w].names) > 0
      BY <3>1, <3>2, ReadsName
    <3>4. Len(<<>>) = 0 /\ <<>> \in Seq(Seq(Nat))
      BY EmptySeq
    <3>5. Looking(w)'
      BY <3>1, <3>2, <3>3, <3>4 DEF Looking, Malformed
    <3> QED
      BY <2>2, <3>1, <3>5
  <2>3. CASE x # w
    BY <2>1, <2>3, LoopsOfOthers
  <2> QED
    BY <2>2, <2>3
<1>3. ASSUME NEW w \in Worker, ReadNext(w) PROVE x \in readers' /\ Looking(x)'
  <2>1. UNCHANGED sets /\ Others(w)
    BY <1>3, StepOfOne DEF ReadNext, Proceed
  <2>2. CASE x = w
    <3> DEFINE n == req[w].names[Len(got[w]) + 1]
    <3>1. /\ pc[w] = "read" /\ req' = req /\ readers' = readers
          /\ pc' = [pc EXCEPT ![w] = IF sets[n] = NoSet \/ Len(got[w]) + 1 = Len(req[w].names)
                                     THEN "unlock" ELSE "read"]
      BY <1>3 DEF ReadNext, Goto, lock
    <3>2. sets[n] # NoSet /\ Len(got[w]) + 1 # Len(req[w].names)
      BY <1>0, <2>2, <3>1
    <3>3. /\ Len(got'[w]) = Len(got[w]) + 1
          /\ Len(got'[w]) \in 1..Len(req[w].names)
          /\ \A i \in 1..Len(got'[w]) : got'[w][i] = sets[req[w].names[i]]
          /\ got'[w] \in Seq(Seq(Nat))
      BY <1>3, <3>2, NextName
    <3>4. /\ ~Malformed(req[w]) /\ req[w].op \notin WriteOps /\ req[w].op # "list"
          /\ req[w] \in Request /\ w \in readers
      BY <1>3, <3>1 DEF ReadNext, LoopsCopyTheMap, ReadersRegistered, Looking, TypeOK
    <3>5. Len(req[w].names) \in Nat
      BY <3>4, ReadsName
    <3>6. Len(got'[w]) < Len(req[w].names)
      BY <3>2, <3>3, <3>5
    <3> HIDE DEF n
    <3>7. Looking(w)'
      BY <2>1, <3>1, <3>3, <3>4, <3>6 DEF Looking, Malformed
    <3> QED
      BY <2>2, <3>1, <3>4, <3>7
  <2>3. CASE x # w
    BY <2>1, <2>3, LoopsOfOthers
  <2> QED
    BY <2>2, <2>3
<1>4. ASSUME NEW w \in Worker, NEW r \in Request, Receive(w, r) PROVE x \in readers' /\ Looking(x)'
  <2>1. UNCHANGED sets /\ Others(w) /\ pc'[w] # "read"
    BY <1>0, <1>4, StepOfOne DEF Receive, Goto
  <2> QED
    BY <2>1, LoopsOfOthers
<1>5. ASSUME NEW w \in Worker, Proceed(w), ~ReadNext(w) PROVE x \in readers' /\ Looking(x)'
  <2>1. UNCHANGED sets /\ Others(w)
    BY <1>5, StepOfOne DEF Proceed, Refuse, ReadNames, Unlock, Create, CreateFails, Flush,
       FlushFails, Remove, RemoveFails, Answer, Finish
  <2>2. pc'[w] # "read"
    <3>1. AfterUnlock(w) # "read"
      BY DEF AfterUnlock
    <3>2. CASE Unlock(w)
      BY <1>0, <3>1, <3>2 DEF Unlock, Goto
    <3>3. CASE Flush(w)
      <4>1. pc[w] = "write" /\ (Goto(w, "answer") \/ Goto(w, "write"))
        BY <3>3 DEF Flush
      <4> QED
        BY <1>0, <4>1 DEF Goto
    <3>4. CASE FlushFails(w)
      BY <1>0, <3>4 DEF FlushFails, Goto
    <3>5. CASE ~Unlock(w) /\ ~Flush(w) /\ ~FlushFails(w)
      BY <1>0, <1>5, <3>5 DEF Proceed, Refuse, ReadNames, Create, CreateFails,
         Remove, RemoveFails, Answer, Finish, Goto
    <3> QED
      BY <3>2, <3>3, <3>4, <3>5
  <2> QED
    BY <2>1, <2>2, LoopsOfOthers
<1>6. CASE Crash \/ Start
  BY <1>6 DEF Crash, Start, DownIsIdle
<1>7. CASE UNCHANGED vars
  BY <1>7 DEF vars, Looking, Malformed, LoopsCopyTheMap, ReadersRegistered, lock
<1> QED
  BY <1>1, <1>2, <1>3, <1>4, <1>5, <1>6, <1>7 DEF Next, Acquire

\* Copies and replies appear when they are made, not before.
LEMMA FreshStep ==
  ASSUME StoreInv, [Next]_vars
  PROVE  Fresh' /\ DownIsIdle'
<1> USE DEF StoreInv
<1>0. /\ DOMAIN pc = Worker /\ DOMAIN req = Worker /\ DOMAIN got = Worker
      /\ DOMAIN out = Worker
  BY DEF TypeOK
<1>1. ASSUME NEW w \in Worker, (\E r \in Request : Receive(w, r)) \/ Acquire(w) \/ Proceed(w),
             up' = up, pc'[w] # "idle" => up \/ pc[w] # "idle",
             pc'[w] \in {"idle", "received"} => got'[w] = <<>>,
             pc'[w] # "replied" => out'[w] = NoReply
      PROVE  Fresh' /\ DownIsIdle'
  <2>1. Others(w)
    BY <1>1, StepOfOne
  <2>2. Fresh'
    BY <1>1, <2>1 DEF Fresh, Others
  <2>3. DownIsIdle'
    BY <1>1, <2>1 DEF DownIsIdle, Others
  <2> QED
    BY <2>2, <2>3
<1>2. ASSUME NEW w \in Worker, NEW r \in Request, Receive(w, r) PROVE Fresh' /\ DownIsIdle'
  BY <1>0, <1>1, <1>2 DEF Receive, Goto, Fresh
<1>3. ASSUME NEW w \in Worker, Acquire(w) PROVE Fresh' /\ DownIsIdle'
  BY <1>0, <1>1, <1>3 DEF Acquire, PutStore, DelStore, ReadLock, Goto, Fresh
<1>4. ASSUME NEW w \in Worker, Finish(w) PROVE Fresh' /\ DownIsIdle'
  BY <1>0, <1>1, <1>4 DEF Proceed, Finish, Goto, Fresh
<1>5. ASSUME NEW w \in Worker, Answer(w) PROVE Fresh' /\ DownIsIdle'
  BY <1>0, <1>1, <1>5 DEF Proceed, Answer, Goto, Fresh
<1>6. ASSUME NEW w \in Worker, Proceed(w), ~Finish(w), ~Answer(w) PROVE Fresh' /\ DownIsIdle'
  <2>1. pc[w] \notin {"idle", "received", "replied"} \/ Refuse(w)
    BY <1>6 DEF Proceed, ReadNext, ReadNames, Unlock, Create, CreateFails, Flush,
       FlushFails, Remove, RemoveFails
  <2>2. pc'[w] \notin {"idle", "received", "replied"} /\ pc[w] # "replied"
    <3>1. AfterUnlock(w) \notin {"idle", "received", "replied"}
      BY DEF AfterUnlock
    <3>2. CASE Unlock(w)
      BY <1>0, <3>1, <3>2 DEF Unlock, Goto
    <3>3. CASE ReadNext(w)
      <4>1. pc[w] = "read" /\ (Goto(w, "unlock") \/ Goto(w, "read"))
        BY <3>3 DEF ReadNext
      <4> QED
        BY <1>0, <4>1 DEF Goto
    <3>4. CASE Flush(w)
      <4>1. pc[w] = "write" /\ (Goto(w, "answer") \/ Goto(w, "write"))
        BY <3>4 DEF Flush
      <4> QED
        BY <1>0, <4>1 DEF Goto
    <3>5. CASE FlushFails(w)
      BY <1>0, <3>5 DEF FlushFails, Goto
    <3>6. CASE ~Unlock(w) /\ ~ReadNext(w) /\ ~Flush(w) /\ ~FlushFails(w)
      BY <1>0, <1>6, <3>6 DEF Proceed, Refuse, ReadNames, Create, CreateFails,
         Remove, RemoveFails, Goto
    <3> QED
      BY <3>2, <3>3, <3>4, <3>5, <3>6
  <2>3. up' = up /\ out' = out /\ pc[w] # "idle"
    BY <1>6, <2>1 DEF Proceed, Refuse, ReadNext, ReadNames, Unlock, Create, CreateFails, Flush,
       FlushFails, Remove, RemoveFails
  <2>4. out[w] = NoReply
    BY <2>2 DEF Fresh
  <2> QED
    BY <1>1, <1>6, <2>2, <2>3, <2>4
<1>7. CASE Crash
  BY <1>7 DEF Crash, Fresh, DownIsIdle
<1>8. CASE Start
  BY <1>8 DEF Start, Fresh, DownIsIdle
<1>9. CASE UNCHANGED vars
  BY <1>9 DEF vars, Fresh, DownIsIdle
<1> QED
  BY <1>2, <1>3, <1>4, <1>5, <1>6, <1>7, <1>8, <1>9 DEF Next

\* The invariant is inductive.
LEMMA StoreStep == StoreInv /\ [Next]_vars => StoreInv'
<1> SUFFICES ASSUME StoreInv, [Next]_vars PROVE StoreInv'
  OBVIOUS
<1>1. TypeOK' /\ Control'
  BY TypeStep DEF StoreInv
<1>2. FewNames'
  BY SetsStep, FilesStep DEF FewNames
<1> QED
  BY <1>1, <1>2, SetsStep, FilesStep, LoopsStep, FreshStep DEF StoreInv

-----------------------------------------------------------------------------
(* The refinement *)

\* Only the handler that steps changes its phase and the answer it is bound to give.
LEMMA OnePhase ==
  ASSUME TypeOK, NEW w \in Worker, Others(w)
  PROVE  /\ Phases' = [Phases EXCEPT ![w] = Phases'[w]]
         /\ Bound' = [Bound EXCEPT ![w] = Bound'[w]]
<1>1. \A x \in Worker \ {w} : Phase(x)' = Phase(x)
  BY DEF Others, Phase
<1>2. \A x \in Worker \ {w} : Bound'[x] = Bound[x]
  BY <1>1 DEF Others, Bound
<1>3. \A x \in Worker \ {w} : Phases'[x] = Phases[x]
  BY <1>1 DEF Phases
<1>4. /\ Phases' = [x \in Worker |-> Phases'[x]] /\ Phases = [x \in Worker |-> Phases[x]]
      /\ Bound' = [x \in Worker |-> Bound'[x]] /\ Bound = [x \in Worker |-> Bound[x]]
  BY DEF Phases, Bound
<1> QED
  BY <1>2, <1>3, <1>4

\* The phase of each step of a handler.
LEMMA PhaseAt ==
  ASSUME NEW w \in Worker
  PROVE  /\ Phases[w] = Phase(w)
         /\ pc[w] = "idle" => Phase(w) = "idle"
         /\ pc[w] \in {"received", "read"} => Phase(w) = "pending"
         /\ pc[w] \in {"unlock", "create", "write", "remove", "answer"} => Phase(w) = "done"
         /\ pc[w] = "replied" => Phase(w) = "replied"
         /\ Bound[w] = IF Phase(w) = "done" THEN AnswerTo(req[w], got[w]) ELSE NoReply
<1>1. Phases[w] = Phase(w) /\ Bound[w] = IF Phase(w) = "done" THEN AnswerTo(req[w], got[w]) ELSE NoReply
  BY DEF Phases, Bound
<1>2. CASE pc[w] = "idle"
  BY <1>1, <1>2 DEF Phase
<1>3. CASE pc[w] \in {"received", "read"}
  BY <1>1, <1>3 DEF Phase
<1>4. CASE pc[w] \in {"unlock", "create", "write", "remove", "answer"}
  BY <1>1, <1>4 DEF Phase
<1>5. CASE pc[w] = "replied"
  BY <1>1, <1>5 DEF Phase
<1> QED
  BY <1>1, <1>2, <1>3, <1>4, <1>5

\* The same in the next state.
LEMMA PhaseNext ==
  ASSUME NEW w \in Worker
  PROVE  /\ Phases'[w] = Phase(w)'
         /\ pc'[w] = "idle" => Phase(w)' = "idle"
         /\ pc'[w] \in {"received", "read"} => Phase(w)' = "pending"
         /\ pc'[w] \in {"unlock", "create", "write", "remove", "answer"} => Phase(w)' = "done"
         /\ pc'[w] = "replied" => Phase(w)' = "replied"
         /\ Bound'[w] = IF Phase(w)' = "done" THEN AnswerTo(req'[w], got'[w]) ELSE NoReply
<1>1. Phases'[w] = Phase(w)'
      /\ Bound'[w] = IF Phase(w)' = "done" THEN AnswerTo(req'[w], got'[w]) ELSE NoReply
  BY DEF Phases, Bound
<1>2. CASE pc'[w] = "idle"
  BY <1>1, <1>2 DEF Phase
<1>3. CASE pc'[w] \in {"received", "read"}
  BY <1>1, <1>3 DEF Phase
<1>4. CASE pc'[w] \in {"unlock", "create", "write", "remove", "answer"}
  BY <1>1, <1>4 DEF Phase
<1>5. CASE pc'[w] = "replied"
  BY <1>1, <1>5 DEF Phase
<1> QED
  BY <1>1, <1>2, <1>3, <1>4, <1>5

\* A step that neither moves a handler to another phase nor changes the map is
\* invisible to clients.
LEMMA SilentStep ==
  ASSUME TypeOK, NEW w \in Worker, Others(w), UNCHANGED <<up, sets, req, out>>,
         Phase(w)' = Phase(w), Phase(w) = "done" => got'[w] = got[w]
  PROVE  UNCHANGED Store!vars
<1>1. Phases'[w] = Phases[w] /\ Bound'[w] = Bound[w]
  BY PhaseAt, PhaseNext
<1>2. Phases' = [Phases EXCEPT ![w] = Phases'[w]] /\ Bound' = [Bound EXCEPT ![w] = Bound'[w]]
  BY OnePhase
<1>3. Phases = [x \in Worker |-> Phases[x]] /\ Bound = [x \in Worker |-> Bound[x]]
  BY DEF Phases, Bound
<1>4. Phases' = Phases /\ Bound' = Bound
  BY <1>1, <1>2, <1>3
<1>5. Contents' = Contents
  BY DEF Contents
<1> QED
  BY <1>4, <1>5 DEF Store!vars

\* The step at which a request takes effect.
LEMMA EffectStep ==
  ASSUME TypeOK, NEW w \in Worker, Others(w), UNCHANGED <<up, req, out>>,
         Phase(w) = "pending", Phase(w)' = "done",
         AnswerTo(req[w], got'[w]) = Store!Answer(req[w]),
         Contents' = Store!Effect(req[w])
  PROVE  Store!TakeEffect(w)
<1>1. /\ Phases' = [Phases EXCEPT ![w] = Phases'[w]] /\ Bound' = [Bound EXCEPT ![w] = Bound'[w]]
      /\ Phases'[w] = "done" /\ Phases[w] = "pending" /\ Bound'[w] = Store!Answer(req[w])
  BY OnePhase, PhaseAt, PhaseNext
<1> QED
  BY <1>1 DEF Store!TakeEffect

\* A PUT or a DELETE takes effect when it changes the map.
LEMMA WriteTakesEffect ==
  ASSUME StoreInv, NEW w \in Worker, PutStore(w) \/ DelStore(w)
  PROVE  Store!TakeEffect(w)
<1> USE DEF StoreInv
<1>1. /\ Others(w) /\ UNCHANGED <<up, req, out>>
      /\ pc[w] = "received" /\ pc'[w] = "unlock"
  <2>1. Others(w)
    BY StepOfOne DEF Acquire
  <2> QED
    BY <2>1 DEF PutStore, DelStore, Goto, TypeOK, disk
<1>2. req[w] \in Request /\ req[w].op \in WriteOps /\ Target(w) \in Name
      /\ Target(w) = req[w].names[1]
  BY <1>1, RequestFacts DEF PutStore, DelStore, WriteOps, Target
<1>3. Phase(w) = "pending" /\ Phase(w)' = "done"
  BY <1>1, PhaseAt, PhaseNext
<1>4. sets = [n \in Name |-> sets[n]] /\ Contents = [n \in Name |-> Contents[n]]
  BY DEF TypeOK, Contents
<1>5. CASE PutStore(w)
  <2> DEFINE r == req[w]
             v == r.val
  <2>1. r.op = "put" /\ got'[w] = <<v>> /\ sets' = [sets EXCEPT ![Target(w)] = v]
    BY <1>5 DEF PutStore, TypeOK
  <2>2. AnswerTo(r, got'[w]) = Store!Answer(r)
    BY <1>2, <2>1, AnswerPut
  <2>3. v \in Seq(Nat) /\ v # NoSet
    BY <1>2, ServerAssumption
  <2>4. Elems(v) = {v[i] : i \in 1..Len(v)}
    BY <2>3, ElemsFacts
  <2>5. Contents' = [Contents EXCEPT ![Target(w)] = Elems(v)]
    <3> HIDE DEF v
    <3> QED
      BY <1>2, <1>4, <2>1, <2>3 DEF Contents
  <2>6. Store!Effect(r) = [Contents EXCEPT ![Target(w)] = Elems(v)]
    BY <1>2, <2>1, <2>4 DEF Store!Effect
  <2> QED
    BY <1>1, <1>3, <2>2, <2>5, <2>6, EffectStep
<1>6. CASE DelStore(w)
  <2> DEFINE r == req[w]
  <2>1. /\ r.op = "del" /\ got'[w] = <<sets[Target(w)]>>
        /\ sets' = [sets EXCEPT ![Target(w)] = NoSet]
    BY <1>6 DEF DelStore, TypeOK
  <2>2. AnswerTo(r, got'[w]) = Store!Answer(r)
    BY <1>2, <2>1, AnswerDel
  <2>3. Contents' = [Contents EXCEPT ![Target(w)] = NoSet]
    BY <1>2, <1>4, <2>1 DEF Contents
  <2>4. Store!Effect(r) = [Contents EXCEPT ![Target(w)] = NoSet]
    BY <1>2, <2>1 DEF Store!Effect
  <2> QED
    BY <1>1, <1>3, <2>2, <2>3, <2>4, EffectStep
<1> QED
  BY <1>5, <1>6

\* A query takes effect at its last lookup, under the read lock.
LEMMA ReadTakesEffect ==
  ASSUME StoreInv, NEW w \in Worker, ReadNext(w)
  PROVE  Store!TakeEffect(w) \/ UNCHANGED Store!vars
<1> USE DEF StoreInv
<1> DEFINE r == req[w]
           n == r.names[Len(got[w]) + 1]
           ends == sets[n] = NoSet \/ Len(got[w]) + 1 = Len(r.names)
<1>1. /\ Others(w) /\ UNCHANGED <<up, sets, req, out>>
      /\ pc[w] = "read" /\ pc'[w] = IF ends THEN "unlock" ELSE "read"
      /\ r.op # "list"
  <2>1. Others(w)
    BY StepOfOne DEF Proceed
  <2> QED
    BY <2>1 DEF ReadNext, Goto, TypeOK
<1>2. /\ r \in Request /\ ~Malformed(r) /\ r.op \notin WriteOps
      /\ r.op \in {"has", "info"} \cup QueryOps
  BY <1>1, ReadsName DEF LoopsCopyTheMap, Looking, TypeOK
<1>3. /\ Len(got'[w]) = Len(got[w]) + 1
      /\ got'[w] \in Seq(Seq(Nat) \cup {NoSet})
      /\ Len(got'[w]) \in 1..Len(r.names)
      /\ \A i \in 1..Len(got'[w]) : got'[w][i] = sets[r.names[i]]
      /\ got'[w][Len(got'[w])] = sets[n]
  BY NextName
<1> HIDE DEF n
<1>4. Phase(w) = "pending"
  BY <1>1, PhaseAt
<1>5. CASE ends
  <2>1. Copied(r, got'[w])
    BY <1>3, <1>5 DEF Copied
  <2>2. AnswerTo(r, got'[w]) = Store!Answer(r)
    BY <1>2, <2>1, AnswerRead
  <2>3. Phase(w)' = "done"
    BY <1>1, <1>5, PhaseNext
  <2>4. Contents' = Store!Effect(r)
    BY <1>1, <1>2 DEF Store!Effect, Contents, WriteOps
  <2> QED
    BY <1>1, <1>4, <2>2, <2>3, <2>4, EffectStep
<1>6. CASE ~ends
  <2>1. Phase(w)' = "pending"
    BY <1>1, <1>6, PhaseNext
  <2> QED
    BY <1>1, <1>4, <2>1, SilentStep
<1> QED
  BY <1>5, <1>6

\* Listing takes effect in one step under the read lock, a refusal anywhere.
LEMMA ListTakesEffect ==
  ASSUME StoreInv, NEW w \in Worker, ReadNames(w) \/ Refuse(w)
  PROVE  Store!TakeEffect(w)
<1> USE DEF StoreInv
<1> DEFINE r == req[w]
<1>1. /\ Others(w) /\ UNCHANGED <<up, sets, req, out>>
      /\ pc[w] \in {"received", "read"} /\ pc'[w] \in {"unlock", "answer"}
  <2>1. Others(w)
    BY StepOfOne DEF Proceed
  <2> QED
    BY <2>1 DEF ReadNames, Refuse, Goto, TypeOK
<1>2. r \in Request /\ Phase(w) = "pending" /\ Phase(w)' = "done"
  BY <1>1, PhaseAt, PhaseNext DEF TypeOK
<1>3. Contents' = Contents
  BY <1>1 DEF Contents
<1>4. CASE ReadNames(w)
  <2>1. r.op = "list" /\ got'[w] = Listing({n \in Name : sets[n] # NoSet})
    BY <1>4 DEF ReadNames, TypeOK
  <2>2. AnswerTo(r, got'[w]) = Store!Answer(r)
    BY <1>2, <2>1, AnswerList DEF FewNames
  <2>3. Store!Effect(r) = Contents
    BY <2>1 DEF Store!Effect
  <2> QED
    BY <1>1, <1>2, <1>3, <2>2, <2>3, EffectStep
<1>5. CASE Refuse(w)
  <2>1. Malformed(r)
    BY <1>5 DEF Refuse
  <2>2. AnswerTo(r, got'[w]) = Store!Answer(r)
    BY <1>2, <2>1, AnswerRefused
  <2>3. Store!Effect(r) = Contents
    BY <2>1 DEF Store!Effect, Malformed, QueryOps
  <2> QED
    BY <1>1, <1>2, <1>3, <2>2, <2>3, EffectStep
<1> QED
  BY <1>4, <1>5

\* Receiving, answering and finishing are what clients see of a request.
LEMMA CallSteps ==
  ASSUME StoreInv, NEW w \in Worker
  PROVE  /\ \A r \in Request : Receive(w, r) => Store!Invoke(w, r)
         /\ Answer(w) => Store!Respond(w)
         /\ Finish(w) => Store!Finish(w)
<1> USE DEF StoreInv
<1>1. ASSUME NEW r \in Request, Receive(w, r) PROVE Store!Invoke(w, r)
  <2>1. /\ Others(w) /\ up /\ pc[w] = "idle" /\ pc'[w] = "received"
        /\ UNCHANGED <<up, sets, out>> /\ req' = [req EXCEPT ![w] = r]
    BY <1>1, StepOfOne DEF Receive, Goto, TypeOK
  <2>2. /\ Phases' = [Phases EXCEPT ![w] = "pending"] /\ Phases[w] = "idle"
        /\ Bound' = [Bound EXCEPT ![w] = NoReply] /\ Bound[w] = NoReply
    BY <2>1, OnePhase, PhaseAt, PhaseNext
  <2>3. Bound' = Bound /\ Contents' = Contents
    BY <2>1, <2>2 DEF Bound, Contents
  <2> QED
    BY <2>1, <2>2, <2>3 DEF Store!Invoke
<1>2. ASSUME Answer(w) PROVE Store!Respond(w)
  <2>1. /\ Others(w) /\ pc[w] = "answer" /\ pc'[w] = "replied"
        /\ UNCHANGED <<up, sets, req>>
        /\ out' = [out EXCEPT ![w] = AnswerTo(req[w], got[w])]
    BY <1>2, StepOfOne DEF Answer, Goto, TypeOK, Proceed
  <2>2. /\ Phases' = [Phases EXCEPT ![w] = "replied"] /\ Phases[w] = "done"
        /\ Bound' = [Bound EXCEPT ![w] = NoReply] /\ Bound[w] = AnswerTo(req[w], got[w])
    BY <2>1, OnePhase, PhaseAt, PhaseNext
  <2>3. Contents' = Contents
    BY <2>1 DEF Contents
  <2> QED
    BY <2>1, <2>2, <2>3 DEF Store!Respond
<1>3. ASSUME Finish(w) PROVE Store!Finish(w)
  <2>1. /\ Others(w) /\ pc[w] = "replied" /\ pc'[w] = "idle"
        /\ UNCHANGED <<up, sets>> /\ req' = [req EXCEPT ![w] = NoReq]
        /\ out' = [out EXCEPT ![w] = NoReply]
    BY <1>3, StepOfOne DEF Finish, Goto, TypeOK, Proceed
  <2>2. /\ Phases' = [Phases EXCEPT ![w] = "idle"] /\ Phases[w] = "replied"
        /\ Bound' = [Bound EXCEPT ![w] = NoReply] /\ Bound[w] = NoReply
    BY <2>1, OnePhase, PhaseAt, PhaseNext
  <2>3. Bound' = Bound /\ Contents' = Contents
    BY <2>1, <2>2 DEF Bound, Contents
  <2> QED
    BY <2>1, <2>2, <2>3 DEF Store!Finish
<1> QED
  BY <1>1, <1>2, <1>3

\* Taking and releasing the lock and everything done to files is invisible.
LEMMA HiddenSteps ==
  ASSUME StoreInv, NEW w \in Worker,
         \/ ReadLock(w) \/ Unlock(w) \/ Create(w) \/ CreateFails(w)
         \/ Flush(w) \/ FlushFails(w) \/ Remove(w) \/ RemoveFails(w)
  PROVE  UNCHANGED Store!vars
<1> USE DEF StoreInv
<1>1. Others(w)
  BY StepOfOne DEF Acquire, Proceed
<1>2. UNCHANGED <<up, sets, req, out>> /\ got' = got
  BY DEF ReadLock, Unlock, Create, CreateFails, Flush, FlushFails, Remove, RemoveFails
<1>3. DOMAIN pc = Worker
  BY DEF TypeOK
<1>4. Phase(w)' = Phase(w)
  <2> DEFINE done == {"unlock", "create", "write", "remove", "answer"}
  <2>1. CASE ReadLock(w)
    <3>1. pc[w] = "received" /\ pc'[w] = "read"
      BY <1>3, <2>1 DEF ReadLock, Goto
    <3> QED
      BY <3>1, PhaseAt, PhaseNext
  <2>2. CASE ~ReadLock(w)
    <3>1. pc[w] \in done
      BY <2>2 DEF Unlock, Create, CreateFails, Flush, FlushFails, Remove, RemoveFails
    <3>2. AfterUnlock(w) \in done
      BY DEF AfterUnlock
    <3>3. \E l \in done : Goto(w, l)
      BY <2>2, <3>2 DEF Unlock, Create, CreateFails, Flush, FlushFails, Remove, RemoveFails
    <3>4. pc'[w] \in done
      BY <1>3, <3>3 DEF Goto
    <3> QED
      BY <3>1, <3>4, PhaseAt, PhaseNext
  <2> QED
    BY <2>1, <2>2
<1> QED
  BY <1>1, <1>2, <1>4, SilentStep

\* Every step of the server is a step of the store, or changes nothing there.
LEMMA StepRefines == StoreInv /\ StoreInv' /\ [Next]_vars => [Store!Next]_(Store!vars)
<1> SUFFICES ASSUME StoreInv, StoreInv', [Next]_vars PROVE [Store!Next]_(Store!vars)
  OBVIOUS
<1>1. ASSUME NEW w \in Worker, NEW r \in Request, Receive(w, r) PROVE Store!Next
  BY <1>1, CallSteps DEF Store!Next
<1>2. ASSUME NEW w \in Worker, Acquire(w) PROVE [Store!Next]_(Store!vars)
  BY <1>2, WriteTakesEffect, HiddenSteps DEF Acquire, Store!Next
<1>3. ASSUME NEW w \in Worker, Refuse(w) \/ ReadNext(w) \/ ReadNames(w)
      PROVE  [Store!Next]_(Store!vars)
  BY <1>3, ReadTakesEffect, ListTakesEffect DEF Store!Next
<1>4. ASSUME NEW w \in Worker, Answer(w) \/ Finish(w) PROVE Store!Next
  BY <1>4, CallSteps DEF Store!Next
<1>5. ASSUME NEW w \in Worker, Proceed(w),
             ~(Refuse(w) \/ ReadNext(w) \/ ReadNames(w) \/ Answer(w) \/ Finish(w))
      PROVE  UNCHANGED Store!vars
  BY <1>5, HiddenSteps DEF Proceed
<1>6. ASSUME Crash PROVE Store!Next
  <2>1. /\ up /\ up' = FALSE
        /\ \A n \in Name : sets'[n] = NoSet
        /\ \A w \in Worker : pc'[w] = "idle"
        /\ req' = [w \in Worker |-> NoReq] /\ out' = [w \in Worker |-> NoReply]
    BY <1>6 DEF Crash
  <2>2. \A w \in Worker : Phases'[w] = "idle" /\ Bound'[w] = NoReply
    BY <2>1, PhaseNext
  <2>3. /\ Phases' = [w \in Worker |-> "idle"] /\ Bound' = [w \in Worker |-> NoReply]
        /\ Contents' = [n \in Name |-> NoSet]
    BY <2>1, <2>2 DEF Phases, Bound, Contents
  <2> QED
    BY <2>1, <2>3 DEF Store!Next, Store!Crash
<1>7. ASSUME Start PROVE Store!Next
  <2>1. ~up /\ up' = TRUE /\ UNCHANGED <<pc, req, got, out>>
    BY <1>7 DEF Start
  <2>2. Phases' = Phases /\ Bound' = Bound
    BY <2>1 DEF Phases, Bound, Phase
  <2>3. Contents' \in [Name -> (SUBSET Ids) \cup {NoSet}]
    <3>1. \A n \in Name : sets'[n] # NoSet => Elems(sets'[n]) \subseteq Ids
      BY DEF StoreInv, SetsAscend
    <3> QED
      BY <3>1 DEF Contents
  <2> QED
    BY <2>1, <2>2, <2>3 DEF Store!Next, Store!Start
<1>8. CASE UNCHANGED vars
  BY <1>8 DEF vars, Store!vars, Contents, Phases, Bound, Phase
<1> QED
  BY <1>1, <1>2, <1>3, <1>4, <1>5, <1>6, <1>7, <1>8 DEF Next

\* The server implements the atomic store: whatever requests overlap, whatever is
\* killed or fails, every request takes effect at one instant between its arrival
\* and its reply, with the answer set theory gives at that instant (store.mu in
\* main.go:85-260, setrixdb.go, setops.go).
THEOREM ServerIsLinearizable == Spec => Linearizable
<1>1. Init => Store!Init
  <2> SUFFICES ASSUME Init PROVE Store!Init
    OBVIOUS
  <2>1. \A w \in Worker : pc[w] = "idle"
    BY DEF Init
  <2>2. \A w \in Worker : Phases[w] = "idle" /\ Bound[w] = NoReply
    BY <2>1, PhaseAt
  <2> QED
    BY <2>2 DEF Init, Store!Init, Phases, Bound, Contents
<1>2. Spec => []StoreInv
  BY StoreInit, StoreStep, PTL DEF Spec
<1> QED
  BY <1>1, <1>2, StepRefines, PTL DEF Spec, Linearizable, Store!Spec

-----------------------------------------------------------------------------
(* The command line tool beside the server *)

\* The set a build makes of its input.
Built == Finalize(cmd.ids)

Steps == {"create", "write", "open", "read"}

\* A process at work has a command it did not refuse, and operands left to read.
Running ==
  /\ at \in Steps \cup {"none", "exited"}
  /\ at # "none" => cmd \in Command
  /\ at \in Steps => ~Refused(cmd) /\ Len(operands) < Len(cmd.names)
  /\ at \in {"create", "write"} => cmd.op = "build"
  /\ operands \in Seq([ids : Seq(Nat), torn : BOOLEAN])
  /\ at = "none" => operands = <<>>
  /\ cells \in Seq(Nat) /\ inode \in Seq(Nat) \cup {Linked} /\ torn \in BOOLEAN
  /\ at # "read" => cells = <<>> /\ inode = Linked /\ torn = FALSE

\* What was read so far is the beginning of the file, which is as far as a write
\* of some set got, unless the file was created anew meanwhile.
Reading ==
  at = "read" =>
    /\ inode = Linked => files[File] # NoFile
    /\ ~torn =>
         /\ \E v \in puts[File] : \E k \in 0..Len(v) + 1 : Source = Prefix(v, k)
         /\ Len(cells) <= Len(Source)
         /\ \A i \in 1..Len(cells) : cells[i] = Source[i]

\* Operands are whole sets, unless their files were created anew.
Collected ==
  at # "none" =>
    /\ Len(operands) <= Len(cmd.names)
    /\ \A i \in 1..Len(operands) : operands[i].torn \/ operands[i].ids \in puts[cmd.names[i]]

\* What was printed is computed from all operands.
Answered ==
  at = "exited" /\ shown.ok /\ cmd.op # "build" =>
    /\ Len(operands) = Len(cmd.names)
    /\ \E c \in Command, g \in Seq(Seq(Nat)) :
         /\ c = cmd /\ g = [i \in DOMAIN operands |-> operands[i].ids]
         /\ shown = Printed(c, g)

\* The file of a build is as far as its offset says, and then stays whole.
Building ==
  at # "none" /\ cmd.op = "build" =>
    /\ at = "write" =>
         /\ off \in 0..Len(Built) + 1 /\ Built \in puts[File]
         /\ files[File] = Prefix(Built, off)
    /\ at \in {"open", "read"} =>
         /\ ~torn /\ inode = Linked /\ Built \in puts[File]
         /\ files[File] = Prefix(Built, Len(Built) + 1)
    /\ at = "exited" /\ shown.ok =>
         /\ cmd.ids # Invalid
         /\ shown.count = IF operands = <<>> THEN 0 ELSE Len(Built)
         /\ files[File] = Prefix(Built, Len(Built) + 1)

ProcessInv == Running /\ Reading /\ Collected /\ Answered /\ Building

CliInv == FileInv /\ Apart /\ ProcessInv

-----------------------------------------------------------------------------
(* What a step of the server does to files *)

\* A file changes in the hands of the one write of its name: it is created anew,
\* removed, or gets more of the value that is written.
LEMMA FilesMove ==
  ASSUME ~Overlap, FileInv, [Next]_vars, NEW n \in Name
  PROVE  /\ puts[n] \subseteq puts'[n]
         /\ \/ files'[n] = files[n]
            \/ \E w \in Worker :
                 /\ Writing(w, n)
                 /\ \/ pc[w] = "create" /\ pc'[w] = "write" /\ files'[n] = <<>>
                    \/ files'[n] = NoFile
                    \/ \E v \in puts[n] : \E o, p \in 0..Len(v) + 1 :
                         o <= p /\ files[n] = Prefix(v, o) /\ files'[n] = Prefix(v, p)
<1> USE DEF Goto, lock, disk
<1>1. TypeOK /\ Control
  BY DEF FileInv
<1>2. files \in [Name -> Cells \cup {NoFile}] /\ puts \in [Name -> SUBSET Value]
      /\ pc \in [Worker -> Labels]
  BY <1>1 DEF TypeOK
<1>3. CASE files' = files /\ puts' = puts
  BY <1>3
<1>4. ASSUME NEW w \in Worker, PutStore(w)
      PROVE  files' = files /\ puts[n] \subseteq puts'[n]
  <2>1. puts' = [puts EXCEPT ![Target(w)] = @ \cup {req[w].val}] /\ files' = files
    BY <1>4 DEF PutStore
  <2> QED
    BY <1>2, <2>1
<1>5. ASSUME NEW w \in Worker, Create(w)
      PROVE  /\ puts' = puts
             /\ files'[n] = files[n] \/ (Writing(w, n) /\ pc[w] = "create" /\ pc'[w] = "write"
                                           /\ files'[n] = <<>>)
  <2>1. pc[w] = "create" /\ pc' = [pc EXCEPT ![w] = "write"] /\ puts' = puts
        /\ files' = [files EXCEPT ![Target(w)] = <<>>]
    BY <1>5 DEF Create
  <2>2. req[w].op = "put"
    BY <1>1, <2>1 DEF Control
  <2>3. pc'[w] = "write"
    BY <1>2, <2>1
  <2>4. n = Target(w) => Writing(w, n) /\ files'[n] = <<>>
    BY <1>2, <2>1, <2>2 DEF Writing, WriteOps
  <2>5. n # Target(w) => files'[n] = files[n]
    BY <1>2, <2>1
  <2> QED
    BY <2>1, <2>3, <2>4, <2>5
<1>6. ASSUME NEW w \in Worker, Remove(w)
      PROVE  puts' = puts /\ (files'[n] = files[n] \/ (Writing(w, n) /\ files'[n] = NoFile))
  <2>1. pc[w] = "remove" /\ puts' = puts /\ files' = [files EXCEPT ![Target(w)] = NoFile]
    BY <1>6 DEF Remove
  <2>2. req[w].op = "del"
    BY <1>1, <2>1 DEF Control
  <2>3. n = Target(w) => Writing(w, n) /\ files'[n] = NoFile
    BY <1>2, <2>1, <2>2 DEF Writing, WriteOps
  <2>4. n # Target(w) => files'[n] = files[n]
    BY <1>2, <2>1
  <2> QED
    BY <2>1, <2>3, <2>4
<1>7. ASSUME NEW w \in Worker, pc[w] = "write", puts' = puts,
             NEW k \in 0..Len(Rest(w)), Transfer(w, k)
      PROVE  \/ files'[n] = files[n]
             \/ /\ Writing(w, n)
                /\ \E v \in puts[n] : \E o, p \in 0..Len(v) + 1 :
                     o <= p /\ files[n] = Prefix(v, o) /\ files'[n] = Prefix(v, p)
  <2> DEFINE v == req[w].val
             o == fd[w].off
  <2>1. /\ o \in 0..Len(v) + 1 /\ files[Target(w)] = Prefix(v, o)
        /\ req[w].op = "put" /\ v \in puts[Target(w)] /\ Len(v) \in Nat
    <3>1. req[w].op = "put"
      BY <1>1, <1>7 DEF Control
    <3>2. v \in Seq(Nat)
      BY <1>1, <1>7, RequestFacts
    <3> QED
      BY <1>7, <3>1, <3>2, LenProperties DEF FileInv, WriterAtPrefix, PutIsKnown
  <2>2. /\ fd'[w].off = o + k /\ o + k \in 0..Len(v) + 1
        /\ files' = [files EXCEPT ![Target(w)] = Prefix(v, fd'[w].off)]
    <3>1. /\ fd'[w].off = fd[w].off + k
          /\ fd'[w].off \in 0..Len(req[w].val) + 1
          /\ files' = [files EXCEPT ![Target(w)] = Prefix(req[w].val, fd'[w].off)]
      BY <1>7, TransferKeepsPrefix
    <3> QED
      BY <3>1
  <2>3. CASE n # Target(w)
    BY <1>2, <2>2, <2>3
  <2>4. CASE n = Target(w)
    <3>1. Writing(w, n)
      BY <1>7, <2>1, <2>4 DEF Writing, WriteOps
    <3>2. files'[n] = Prefix(v, o + k) /\ files[n] = Prefix(v, o) /\ v \in puts[n]
      BY <1>2, <2>1, <2>2, <2>4
    <3>3. o <= o + k
      <4>1. Len(Rest(w)) \in Nat
        <5>1. Rest(w) \in Seq(Nat)
          BY <1>1, <1>7, RestType
        <5> QED
          BY <5>1, LenProperties
      <4> QED
        BY <2>1, <4>1
    <3> HIDE DEF v, o
    <3> QED
      BY <2>1, <2>2, <3>1, <3>2, <3>3
  <2> QED
    BY <2>3, <2>4
<1>8. ASSUME NEW w \in Worker, Flush(w)
      PROVE  pc[w] = "write" /\ puts' = puts /\ \E k \in 0..Len(Rest(w)) : Transfer(w, k)
  <2> DEFINE k == IF Len(Rest(w)) < ChunkCells THEN Len(Rest(w)) ELSE ChunkCells
  <2>1. pc[w] = "write" /\ puts' = puts /\ Transfer(w, k)
    BY <1>8 DEF Flush
  <2>2. Rest(w) \in Seq(Nat)
    BY <1>1, <2>1, RestType
  <2>3. k \in 0..Len(Rest(w))
    BY <2>2, LenProperties, ServerAssumption
  <2> QED
    BY <2>1, <2>3
<1>9. ASSUME NEW w \in Worker, FlushFails(w)
      PROVE  pc[w] = "write" /\ puts' = puts /\ \E k \in 0..Len(Rest(w)) : Transfer(w, k)
  <2>1. pc[w] = "write" /\ puts' = puts
    BY <1>9 DEF FlushFails
  <2>2. PICK k \in 0..ChunkCells - 1 : k < Len(Rest(w)) /\ Transfer(w, k)
    BY <1>9 DEF FlushFails
  <2>3. Rest(w) \in Seq(Nat)
    BY <1>1, <2>1, RestType
  <2>4. k \in 0..Len(Rest(w))
    BY <2>2, <2>3, LenProperties, ServerAssumption
  <2> QED
    BY <2>1, <2>2, <2>4
<1>10. CASE \E w \in Worker : Flush(w) \/ FlushFails(w)
  <2>1. PICK w \in Worker : Flush(w) \/ FlushFails(w)
    BY <1>10
  <2>2. pc[w] = "write" /\ puts' = puts
    BY <2>1, <1>8, <1>9
  <2>3. PICK k \in 0..Len(Rest(w)) : Transfer(w, k)
    BY <2>1, <1>8, <1>9
  <2> QED
    BY <2>2, <2>3, <1>7
<1>11. ASSUME NEW w \in Worker
       PROVE  /\ \A r \in Request : Receive(w, r) => files' = files /\ puts' = puts
              /\ DelStore(w) \/ ReadLock(w) => files' = files /\ puts' = puts
              /\ Refuse(w) \/ ReadNext(w) \/ ReadNames(w) \/ Unlock(w) \/ CreateFails(w)
                   \/ RemoveFails(w) \/ Answer(w) \/ Finish(w) => files' = files /\ puts' = puts
  BY DEF Receive, DelStore, ReadLock, Refuse, ReadNext, ReadNames, Unlock, CreateFails,
         RemoveFails, Answer, Finish
<1>12. Crash \/ Start \/ UNCHANGED vars => files' = files /\ puts' = puts
  BY DEF Crash, Start, vars
<1> QED
  BY <1>3, <1>4, <1>5, <1>6, <1>10, <1>11, <1>12 DEF Next, Acquire, Proceed

-----------------------------------------------------------------------------
(* A process while the server steps *)

\* What a prefix of a value that was put is.
LEMMA PrefixFacts ==
  ASSUME NEW v \in Value, NEW k \in 0..Len(v) + 1
  PROVE  /\ v \in Seq(Nat) /\ Len(v) \in Nat /\ k \in Nat
         /\ Prefix(v, k) \in Seq(Nat) /\ Len(Prefix(v, k)) = k
         /\ Prefix(v, k) # NoFile /\ Prefix(v, k) # Linked
         /\ \A i \in 1..k : Prefix(v, k)[i] = Encode(v)[i]
<1>1. v \in Seq(Nat) /\ Len(v) \in Nat
  BY ServerAssumption, LenProperties
<1>2. k \in Nat
  BY <1>1
<1>3. /\ Prefix(v, k) \in Seq(Nat) /\ Len(Prefix(v, k)) = k
      /\ \A i \in 1..k : Prefix(v, k)[i] = Encode(v)[i]
  BY <1>1, PrefixCells
<1> QED
  BY <1>1, <1>2, <1>3, ServerAssumption, CliAssumption

LEMMA CommandFacts ==
  ASSUME Running, at # "none"
  PROVE  /\ cmd.names \in Seq(Name) /\ Len(cmd.names) \in Nat \ {0}
         /\ Len(operands) \in Nat
         /\ cmd.op # "intersect" => Len(cmd.names) = 1
         /\ cmd.ids # Invalid => cmd.ids \in Seq(Nat)
         /\ cmd.op = "build" /\ cmd.ids # Invalid => Built \in Value
         /\ \A i \in 1..Len(cmd.names) : cmd.names[i] \in Name
         /\ at \in Steps \/ cmd.op = "build" => File \in Name
<1>1. cmd \in Command /\ operands \in Seq([ids : Seq(Nat), torn : BOOLEAN])
  BY DEF Running
<1>2. /\ cmd.names \in Seq(Name) \ {<<>>}
      /\ cmd.op # "intersect" => Len(cmd.names) = 1
      /\ cmd.ids # Invalid => cmd.ids \in Seq(Nat)
      /\ cmd.op = "build" /\ cmd.ids # Invalid => Built \in Value
  BY <1>1, CliAssumption DEF Built
<1>3. Len(cmd.names) \in Nat \ {0} /\ Len(operands) \in Nat
  BY <1>1, <1>2, LenProperties, EmptySeq
<1>4. \A i \in 1..Len(cmd.names) : cmd.names[i] \in Name
  BY <1>2, ElementOfSeq
<1>5. at \in Steps \/ cmd.op = "build" => File \in Name
  <2>1. CASE cmd.op = "build"
    BY <1>3, <1>4, <2>1 DEF File
  <2>2. CASE cmd.op # "build" /\ at \in Steps
    <3>1. Len(operands) + 1 \in 1..Len(cmd.names)
      BY <1>3, <2>2 DEF Running
    <3> QED
      BY <1>4, <2>2, <3>1 DEF File
  <2> QED
    BY <2>1, <2>2
<1> QED
  BY <1>2, <1>3, <1>4, <1>5

\* While a build works nobody else touches its file.
LEMMA BuildIsAlone ==
  ASSUME ~Overlap, CliInv, [Next]_vars, at # "none", cmd.op = "build"
  PROVE  /\ files'[File] = files[File]
         /\ ~\E w \in Worker : pc[w] = "create" /\ Target(w) = File
<1>1. File = cmd.names[1] /\ \A w \in Worker : ~Writing(w, File)
  BY DEF CliInv, Apart, File
<1>2. File \in Name
  BY CommandFacts DEF CliInv, ProcessInv
<1>3. files'[File] = files[File]
  BY <1>1, <1>2, FilesMove DEF CliInv
<1>4. \A w \in Worker : pc[w] = "create" => req[w].op = "put"
  BY DEF CliInv, FileInv, Control
<1> QED
  BY <1>1, <1>3, <1>4 DEF Writing, WriteOps

LEMMA ServerKeeps ==
  ASSUME ~Overlap, CliInv, Next, Watched, Apart'
  PROVE  CliInv'
<1> DEFINE reading == at = "read" /\ inode = Linked
           anew == \E w \in Worker : pc[w] = "create" /\ pc'[w] = "write" /\ Target(w) = File
<1>1. FileInv' /\ FileInv /\ Running /\ Apart
  BY FileStep DEF CliInv, ProcessInv
<1>2. /\ UNCHANGED <<at, cmd, off, cells, operands, shown>>
      /\ inode' = IF reading /\ files'[File] = NoFile THEN files[File] ELSE inode
      /\ torn' = (torn \/ (reading /\ anew))
  BY DEF Watched
<1>3. File' = File /\ Built' = Built
  BY <1>2 DEF File, Built
<1>4. /\ files \in [Name -> Cells \cup {NoFile}] /\ puts \in [Name -> SUBSET Value]
      /\ puts' \in [Name -> SUBSET Value]
  BY <1>1 DEF FileInv, TypeOK
<1>5. \A n \in Name : puts[n] \subseteq puts'[n]
  BY <1>1, FilesMove
<1>6. at = "read" => File \in Name
  BY <1>1, CommandFacts DEF Steps
<1>7. at # "read" => inode' = inode /\ torn' = torn
  BY <1>1, <1>2 DEF Running
<1>8. reading => files[File] \in Seq(Nat) /\ files[File] # Linked /\ files[File] # NoFile
  <2>1. reading => files[File] # NoFile
    BY DEF CliInv, ProcessInv, Reading
  <2>2. reading => files[File] \in Seq(Nat)
    BY <1>4, <1>6, <2>1 DEF Cells
  <2> QED
    BY <2>1, <2>2, CliAssumption
<1>9. Running'
  <2>1. inode' \in Seq(Nat) \cup {Linked} /\ torn' \in BOOLEAN
    BY <1>1, <1>2, <1>8 DEF Running
  <2> QED
    BY <1>1, <1>2, <1>7, <2>1 DEF Running, Refused
<1>10. Collected'
  <2> SUFFICES ASSUME at # "none"
               PROVE  /\ Len(operands) <= Len(cmd.names)
                      /\ \A i \in 1..Len(operands) :
                           operands[i].torn \/ operands[i].ids \in puts'[cmd.names[i]]
    BY <1>2 DEF Collected
  <2>1. /\ Len(operands) <= Len(cmd.names)
        /\ \A i \in 1..Len(operands) : operands[i].torn \/ operands[i].ids \in puts[cmd.names[i]]
    BY DEF CliInv, ProcessInv, Collected
  <2>2. \A i \in 1..Len(operands) : cmd.names[i] \in Name
    BY <1>1, <2>1, CommandFacts
  <2> QED
    BY <1>5, <2>1, <2>2
<1>11. Answered'
  BY <1>2 DEF CliInv, ProcessInv, Answered
<1>12. Building'
  <2> SUFFICES ASSUME at # "none", cmd.op = "build" PROVE Building'
    BY <1>2 DEF Building
  <2>1. files'[File] = files[File] /\ ~anew
    BY <1>1, BuildIsAlone DEF CliInv
  <2>2. File \in Name
    BY <1>1, CommandFacts
  <2>3. at \in {"open", "read"} => torn' = torn /\ inode' = inode
    <3>1. at = "read" => files[File] # NoFile
      BY DEF CliInv, ProcessInv, Reading, Building
    <3>2. at = "read" => inode' = inode
      BY <1>2, <2>1, <3>1
    <3>3. torn' = torn
      BY <1>1, <1>2, <2>1 DEF Running
    <3> QED
      BY <1>7, <3>2, <3>3
  <2>4. Built \in puts[File] => Built \in puts'[File]
    BY <1>5, <2>2
  <2> QED
    BY <1>2, <1>3, <2>1, <2>3, <2>4 DEF CliInv, ProcessInv, Building, Prefix, Encode, Header
<1>13. Reading'
  <2> SUFFICES ASSUME at = "read"
               PROVE  /\ inode' = Linked => files'[File] # NoFile
                      /\ ~torn' =>
                           /\ \E v \in puts'[File] : \E k \in 0..Len(v) + 1 : Source' = Prefix(v, k)
                           /\ Len(cells) <= Len(Source')
                           /\ \A i \in 1..Len(cells) : cells[i] = Source'[i]
    BY <1>2, <1>3 DEF Reading, Prefix, Encode, Header
  <2>1. inode' = Linked => files'[File] # NoFile
    BY <1>2, <1>8
  <2>2. ASSUME ~torn'
        PROVE  /\ \E v \in puts'[File] : \E k \in 0..Len(v) + 1 : Source' = Prefix(v, k)
               /\ Len(cells) <= Len(Source')
               /\ \A i \in 1..Len(cells) : cells[i] = Source'[i]
    <3>1. ~torn /\ ~(reading /\ anew)
      BY <1>1, <1>2, <2>2 DEF Running
    <3>2. /\ \E v \in puts[File] : \E k \in 0..Len(v) + 1 : Source = Prefix(v, k)
          /\ Len(cells) <= Len(Source)
          /\ \A i \in 1..Len(cells) : cells[i] = Source[i]
      BY <3>1 DEF CliInv, ProcessInv, Reading
    <3>3. CASE Source' = Source
      BY <1>5, <1>6, <3>2, <3>3
    <3>4. CASE inode # Linked
      <4>1. Source' = Source
        BY <1>2, <3>4 DEF Source
      <4> QED
        BY <3>3, <4>1
    <3>5. CASE inode = Linked /\ files'[File] = NoFile
      <4>1. inode' = files[File] /\ inode' # Linked
        BY <1>2, <1>8, <3>5
      <4>2. Source' = Source
        BY <3>5, <4>1 DEF Source
      <4> QED
        BY <3>3, <4>1, <4>2
    <3>6. CASE inode = Linked /\ files'[File] = files[File]
      <4>1. inode' = Linked
        BY <1>2, <1>8, <3>6
      <4>2. Source' = Source
        BY <1>3, <3>6, <4>1 DEF Source
      <4> QED
        BY <3>3, <4>2
    <3>7. ASSUME inode = Linked, NEW v \in puts[File], NEW o \in 0..Len(v) + 1,
                 NEW p \in 0..Len(v) + 1, o <= p,
                 files[File] = Prefix(v, o), files'[File] = Prefix(v, p)
          PROVE  /\ \E u \in puts'[File] : \E k \in 0..Len(u) + 1 : Source' = Prefix(u, k)
                 /\ Len(cells) <= Len(Source')
                 /\ \A i \in 1..Len(cells) : cells[i] = Source'[i]
      <4>1. v \in Value /\ v \in puts'[File]
        BY <1>4, <1>5, <1>6
      <4>2. /\ o \in Nat /\ p \in Nat /\ Len(Prefix(v, o)) = o /\ Len(Prefix(v, p)) = p
            /\ Prefix(v, p) # NoFile
            /\ \A i \in 1..o : Prefix(v, o)[i] = Encode(v)[i]
            /\ \A i \in 1..p : Prefix(v, p)[i] = Encode(v)[i]
        BY <4>1, PrefixFacts
      <4>3. inode' = Linked
        BY <1>2, <3>7, <4>2
      <4>4. Source = Prefix(v, o) /\ Source' = Prefix(v, p)
        BY <1>3, <3>7, <4>3 DEF Source
      <4>5. Len(cells) \in Nat
        BY <1>1, LenProperties DEF Running
      <4>6. \A i \in 1..Len(cells) : cells[i] = Source'[i]
        <5> SUFFICES ASSUME NEW i \in 1..Len(cells) PROVE cells[i] = Source'[i]
          OBVIOUS
        <5>1. i \in 1..o /\ i \in 1..p
          BY <3>2, <3>7, <4>2, <4>4, <4>5
        <5> QED
          BY <3>2, <4>2, <4>4, <5>1
      <4> QED
        BY <3>2, <3>7, <4>1, <4>2, <4>4, <4>5, <4>6
    <3>8. CASE inode = Linked /\ \E w \in Worker : Writing(w, File) /\ pc[w] = "create" /\ pc'[w] = "write"
      BY <2>2, <3>1, <3>8 DEF Writing
    <3> QED
      BY <1>1, <1>6, <3>4, <3>5, <3>6, <3>7, <3>8, FilesMove
  <2> QED
    BY <2>1, <2>2
<1> QED
  BY <1>1, <1>9, <1>10, <1>11, <1>12, <1>13 DEF CliInv, ProcessInv

-----------------------------------------------------------------------------
(* The steps of a process *)

\* A build may write to its file what it likes: nobody else has it open for writing.
LEMMA BuildKeepsFiles ==
  ASSUME FileInv, NEW n \in Name, \A w \in Worker : ~Writing(w, n),
         NEW v \in Value, NEW k \in 0..Len(v) + 1,
         files' = [files EXCEPT ![n] = Prefix(v, k)],
         puts' \in [Name -> SUBSET Value], \A m \in Name : puts[m] \subseteq puts'[m],
         v \in puts'[n], adrift' = adrift \cup {n}, UNCHANGED server
  PROVE  FileInv'
<1> USE DEF server, lock
<1>1. TypeOK /\ Control /\ Prefix(v, k) \in Seq(Nat) /\ Prefix(v, k) # NoFile
  BY PrefixFacts DEF FileInv
<1>2. /\ files'[n] = Prefix(v, k) /\ \A m \in Name : m # n => files'[m] = files[m]
      /\ files' \in [Name -> Cells \cup {NoFile}]
  BY <1>1 DEF TypeOK, Cells
<1>3. TypeOK'
  BY <1>1, <1>2 DEF TypeOK
<1>4. ASSUME NEW w \in Worker, pc[w] \in {"create", "write"}
      PROVE  Target(w) \in Name /\ Target(w) # n /\ Target(w)' = Target(w)
  <2>1. req[w].op \in WriteOps
    BY <1>1, <1>4 DEF Control, WriteOps
  <2> QED
    BY <1>1, <1>4, <2>1, RequestFacts DEF Writing, Target
<1>5. Control'
  BY <1>1, <1>2, <1>4 DEF Control
<1>6. OneWriter'
  BY DEF FileInv, OneWriter, Writing, Target
<1>7. FilesArePrefixes'
  <2> SUFFICES ASSUME NEW m \in Name, files'[m] # NoFile
               PROVE  \E u \in puts'[m] : \E j \in 0..Len(u) + 1 : files'[m] = Prefix(u, j)
    BY DEF FilesArePrefixes, Prefix, Encode, Header
  <2>1. CASE m = n
    BY <1>2, <2>1
  <2>2. CASE m # n
    BY <1>2, <2>2 DEF FileInv, FilesArePrefixes
  <2> QED
    BY <2>1, <2>2
<1>8. WriterAtPrefix'
  <2> SUFFICES ASSUME NEW w \in Worker, pc[w] = "write"
               PROVE  /\ fd[w].linked /\ fd[w].off \in 0..Len(req[w].val) + 1
                      /\ files'[Target(w)] = Prefix(req[w].val, fd[w].off)
    BY <1>4 DEF WriterAtPrefix, Prefix, Encode, Header
  <2> QED
    BY <1>2, <1>4 DEF FileInv, WriterAtPrefix
<1>9. PutIsKnown'
  <2> SUFFICES ASSUME NEW w \in Worker, pc[w] \in {"unlock", "create", "write"},
                      req[w].op = "put"
               PROVE  req[w].val \in puts'[Target(w)]
    BY DEF PutIsKnown, Target
  <2>1. Target(w) \in Name /\ req[w].val \in puts[Target(w)]
    BY <1>1, RequestFacts DEF FileInv, PutIsKnown, WriteOps
  <2> QED
    BY <2>1
<1>10. ServedWasPut'
  BY DEF FileInv, ServedWasPut
<1> QED
  BY <1>3, <1>5, <1>6, <1>7, <1>8, <1>9, <1>10 DEF FileInv

\* A step that leaves files and history alone keeps what the server relies on.
LEMMA FilesStay ==
  ASSUME FileInv, UNCHANGED vars
  PROVE  FileInv'
BY FileStep, CliAssumption

\* The end of a reading, whatever came out of it.
LEMMA HaveReadKeeps ==
  ASSUME CliInv, at \in {"open", "read"}, NEW s \in Seq(Nat) \cup {NoSet}, HaveRead(s),
         s # NoSet => torn \/ s \in puts[File], cmd.op = "build" => s \in {NoSet, Built},
         UNCHANGED <<vars, cmd>>
  PROVE  ProcessInv'
<1> DEFINE all == Append(operands, [ids |-> s, torn |-> torn])
           g == [i \in DOMAIN all |-> all[i].ids]
<1>1. /\ Running /\ Collected /\ Building /\ cmd \in Command /\ ~Refused(cmd)
      /\ Len(operands) < Len(cmd.names) /\ torn \in BOOLEAN
      /\ operands \in Seq([ids : Seq(Nat), torn : BOOLEAN])
  BY DEF CliInv, ProcessInv, Running, Steps
<1>2. /\ Len(cmd.names) \in Nat /\ Len(operands) \in Nat
      /\ cmd.op # "intersect" => Len(cmd.names) = 1
      /\ cmd.op = "build" /\ cmd.ids # Invalid => Built \in Value
      /\ cmd.ids # Invalid
  BY <1>1, CommandFacts DEF Refused
<1>3. File = cmd.names[Len(operands) + 1]
  BY <1>1, <1>2 DEF File
<1>4. /\ cells' = <<>> /\ inode' = Linked /\ torn' = FALSE
      /\ at' \in {"exited", "open"} /\ UNCHANGED <<cmd, files, puts>>
  BY DEF HaveRead, vars
<1>5. cells' \in Seq(Nat)
  BY <1>4
<1>6. CASE s = NoSet
  <2>1. at' = "exited" /\ operands' = operands
    BY <1>6 DEF HaveRead
  <2>2. cmd.op # "build" => shown' = Failure
    BY <1>6 DEF HaveRead
  <2>3. Running'
    BY <1>1, <1>4, <1>5, <2>1 DEF Running, Steps, Refused
  <2>4. Reading'
    BY <2>1 DEF Reading
  <2>5. Collected'
    BY <1>1, <1>2, <1>4, <2>1 DEF Collected
  <2>6. Answered'
    BY <1>4, <2>2 DEF Answered, Failure, Shown
  <2>7. cmd.op = "build" => shown'.count = 0 /\ operands' = <<>>
    <3> SUFFICES ASSUME cmd.op = "build" PROVE shown'.count = 0 /\ operands' = <<>>
      OBVIOUS
    <3>1. Len(operands) = 0
      <4>1. Len(cmd.names) = 1
        BY <1>2
      <4> QED
        BY <1>1, <1>2, <4>1
    <3>2. operands = <<>>
      BY <1>1, <3>1, EmptySeq
    <3>3. shown' = Printed(cmd, <<>>)
      BY <1>6 DEF HaveRead
    <3> QED
      BY <2>1, <3>2, <3>3 DEF Printed, Shown
  <2>8. Building'
    <3>1. cmd.op = "build" => files[File] = Prefix(Built, Len(Built) + 1)
      BY <1>1 DEF Building, Steps
    <3>2. cmd.op = "build" => File' = File /\ Built' = Built
      BY <1>4, <2>1 DEF File, Built
    <3> QED
      BY <1>2, <1>4, <2>1, <2>7, <3>1, <3>2 DEF Building, Prefix, Encode, Header
  <2> QED
    BY <2>3, <2>4, <2>5, <2>6, <2>8 DEF ProcessInv
<1>7. CASE s # NoSet
  <2>1. /\ all \in Seq([ids : Seq(Nat), torn : BOOLEAN]) /\ Len(all) = Len(operands) + 1
        /\ \A i \in 1..Len(operands) : all[i] = operands[i]
        /\ all[Len(operands) + 1] = [ids |-> s, torn |-> torn]
        /\ DOMAIN all = 1..Len(all)
    <3>1. [ids |-> s, torn |-> torn] \in [ids : Seq(Nat), torn : BOOLEAN]
      BY <1>1, <1>7
    <3> QED
      BY <1>1, <3>1, AppendProperties, LenProperties
  <2>2. /\ operands' = all
        /\ at' = IF Len(all) = Len(cmd.names) THEN "exited" ELSE "open"
        /\ shown' = IF Len(all) = Len(cmd.names) THEN Printed(cmd, g) ELSE None
    BY <1>7 DEF HaveRead
  <2> HIDE DEF all
  <2>3. Running'
    <3>1. at' = "open" => Len(operands') < Len(cmd.names)
      BY <1>1, <1>2, <2>1, <2>2
    <3> QED
      BY <1>1, <1>4, <1>5, <2>1, <2>2, <3>1 DEF Running, Steps, Refused
  <2>4. Reading'
    BY <1>4 DEF Reading
  <2>5. Collected'
    <3>1. ASSUME NEW i \in 1..Len(all)
          PROVE  all[i].torn \/ all[i].ids \in puts[cmd.names[i]]
      <4>1. CASE i = Len(operands) + 1
        BY <1>3, <1>7, <2>1, <4>1
      <4>2. CASE i # Len(operands) + 1
        <5>1. i \in 1..Len(operands)
          BY <1>2, <2>1, <4>2
        <5> QED
          BY <1>1, <2>1, <5>1 DEF Collected, Steps
      <4> QED
        BY <4>1, <4>2
    <3>2. Len(all) <= Len(cmd.names)
      BY <1>1, <1>2, <2>1
    <3> QED
      BY <1>4, <2>2, <3>1, <3>2 DEF Collected
  <2>6. at' = "exited" => Len(all) = Len(cmd.names) /\ shown' = Printed(cmd, g)
    BY <2>2
  <2>7. Answered'
    <3>1. g \in Seq(Seq(Nat))
      <4>1. \A i \in 1..Len(all) : all[i].ids \in Seq(Nat)
        <5>1. \A i \in 1..Len(all) : all[i] \in [ids : Seq(Nat), torn : BOOLEAN]
          BY <2>1, ElementOfSeq
        <5> QED
          BY <5>1
      <4>2. Len(all) \in Nat /\ g \in [1..Len(all) -> Seq(Nat)]
        BY <1>2, <2>1, <4>1
      <4> QED
        BY <4>2, FunctionIsSeq
    <3>2. g = [i \in DOMAIN operands |-> operands[i].ids]'
      BY <2>2
    <3> HIDE DEF g
    <3>3. at' = "exited" => \E c \in Command, h \in Seq(Seq(Nat)) :
            /\ c = cmd /\ h = g /\ shown' = Printed(c, h)
      BY <1>1, <2>6, <3>1 DEF Answered
    <3>4. cmd' = cmd /\ (at' = "exited" => Len(operands') = Len(cmd.names))
      BY <1>4, <2>2, <2>6
    <3>5. at' = "exited" => \E c \in Command, h \in Seq(Seq(Nat)) :
            /\ c = cmd' /\ h = [i \in DOMAIN operands |-> operands[i].ids]'
            /\ shown' = Printed(c, h)
      BY <3>2, <3>3, <3>4
    <3> QED
      BY <3>4, <3>5, ZenonT(30)
         DEF Answered, Printed, Shown, ContainsSorted, LowerBound, Intersect, IntersectMany,
             IntersectSorted, Elems
  <2>8. ASSUME cmd.op = "build"
        PROVE  /\ at' = "exited" /\ shown'.count = Len(Built) /\ operands' # <<>>
    <3>1. Len(operands) = 0 /\ Len(all) = 1 /\ Len(cmd.names) = 1
      <4>1. Len(cmd.names) = 1
        BY <1>2, <2>8
      <4>2. Len(operands) = 0
        BY <1>1, <1>2, <4>1
      <4> QED
        BY <2>1, <4>1, <4>2
    <3>2. at' = "exited" /\ shown' = Printed(cmd, g)
      BY <2>2, <3>1
    <3>3. g[1] = Built /\ DOMAIN g = 1..1
      BY <1>7, <2>1, <2>8, <3>1
    <3>4. g # <<>>
      BY <3>3
    <3> HIDE DEF g
    <3> QED
      BY <2>2, <2>8, <3>1, <3>2, <3>3, <3>4 DEF Printed, Shown
  <2>9. Building'
    <3> SUFFICES ASSUME cmd.op = "build"
                 PROVE  files[File] = Prefix(Built, Len(Built) + 1)
      <4>1. cmd.op = "build" => File' = File /\ Built' = Built
        BY <1>4 DEF File, Built
      <4>2. cmd.op = "build" =>
              /\ at' = "exited" /\ shown'.count = Len(Built) /\ operands' # <<>>
              /\ cmd.ids # Invalid
        BY <1>2, <2>8
      <4> QED
        BY <1>4, <4>1, <4>2 DEF Building, Prefix, Encode, Header
    <3> QED
      BY <1>1 DEF Building, Steps
  <2> QED
    BY <2>3, <2>4, <2>5, <2>7, <2>9 DEF ProcessInv
<1> QED
  BY <1>6, <1>7

LEMMA InitKeeps == CliInit => CliInv
<1> SUFFICES ASSUME CliInit PROVE CliInv
  OBVIOUS
<1>1. FileInv
  BY FileInit DEF CliInit
<1>2. Apart
  BY DEF CliInit, Apart
<1>3. <<>> \in Seq(Nat) /\ <<>> \in Seq([ids : Seq(Nat), torn : BOOLEAN])
  OBVIOUS
<1>4. ProcessInv
  BY <1>3 DEF CliInit, ProcessInv, Running, Steps, Reading, Collected, Answered, Building
<1> QED
  BY <1>1, <1>2, <1>4 DEF CliInv

\* The process starts, or is gone.
LEMMA LaunchKeeps ==
  ASSUME CliInv, NEW c \in Command, Launch(c)
  PROVE  FileInv' /\ ProcessInv'
<1>1. FileInv'
  BY FilesStay DEF CliInv, Launch
<1>2. /\ at = "none" /\ cmd' = c /\ UNCHANGED <<off, cells, inode, operands, torn>>
      /\ at' = IF Refused(c) THEN "exited" ELSE IF c.op = "build" THEN "create" ELSE "open"
      /\ shown' = IF Refused(c) THEN Failure ELSE None
  BY DEF Launch
<1>3. Running /\ operands = <<>> /\ Len(operands) = 0
  BY <1>2 DEF CliInv, ProcessInv, Running
<1>4. Len(c.names) \in Nat \ {0}
  BY CliAssumption, LenProperties, EmptySeq
<1>5. Running'
  BY <1>2, <1>3, <1>4 DEF Running, Steps, Refused
<1>6. at' \notin {"none", "write", "read"} /\ (at' = "exited" => shown' = Failure)
  BY <1>2
<1>7. at' = "open" => c.op # "build"
  BY <1>2
<1>8. Reading' /\ Collected' /\ Answered' /\ Building'
  BY <1>2, <1>3, <1>4, <1>6, <1>7 DEF Reading, Collected, Answered, Building, Failure, Shown
<1> QED
  BY <1>1, <1>5, <1>8 DEF ProcessInv

LEMMA GoneKeeps ==
  ASSUME CliInv, NoProcess, UNCHANGED vars
  PROVE  FileInv' /\ ProcessInv'
<1>1. FileInv'
  BY FilesStay DEF CliInv
<1>2. <<>> \in Seq(Nat) /\ <<>> \in Seq([ids : Seq(Nat), torn : BOOLEAN])
  OBVIOUS
<1>3. ProcessInv'
  BY <1>2 DEF NoProcess, ProcessInv, Running, Steps, Reading, Collected, Answered, Building
<1> QED
  BY <1>1, <1>3

LEMMA CreateKeeps ==
  ASSUME CliInv, BuildCreate
  PROVE  FileInv' /\ ProcessInv'
<1>1. /\ Running /\ Collected /\ Apart /\ FileInv /\ at = "create" /\ cmd.op = "build"
      /\ cmd \in Command /\ cmd.ids # Invalid
      /\ at' = "write" /\ off' = 0 /\ files' = [files EXCEPT ![File] = <<>>]
      /\ puts' = [puts EXCEPT ![File] = puts[File] \cup {Built}]
      /\ adrift' = adrift \cup {File}
      /\ UNCHANGED <<server, cmd, cells, inode, operands, torn, shown>>
  BY DEF CliInv, ProcessInv, Running, Steps, Refused, BuildCreate, Rewrite, Built
<1>2. Built \in Value /\ File \in Name
  BY <1>1, CommandFacts
<1>3. Len(Built) \in Nat /\ 0 \in 0..Len(Built) + 1 /\ Prefix(Built, 0) = <<>>
  <2>1. Len(Built) \in Nat
    BY <1>2, PrefixFacts, ServerAssumption, LenProperties
  <2> QED
    BY <2>1, SubSeqEmpty DEF Prefix
<1>4. /\ files \in [Name -> Cells \cup {NoFile}] /\ puts \in [Name -> SUBSET Value]
  BY <1>1 DEF FileInv, TypeOK
<1>5. /\ puts' \in [Name -> SUBSET Value] /\ \A m \in Name : puts[m] \subseteq puts'[m]
      /\ Built \in puts'[File]
  BY <1>1, <1>2, <1>4
<1>6. \A w \in Worker : ~Writing(w, File)
  BY <1>1 DEF Apart, File
<1>7. FileInv'
  BY <1>1, <1>2, <1>3, <1>5, <1>6, BuildKeepsFiles
<1>8. File' = File /\ Built' = Built /\ files'[File] = Prefix(Built, 0)
  BY <1>1, <1>2, <1>3, <1>4 DEF File, Built
<1>9. Running'
  BY <1>1 DEF Running, Steps, Refused
<1>10. Collected'
  <2> SUFFICES ASSUME NEW i \in 1..Len(operands)
               PROVE  operands[i].torn \/ operands[i].ids \in puts'[cmd.names[i]]
    BY <1>1 DEF Collected
  <2>1. cmd.names[i] \in Name
    BY <1>1, CommandFacts DEF Collected
  <2> QED
    BY <1>1, <1>5, <2>1 DEF Collected
<1>11. Reading' /\ Answered'
  BY <1>1 DEF Reading, Answered
<1>12. Building'
  BY <1>1, <1>3, <1>5, <1>8 DEF Building, Prefix, Encode, Header
<1> QED
  BY <1>7, <1>9, <1>10, <1>11, <1>12 DEF ProcessInv

\* A write system call of a build, which may be its last because it failed.
LEMMA WriteKeeps ==
  ASSUME CliInv, at = "write", NEW k \in 0..Left, BuildWrites(k),
         at' \in {"write", "open", "exited"}, at' = "open" => k = Left,
         at' = "exited" => shown' = Failure
  PROVE  FileInv' /\ ProcessInv'
<1>1. /\ Running /\ Collected /\ Building /\ Apart /\ FileInv /\ cmd.op = "build"
      /\ cmd \in Command /\ cmd.ids # Invalid /\ off' = off + k /\ puts' = puts
      /\ files' = [files EXCEPT ![File] =
           WriteAt(files[File], off, SubSeq(Encode(Built), off + 1, off + k))]
      /\ adrift' = adrift \cup {File}
      /\ UNCHANGED <<server, cmd, cells, inode, operands, torn>>
  BY DEF CliInv, ProcessInv, Running, Steps, Refused, BuildWrites, Rewrite, Built
<1>2. Built \in Value /\ Built \in Seq(Nat) /\ Len(Built) \in Nat /\ File \in Name
  BY <1>1, CommandFacts, ServerAssumption, LenProperties
<1>3. /\ off \in 0..Len(Built) + 1 /\ Built \in puts[File]
      /\ files[File] = Prefix(Built, off)
  BY <1>1 DEF Building
<1>4. Len(Encode(Built)) = Len(Built) + 1 /\ Encode(Built) \in Seq(Nat)
  BY <1>2, EncodeCells
<1>5. k \in 0..(Len(Built) + 1 - off) /\ off + k \in 0..Len(Built) + 1
      /\ (at' = "open" => off + k = Len(Built) + 1)
  <2>1. Left = Len(Encode(Built)) - off
    BY DEF Left, Built
  <2> HIDE DEF Built
  <2> QED
    BY <1>2, <1>3, <1>4, <2>1
<1>6. files' = [files EXCEPT ![File] = Prefix(Built, off + k)]
  <2>1. SubSeq(SubSeq(Encode(Built), off + 1, Len(Encode(Built))), 1, k)
          = SubSeq(Encode(Built), off + 1, off + k)
    <3> DEFINE e == Encode(Built)
    <3>1. e \in Seq(Nat) /\ Len(e) = Len(Built) + 1 /\ \A i \in 1..Len(e) : e[i] \in Nat
      BY <1>4, ElementOfSeq
    <3> HIDE DEF e
    <3>2. /\ SubSeq(e, off + 1, Len(e)) \in Seq(Nat)
          /\ Len(SubSeq(e, off + 1, Len(e))) = Len(e) - off
          /\ \A i \in 1..Len(e) - off : SubSeq(e, off + 1, Len(e))[i] = e[off + i]
      BY <1>2, <1>3, <3>1, SubSeqProperties
    <3>3. /\ SubSeq(e, off + 1, off + k) \in Seq(Nat)
          /\ Len(SubSeq(e, off + 1, off + k)) = k
          /\ \A i \in 1..k : SubSeq(e, off + 1, off + k)[i] = e[off + i]
      BY <1>2, <1>3, <1>5, <3>1, SubSeqProperties
    <3> DEFINE r == SubSeq(e, off + 1, Len(e))
    <3>4. \A i \in 1..k : r[i] \in Nat /\ r[i] = e[off + i]
      BY <1>2, <1>3, <1>5, <3>1, <3>2
    <3> HIDE DEF r
    <3>5. /\ SubSeq(r, 1, k) \in Seq(Nat) /\ Len(SubSeq(r, 1, k)) = k
          /\ \A i \in 1..k : SubSeq(r, 1, k)[i] = r[i]
      BY <1>5, <3>4, SubSeqProperties
    <3>6. SubSeq(r, 1, k) = SubSeq(e, off + 1, off + k)
      BY <3>3, <3>4, <3>5, SeqEqual, SMTT(30)
    <3> QED
      BY <3>6 DEF e, r
  <2>2. WriteAt(Prefix(Built, off), off, SubSeq(Encode(Built), off + 1, off + k))
          = Prefix(Built, off + k)
    BY <1>2, <1>3, <1>5, <2>1, WriteExtends
  <2> QED
    BY <1>1, <1>3, <2>2
<1>7. \A w \in Worker : ~Writing(w, File)
  BY <1>1 DEF Apart, File
<1>8. files \in [Name -> Cells \cup {NoFile}] /\ puts \in [Name -> SUBSET Value]
  BY <1>1 DEF FileInv, TypeOK
<1>9. FileInv'
  <2>1. puts' \in [Name -> SUBSET Value] /\ Built \in puts'[File]
        /\ \A m \in Name : puts[m] \subseteq puts'[m]
    BY <1>1, <1>3, <1>8
  <2> HIDE DEF Built
  <2> QED
    BY <1>1, <1>2, <1>5, <1>6, <1>7, <2>1, BuildKeepsFiles
<1>10. File' = File /\ Built' = Built /\ files'[File] = Prefix(Built, off + k)
  BY <1>1, <1>2, <1>6, <1>8 DEF File, Built
<1>11. Running' /\ Collected'
  BY <1>1 DEF Running, Steps, Refused, Collected
<1>12. Reading' /\ Answered'
  BY <1>1 DEF Reading, Answered, Failure, Shown
<1>13. Building'
  <2>1. at' = "write" => off' \in 0..Len(Built) + 1 /\ files'[File] = Prefix(Built, off')
    BY <1>1, <1>5, <1>10
  <2>2. at' = "open" => /\ ~torn' /\ inode' = Linked
                        /\ files'[File] = Prefix(Built, Len(Built) + 1)
    BY <1>1, <1>5, <1>10 DEF Running
  <2>3. at' = "exited" => ~shown'.ok
    BY DEF Failure, Shown
  <2>4. Built \in puts'[File]
    BY <1>1, <1>3
  <2> QED
    BY <1>1, <1>10, <2>1, <2>2, <2>3, <2>4 DEF Building, Prefix, Encode, Header
<1> QED
  BY <1>9, <1>11, <1>12, <1>13 DEF ProcessInv

LEMMA OpenKeeps ==
  ASSUME CliInv, Open
  PROVE  FileInv' /\ ProcessInv'
<1>1. /\ at = "open" /\ files[File] # NoFile /\ UNCHANGED <<vars, cmd>>
      /\ FileInv /\ Running /\ Collected /\ Building
      /\ cmd \in Command /\ cmd.ids # Invalid
  BY DEF Open, CliInv, ProcessInv, Running, Steps, Refused
<1>2. FileInv'
  BY <1>1, FilesStay
<1>3. File \in Name
  BY <1>1, CommandFacts DEF Steps
<1>4. files[File] \in Seq(Nat)
  BY <1>1, <1>3 DEF FileInv, TypeOK, Cells
<1>5. at' = "read" /\ UNCHANGED <<off, cells, inode, operands, torn, shown>>
  BY DEF Open
<1>6. File' = File /\ Built' = Built /\ UNCHANGED <<files, puts, cmd>>
  BY <1>1, <1>5 DEF File, Built, vars
<1>7. cells = <<>> /\ inode = Linked
  BY <1>1 DEF Running
<1>8. Running' /\ Collected' /\ Answered'
  BY <1>1, <1>5, <1>6 DEF Running, Steps, Refused, Collected, Answered
<1>9. Building'
  BY <1>1, <1>5, <1>6 DEF Building, Prefix, Encode, Header
<1>10. Reading'
  <2>1. Source' = files[File]
    BY <1>5, <1>6, <1>7 DEF Source
  <2>2. \E v \in puts[File] : \E k \in 0..Len(v) + 1 : files[File] = Prefix(v, k)
    BY <1>1, <1>3 DEF FileInv, FilesArePrefixes
  <2>3. Len(cells) = 0 /\ Len(files[File]) \in Nat /\ 0 <= Len(files[File])
    BY <1>4, <1>7, LenProperties
  <2>4. UNCHANGED cells /\ Len(cells) <= Len(files[File])
        /\ \A i \in 1..Len(cells) : cells[i] = files[File][i]
    BY <1>5, <2>3
  <2> QED
    BY <1>1, <1>6, <2>1, <2>2, <2>4 DEF Reading, Prefix, Encode, Header
<1> QED
  BY <1>2, <1>8, <1>9, <1>10 DEF ProcessInv

LEMMA ReadFailsKeeps ==
  ASSUME CliInv, ReadFails
  PROVE  FileInv' /\ ProcessInv'
<1>1. at \in {"open", "read"} /\ HaveRead(NoSet) /\ UNCHANGED <<vars, cmd>>
  BY DEF ReadFails
<1>2. FileInv'
  BY <1>1, FilesStay DEF CliInv
<1>3. ProcessInv'
  BY <1>1, HaveReadKeeps
<1> QED
  BY <1>2, <1>3

\* What a process reads is a sequence of cells.
LEMMA SourceType ==
  ASSUME CliInv, at = "read"
  PROVE  Source \in Seq(Nat) /\ Len(Source) \in Nat
<1>1. File \in Name /\ Running /\ TypeOK
  BY CommandFacts DEF CliInv, ProcessInv, FileInv, Steps
<1>2. files[File] \in Seq(Nat) \cup {NoFile} /\ inode \in Seq(Nat) \cup {Linked}
  BY <1>1 DEF TypeOK, Cells, Running
<1>3. inode = Linked => files[File] # NoFile
  BY DEF CliInv, ProcessInv, Reading
<1>4. Source \in Seq(Nat)
  BY <1>2, <1>3 DEF Source
<1> QED
  BY <1>4, LenProperties

LEMMA ReadSomeKeeps ==
  ASSUME CliInv, ReadSome
  PROVE  FileInv' /\ ProcessInv'
<1>1. /\ at = "read" /\ UNCHANGED <<vars, at, cmd, off, inode, operands, torn, shown>>
      /\ Running /\ Reading /\ Collected /\ Answered /\ Building
  BY DEF ReadSome, CliInv, ProcessInv
<1>2. PICK n \in Len(cells) + 1..Len(Source) :
        cells' = cells \o SubSeq(Source, Len(cells) + 1, n)
  BY DEF ReadSome
<1>3. FileInv'
  BY <1>1, FilesStay DEF CliInv
<1>4. Source \in Seq(Nat) /\ Len(Source) \in Nat /\ cells \in Seq(Nat) /\ Len(cells) \in Nat
  BY <1>1, SourceType, LenProperties DEF Running
<1>5. \A i \in 1..Len(Source) : Source[i] \in Nat
  BY <1>4, ElementOfSeq
<1> DEFINE chunk == SubSeq(Source, Len(cells) + 1, n)
<1>6. /\ chunk \in Seq(Nat) /\ Len(chunk) = n - Len(cells)
      /\ \A i \in 1..n - Len(cells) : chunk[i] = Source[Len(cells) + i]
  <2> HIDE DEF chunk
  <2> USE DEF chunk
  <2> QED
    BY <1>4, <1>5, SubSeqProperties
<1> HIDE DEF chunk
<1>7. /\ cells' \in Seq(Nat) /\ Len(cells') = n
      /\ \A i \in 1..n : cells'[i] = IF i <= Len(cells) THEN cells[i] ELSE chunk[i - Len(cells)]
  <2>1. cells' = cells \o chunk
    BY <1>2 DEF chunk
  <2>2. /\ cells \o chunk \in Seq(Nat) /\ Len(cells \o chunk) = Len(cells) + Len(chunk)
        /\ \A i \in 1..Len(cells) + Len(chunk) :
             (cells \o chunk)[i] = IF i <= Len(cells) THEN cells[i] ELSE chunk[i - Len(cells)]
    BY <1>4, <1>6, ConcatProperties
  <2>3. Len(cells) + Len(chunk) = n
    BY <1>4, <1>6
  <2> QED
    BY <2>1, <2>2, <2>3
<1>8. Running' /\ Collected' /\ Answered'
  <2>1. cells' \in Seq(Nat)
    BY <1>7
  <2>2. UNCHANGED <<at, cmd, inode, operands, torn, shown, puts>>
    BY <1>1 DEF vars
  <2>3. Running'
    BY <1>1, <2>1, <2>2 DEF Running, Steps, Refused
  <2> QED
    BY <1>1, <2>2, <2>3 DEF Collected, Answered
<1>9. File' = File /\ Built' = Built /\ Source' = Source /\ UNCHANGED <<files, puts>>
  BY <1>1 DEF File, Built, Source, vars
<1>10. Building'
  BY <1>1, <1>9 DEF Building, Prefix, Encode, Header
<1>11. ASSUME ~torn, NEW i \in 1..n PROVE cells'[i] = Source[i]
  <2>1. CASE i <= Len(cells)
    <3>1. i \in 1..Len(cells)
      BY <1>4, <2>1
    <3> QED
      BY <1>1, <1>7, <1>11, <2>1, <3>1 DEF Reading
  <2>2. CASE i > Len(cells)
    <3>1. i - Len(cells) \in 1..n - Len(cells) /\ Len(cells) + (i - Len(cells)) = i
          /\ ~(i <= Len(cells))
      BY <1>4, <2>2
    <3> QED
      BY <1>6, <1>7, <3>1
  <2> QED
    BY <1>4, <2>1, <2>2
<1>12. Reading'
  <2>1. inode = Linked => files[File] # NoFile
    BY <1>1 DEF Reading
  <2>2. ~torn => \E v \in puts[File] : \E k \in 0..Len(v) + 1 : Source = Prefix(v, k)
    BY <1>1 DEF Reading
  <2>3. n <= Len(Source)
    BY <1>4
  <2> QED
    BY <1>1, <1>7, <1>9, <1>11, <2>1, <2>2, <2>3 DEF Reading, Prefix, Encode, Header
<1> QED
  BY <1>3, <1>8, <1>10, <1>12 DEF ProcessInv

\* A file that was read to its end without being created anew is all that was read.
LEMMA ReadAll ==
  ASSUME CliInv, at = "read", ~torn, Len(Source) <= Len(cells)
  PROVE  cells = Source
<1>1. Source \in Seq(Nat) /\ Len(Source) \in Nat /\ cells \in Seq(Nat) /\ Len(cells) \in Nat
  BY SourceType, LenProperties DEF CliInv, ProcessInv, Running
<1>2. Len(cells) <= Len(Source) /\ \A i \in 1..Len(cells) : cells[i] = Source[i]
  BY DEF CliInv, ProcessInv, Reading
<1>3. Len(cells) = Len(Source)
  BY <1>1, <1>2
<1> QED
  BY <1>1, <1>2, <1>3, SeqEqual

LEMMA ReadEndsKeeps ==
  ASSUME CliInv, ReadEnds
  PROVE  FileInv' /\ ProcessInv'
<1> DEFINE s == ReadFile(cells)
<1>1. /\ at = "read" /\ Len(Source) <= Len(cells) /\ HaveRead(s) /\ UNCHANGED <<vars, cmd>>
      /\ FileInv /\ Running /\ Reading /\ Building /\ cmd \in Command /\ cmd.ids # Invalid
  BY DEF ReadEnds, CliInv, ProcessInv, Running, Steps, Refused
<1>2. FileInv'
  BY <1>1, FilesStay
<1>3. s \in Seq(Nat) \cup {NoSet}
  BY <1>1, ReadFileType DEF Running
<1>4. File \in Name /\ (cmd.op = "build" => Built \in Value) /\ puts \in [Name -> SUBSET Value]
  BY <1>1, CommandFacts DEF Steps, FileInv, TypeOK
<1>5. ASSUME s # NoSet, ~torn PROVE s \in puts[File]
  <2>1. PICK v \in puts[File] : \E k \in 0..Len(v) + 1 : Source = Prefix(v, k)
    BY <1>1, <1>5 DEF Reading
  <2>2. PICK k \in 0..Len(v) + 1 : Source = Prefix(v, k)
    BY <2>1
  <2>3. v \in Value /\ v \in Seq(Nat) /\ StrictlyIncreasing(v)
    BY <1>4, ServerAssumption
  <2>4. s = ReadFile(Prefix(v, k))
    BY <1>1, <1>5, <2>2, ReadAll
  <2> HIDE DEF s
  <2> QED
    BY <1>5, <2>3, <2>4, ReadPrefix
<1>6. ASSUME cmd.op = "build" PROVE s = Built
  <2>1. ~torn /\ inode = Linked /\ files[File] = Prefix(Built, Len(Built) + 1)
    BY <1>1, <1>6 DEF Building
  <2>2. cells = Prefix(Built, Len(Built) + 1)
    BY <1>1, <2>1, ReadAll DEF Source
  <2>3. Built \in Seq(Nat) /\ StrictlyIncreasing(Built) /\ Len(Built) + 1 \in 0..Len(Built) + 1
    BY <1>4, <1>6, ServerAssumption, LenProperties
  <2> HIDE DEF Built
  <2> QED
    BY <2>2, <2>3, ReadPrefix
<1> HIDE DEF s
<1>7. ProcessInv'
  BY <1>1, <1>3, <1>5, <1>6, HaveReadKeeps
<1> QED
  BY <1>2, <1>7

\* Every step, of the server or of a process, keeps what commands rely on.
LEMMA CliStep ==
  ASSUME CliInv, [CliNext]_cliVars
  PROVE  CliInv'
<1>0. ~Overlap /\ Running
  BY CliAssumption DEF CliInv, ProcessInv
<1>1. CASE UNCHANGED cliVars
  <2>1. UNCHANGED vars /\ UNCHANGED <<at, cmd, off, cells, inode, operands, torn, shown>>
    BY <1>1 DEF cliVars, process
  <2>2. FileInv'
    BY <2>1, FilesStay DEF CliInv
  <2>3. UNCHANGED <<files, puts, pc, req>> /\ File' = File /\ Built' = Built /\ Source' = Source
    BY <2>1 DEF vars, File, Built, Source
  <2>4. Apart'
    BY <2>1, <2>3 DEF CliInv, Apart, Writing, Target
  <2>5. Running' /\ Collected' /\ Answered'
    BY <2>1, <2>3 DEF CliInv, ProcessInv, Running, Steps, Refused, Collected, Answered
  <2>6. Reading' /\ Building'
    BY <2>1, <2>3 DEF CliInv, ProcessInv, Reading, Building, Prefix, Encode, Header
  <2> QED
    BY <2>2, <2>4, <2>5, <2>6 DEF CliInv, ProcessInv
<1>2. CASE Apart' /\ Process
  <2> SUFFICES FileInv' /\ ProcessInv'
    BY <1>2 DEF CliInv
  <2>1. CASE \E c \in Command : Launch(c)
    BY <2>1, LaunchKeeps
  <2>2. CASE BuildCreate
    BY <2>2, CreateKeeps
  <2>3. ASSUME at = "write" PROVE Left \in Nat
    <3>1. off \in 0..Len(Built) + 1 /\ Built \in Value /\ cmd.op = "build"
      BY <1>0, <2>3, CommandFacts DEF CliInv, ProcessInv, Building, Running, Steps, Refused
    <3>2. Len(Encode(Built)) = Len(Built) + 1 /\ Len(Built) \in Nat
      BY <3>1, ServerAssumption, EncodeCells, LenProperties
    <3>3. Left = Len(Encode(Built)) - off
      BY DEF Left, Built
    <3> QED
      BY <3>1, <3>2, <3>3
  <2>4. CASE BuildFlush
    <3> DEFINE k == IF Left < ChunkCells THEN Left ELSE ChunkCells
    <3>1. /\ at = "write" /\ BuildWrites(k) /\ UNCHANGED shown
          /\ at' = IF Left - k <= 0 THEN "open" ELSE "write"
      BY <2>4 DEF BuildFlush, WriteOut
    <3>2. k \in 0..Left /\ (Left - k <= 0 => k = Left)
      BY <2>3, <3>1, ServerAssumption
    <3> HIDE DEF k
    <3> QED
      BY <3>1, <3>2, WriteKeeps
  <2>5. CASE BuildFails
    <3>1. CASE at = "create" /\ UNCHANGED <<vars, cmd, off, cells, inode, operands, torn>>
      <4>1. at' = "exited" /\ shown' = Failure
        BY <2>5 DEF BuildFails
      <4>2. FileInv'
        BY <3>1, FilesStay DEF CliInv
      <4>3. Running' /\ Collected'
        BY <3>1, <4>1 DEF CliInv, ProcessInv, Running, Steps, Refused, Collected, vars
      <4>4. Reading' /\ Building' /\ Answered'
        BY <4>1 DEF Reading, Building, Answered, Failure, Shown
      <4> QED
        BY <4>2, <4>3, <4>4 DEF ProcessInv
    <3>2. ASSUME at = "write", NEW k \in 0..ChunkCells - 1, k < Left, BuildWrites(k)
          PROVE  FileInv' /\ ProcessInv'
      <4>1. at' = "exited" /\ shown' = Failure
        BY <2>5 DEF BuildFails
      <4>2. k \in 0..Left
        BY <2>3, <3>2, ServerAssumption
      <4> QED
        BY <3>2, <4>1, <4>2, WriteKeeps
    <3> QED
      BY <2>5, <3>1, <3>2 DEF BuildFails
  <2>6. CASE Open
    BY <2>6, OpenKeeps
  <2>7. CASE ReadSome
    BY <2>7, ReadSomeKeeps
  <2>8. CASE ReadEnds
    BY <2>8, ReadEndsKeeps
  <2>9. CASE ReadFails
    BY <2>9, ReadFailsKeeps
  <2>10. CASE Exit \/ Killed
    BY <2>10, GoneKeeps DEF Exit, Killed
  <2> QED
    BY <1>2, <2>1, <2>2, <2>4, <2>5, <2>6, <2>7, <2>8, <2>9, <2>10 DEF Process
<1>3. CASE Next /\ Watched /\ Apart'
  BY <1>0, <1>3, ServerKeeps
<1> QED
  BY <1>1, <1>2, <1>3 DEF CliNext

-----------------------------------------------------------------------------
(* What commands answer and leave *)

LEMMA ValuesAscend == \A v \in Value : v \in AscendingSeqs
<1> TAKE v \in Value
<1>1. v \in Seq(Nat) /\ StrictlyIncreasing(v)
  BY ServerAssumption
<1>2. Ascending(v)
  BY <1>1, NeighboursAscend DEF StrictlyIncreasing
<1> QED
  BY <1>1, <1>2 DEF AscendingSeqs

\* A command prints what set theory says about the sets it read.
LEMMA PrintedIsExact ==
  ASSUME NEW c \in Command, c.op # "build", NEW g \in Seq(AscendingSeqs),
         Len(g) = Len(c.names)
  PROVE  LET common == {x \in Elems(g[1]) : \A i \in DOMAIN g : x \in Elems(g[i])}
         IN  Printed(c, g) = IF c.op = "has" THEN Shown(TRUE, 0, common \cap Elems(c.ids))
                             ELSE Shown(TRUE, Cardinality(common),
                                        IF c.op = "info" THEN {} ELSE common)
<1> DEFINE common == {x \in Elems(g[1]) : \A i \in DOMAIN g : x \in Elems(g[i])}
<1>1. /\ c.names \in Seq(Name) \ {<<>>} /\ c.op \in {"info", "has", "intersect"}
      /\ c.op # "intersect" => Len(c.names) = 1
      /\ c.ids \in Seq(Nat)
  BY CliAssumption
<1>2. Len(g) \in Nat \ {0} /\ DOMAIN g = 1..Len(g) /\ g # <<>>
  BY <1>1, LenProperties, EmptySeq
<1>3. g[1] \in Seq(Nat) /\ Ascending(g[1])
  BY <1>2, ElementOfSeq DEF AscendingSeqs
<1>4. common = InAll(g)
  BY <1>2 DEF InAll
<1>5. c.op # "intersect" => common = Elems(g[1])
  <2> SUFFICES ASSUME c.op # "intersect" PROVE common = Elems(g[1])
    OBVIOUS
  <2>1. Len(g) = 1
    BY <1>1
  <2>2. \A i \in DOMAIN g : i = 1
    BY <1>2, <2>1
  <2> QED
    BY <2>2
<1>6. CASE c.op = "has"
  <2>1. Elems(c.ids) \subseteq Nat
    BY <1>1, ElemsFacts
  <2>2. \A x \in Elems(c.ids) : ContainsSorted(g[1], x) <=> x \in Elems(g[1])
    BY <1>3, <2>1, AscendingIsSorted, ContainsIsMembership
  <2>3. {x \in Elems(c.ids) : ContainsSorted(g[1], x)} = Elems(g[1]) \cap Elems(c.ids)
    BY <2>2
  <2>4. Printed(c, g) = Shown(TRUE, 0, {x \in Elems(c.ids) : ContainsSorted(g[1], x)})
    BY <1>6 DEF Printed
  <2> HIDE DEF common
  <2> QED
    BY <1>5, <1>6, <2>3, <2>4 DEF common
<1>7. CASE c.op = "info"
  <2>1. Printed(c, g) = Shown(TRUE, Len(g[1]), {})
    BY <1>7 DEF Printed
  <2>2. Cardinality(Elems(g[1])) = Len(g[1])
    BY <1>3, CountAscending
  <2>3. Printed(c, g) = Shown(TRUE, Cardinality(common), {})
    BY <1>5, <1>7, <2>1, <2>2
  <2> QED
    BY <1>7, <2>3
<1>8. CASE c.op = "intersect"
  <2>1. Printed(c, g) = Shown(TRUE, Len(Intersect(g)), Elems(Intersect(g)))
    BY <1>8 DEF Printed
  <2>2. Intersect(g) \in AscendingSeqs /\ Elems(Intersect(g)) = common
    BY <1>2, <1>4, IntersectIsIntersection
  <2>3. Cardinality(Elems(Intersect(g))) = Len(Intersect(g))
    BY <2>2, CountAscending DEF AscendingSeqs
  <2>4. Printed(c, g) = Shown(TRUE, Cardinality(common), common)
    BY <2>1, <2>2, <2>3
  <2> QED
    BY <1>8, <2>4
<1> QED
  BY <1>1, <1>6, <1>7, <1>8

LEMMA QueriesExact == CliInv => QueriesReadWholeSets
<1> SUFFICES ASSUME CliInv, at = "exited", shown.ok, cmd.op # "build",
                    \A i \in DOMAIN operands : ~operands[i].torn
             PROVE  \E f \in [DOMAIN cmd.names -> UNION {puts[n] : n \in Name}] :
                      LET common == {x \in Elems(f[1]) : \A i \in DOMAIN f : x \in Elems(f[i])}
                      IN  /\ \A i \in DOMAIN f : f[i] \in puts[cmd.names[i]]
                          /\ shown = IF cmd.op = "has"
                                     THEN Shown(TRUE, 0, common \cap Elems(cmd.ids))
                                     ELSE Shown(TRUE, Cardinality(common),
                                                IF cmd.op = "info" THEN {} ELSE common)
  BY DEF QueriesReadWholeSets
<1>1. Running /\ Collected /\ Answered /\ puts \in [Name -> SUBSET Value]
  BY DEF CliInv, ProcessInv, FileInv, TypeOK
<1>2. PICK g \in Seq(Seq(Nat)) :
        /\ g = [i \in DOMAIN operands |-> operands[i].ids] /\ shown = Printed(cmd, g)
  BY <1>1 DEF Answered
<1>3. /\ cmd \in Command /\ Len(operands) = Len(cmd.names)
      /\ cmd.names \in Seq(Name) /\ Len(cmd.names) \in Nat
      /\ DOMAIN operands = 1..Len(cmd.names) /\ DOMAIN cmd.names = 1..Len(cmd.names)
      /\ \A i \in 1..Len(cmd.names) : cmd.names[i] \in Name
  BY <1>1, CommandFacts, LenProperties DEF Answered, Running
<1>4. \A i \in 1..Len(cmd.names) : g[i] \in puts[cmd.names[i]] /\ g[i] \in Value
  <2> TAKE i \in 1..Len(cmd.names)
  <2>1. g[i] = operands[i].ids /\ ~operands[i].torn
    BY <1>2, <1>3
  <2>2. operands[i].torn \/ operands[i].ids \in puts[cmd.names[i]]
    BY <1>1, <1>3 DEF Collected
  <2> QED
    BY <1>1, <1>3, <2>1, <2>2
<1>5. g \in [DOMAIN cmd.names -> UNION {puts[n] : n \in Name}] /\ DOMAIN g = 1..Len(cmd.names)
  <2>1. \A i \in 1..Len(cmd.names) : g[i] \in UNION {puts[n] : n \in Name}
    BY <1>3, <1>4
  <2> QED
    BY <1>2, <1>3, <2>1
<1>6. g \in Seq(AscendingSeqs) /\ Len(g) = Len(cmd.names)
  <2>1. g \in [1..Len(cmd.names) -> AscendingSeqs]
    BY <1>4, <1>5, ValuesAscend
  <2> QED
    BY <1>3, <2>1, FunctionIsSeq
<1>7. \A i \in DOMAIN g : g[i] \in puts[cmd.names[i]]
  BY <1>4, <1>5
<1> DEFINE common == {x \in Elems(g[1]) : \A i \in DOMAIN g : x \in Elems(g[i])}
<1>8. shown = IF cmd.op = "has" THEN Shown(TRUE, 0, common \cap Elems(cmd.ids))
              ELSE Shown(TRUE, Cardinality(common), IF cmd.op = "info" THEN {} ELSE common)
  BY <1>2, <1>3, <1>6, PrintedIsExact
<1> HIDE DEF common
<1> QED
  BY <1>5, <1>7, <1>8 DEF common

LEMMA BuildsExact == CliInv => BuildLeavesItsSet
<1> SUFFICES ASSUME CliInv, at = "exited", shown.ok, cmd.op = "build"
             PROVE  /\ ReadFile(files[File]) # NoSet
                    /\ Elems(ReadFile(files[File])) = Elems(cmd.ids)
                    /\ Len(files[File]) = Cardinality(Elems(cmd.ids)) + 1
                    /\ shown.count = IF operands = <<>> THEN 0 ELSE Cardinality(Elems(cmd.ids))
  BY DEF BuildLeavesItsSet
<1>1. /\ Running /\ cmd.ids # Invalid
      /\ shown.count = IF operands = <<>> THEN 0 ELSE Len(Built)
      /\ files[File] = Prefix(Built, Len(Built) + 1)
  BY DEF CliInv, ProcessInv, Building
<1>2. Built \in Value /\ cmd.ids \in Seq(Nat)
  BY <1>1, CommandFacts
<1>3. /\ Built \in Seq(Nat) /\ StrictlyIncreasing(Built) /\ Len(Built) \in Nat
      /\ Len(Built) + 1 \in 0..Len(Built) + 1
  BY <1>2, ServerAssumption, LenProperties
<1>4. Elems(Built) = Elems(cmd.ids) /\ Cardinality(Elems(Built)) = Len(Built)
  BY <1>2, FinalizeFinalizes, CountAscending DEF AscendingSeqs, Built
<1> HIDE DEF Built
<1>5. ReadFile(files[File]) = Built /\ Built # NoSet
  BY <1>1, <1>3, ReadPrefix, ServerAssumption
<1>6. Len(files[File]) = Len(Built) + 1
  BY <1>1, <1>3, PrefixCells
<1> QED
  BY <1>1, <1>4, <1>5, <1>6

\* Commands that read files while the server writes, truncates and removes them, or is
\* killed, never take half a file for a set: what they print follows from sets that were
\* written whole under those names, for any number of files, workers and flushes.
\* (readSet over persist.go:51-77; cmdInfo, cmdHas, cmdIntersect in main.go.)
THEOREM CommandsReadWholeSets == CliSpec => []QueriesReadWholeSets
BY InitKeeps, CliStep, QueriesExact, PTL DEF CliSpec

\* A build that ends well leaves exactly the set of its input, whatever its order and
\* its repetitions, the size of the buffer, and what the server does to other names;
\* it prints the size of that set, or 0 when reading the file back failed.
\* (cmdBuild and writeSet in main.go; WriteFile in persist.go.)
THEOREM BuildsLeaveTheirSets == CliSpec => []BuildLeavesItsSet
BY InitKeeps, CliStep, BuildsExact, PTL DEF CliSpec

\* With commands that write and read files beside it the server never serves a set
\* nobody wrote under its name either, and all it holds keeps its type.
THEOREM ServedSetsWereWritten == CliSpec => [](TypeOK /\ ServedWasPut)
<1>1. CliInv => TypeOK /\ ServedWasPut
  BY DEF CliInv, FileInv
<1> QED
  BY <1>1, InitKeeps, CliStep, PTL DEF CliSpec

\* A build leaves its name out of step with the map, and no other name.
LEMMA BuildKeepsDisk ==
  ASSUME DiskInv, FileInv', NEW n \in Name,
         \A m \in Name : m # n => files'[m] = files[m],
         adrift' = adrift \cup {n}, UNCHANGED server
  PROVE  DiskInv'
<1> USE DEF server, lock
<1>1. \A m \in Name : m # n => Loaded(m)' = Loaded(m)
  BY LoadedSame
<1>2. DiskFollowsMemory'
  BY <1>1 DEF DiskInv, DiskFollowsMemory, InFlight, Target
<1>3. InFlightStored' /\ DownIsIdle'
  BY DEF DiskInv, InFlightStored, InFlight, Target, DownIsIdle
<1>4. NothingToForget'
  <2> SUFFICES ASSUME NEW w \in Worker, pc[w] = "unlock", req[w].op = "del",
                      got[w] = <<NoSet>>, Target(w) \notin adrift'
               PROVE  Loaded(Target(w))' = NoSet
    BY DEF NothingToForget, Target
  <2>1. Target(w) \in Name
    BY RequestFacts DEF DiskInv, FileInv, WriteOps
  <2>2. Target(w) # n /\ Loaded(Target(w)) = NoSet
    BY DEF DiskInv, NothingToForget
  <2>3. Target(w)' = Target(w) /\ files'[Target(w)] = files[Target(w)]
    BY <2>1, <2>2 DEF Target
  <2> QED
    BY <2>2, <2>3 DEF Loaded, ReadFile, StrictlyIncreasing
<1> QED
  BY <1>2, <1>3, <1>4 DEF DiskInv

LEMMA CliDiskStep ==
  ASSUME Persistent, CliInv, DiskInv, [CliNext]_cliVars
  PROVE  DiskInv'
<1>1. CliInv' /\ ~Overlap
  BY CliStep, CliAssumption
<1>2. CASE [Next]_vars
  BY <1>1, <1>2, DiskStep
<1>3. CASE BuildCreate \/ BuildFlush \/ BuildFails
  <2>1. CASE UNCHANGED vars
    BY <1>2, <2>1
  <2>2. CASE cmd.op = "build" /\ \E contents : Rewrite(contents)
    <3>1. PICK contents : Rewrite(contents)
      BY <2>2
    <3>2. at # "none"
      BY <1>3 DEF BuildCreate, BuildFlush, WriteOut, BuildFails
    <3>3. File \in Name /\ files \in [Name -> Cells \cup {NoFile}]
      BY <2>2, <3>2, CommandFacts DEF CliInv, ProcessInv, FileInv, TypeOK
    <3>4. /\ \A m \in Name : m # File => files'[m] = files[m]
          /\ adrift' = adrift \cup {File} /\ UNCHANGED server
      BY <3>1, <3>3 DEF Rewrite
    <3> QED
      BY <1>1, <3>3, <3>4, BuildKeepsDisk DEF CliInv
  <2>3. at \in {"create", "write"} => cmd.op = "build"
    BY DEF CliInv, ProcessInv, Running
  <2> QED
    BY <1>3, <2>1, <2>2, <2>3 DEF BuildCreate, BuildFlush, WriteOut, BuildFails, BuildWrites
<1>4. CASE UNCHANGED vars
  BY <1>2, <1>4
<1>5. CASE UNCHANGED cliVars
  BY <1>4, <1>5 DEF cliVars
<1> QED
  BY <1>2, <1>3, <1>4, <1>5
     DEF CliNext, Process, Launch, Open, ReadFails, ReadSome, ReadEnds, Exit, Killed

\* With commands beside the server too a restart finds what the map held: a build is
\* seen to leave its own name out of step with the map, and no other name.
THEOREM BuildsLeaveOtherNames ==
  ASSUME Persistent
  PROVE  CliSpec => []DiskFollowsMemory
<1>1. CliInit => CliInv /\ DiskInv
  BY InitKeeps, DiskInit DEF CliInit
<1>2. CliInv /\ DiskInv /\ [CliNext]_cliVars => CliInv' /\ DiskInv'
  BY CliStep, CliDiskStep
<1>3. DiskInv => DiskFollowsMemory
  BY DEF DiskInv
<1> QED
  BY <1>1, <1>2, <1>3, PTL DEF CliSpec

\* A process changes nothing that clients of the server can see.
LEMMA ProcessIsHidden ==
  ASSUME CliInv, StoreInv, CliInv', Process
  PROVE  StoreInv' /\ UNCHANGED Store!vars
<1>1. UNCHANGED server
  BY DEF Process, Launch, BuildCreate, BuildFlush, WriteOut, BuildFails, BuildWrites,
         Rewrite, Open, ReadFails, ReadSome, ReadEnds, Exit, Killed, vars, server, lock
<1>2. \/ files' = files
      \/ File \in Name /\ \A n \in Name : n # File => files'[n] = files[n]
  <2>1. files' = files \/ (at # "none" /\ cmd.op = "build" /\ \E c : Rewrite(c))
    <3>1. at \in {"create", "write"} => cmd.op = "build"
      BY DEF CliInv, ProcessInv, Running
    <3> QED
      BY <3>1 DEF Process, Launch, BuildCreate, BuildFlush, WriteOut, BuildFails, BuildWrites,
                  Open, ReadFails, ReadSome, ReadEnds, Exit, Killed, vars
  <2>2. ASSUME at # "none", cmd.op = "build", NEW c, Rewrite(c)
        PROVE  File \in Name /\ \A n \in Name : n # File => files'[n] = files[n]
    <3>1. File \in Name /\ files \in [Name -> Cells \cup {NoFile}]
      BY <2>2, CommandFacts DEF CliInv, ProcessInv, FileInv, TypeOK
    <3> QED
      BY <2>2, <3>1 DEF Rewrite
  <2> QED
    BY <2>1, <2>2
<1>3. FilesKnown'
  <2> SUFFICES ASSUME NEW n \in Name, files'[n] # NoFile, NEW i \in 2..Len(files'[n])
               PROVE  files'[n][i] \in Ids
    BY DEF FilesKnown, Ids, Elems
  <2>1. /\ files'[n] # NoFile => \E v \in puts'[n] : \E k \in 0..Len(v) + 1 :
             files'[n] = Prefix(v, k)
        /\ puts'[n] \subseteq Value
    BY DEF CliInv, FileInv, FilesArePrefixes, TypeOK, Prefix, Encode, Header
  <2>2. PICK v \in puts'[n] : \E k \in 0..Len(v) + 1 : files'[n] = Prefix(v, k)
    BY <2>1
  <2>3. PICK k \in 0..Len(v) + 1 : files'[n] = Prefix(v, k)
    BY <2>2
  <2>4. /\ v \in Value /\ v \in Seq(Nat) /\ Len(v) \in Nat /\ Len(Prefix(v, k)) = k
        /\ \A j \in 1..k : Prefix(v, k)[j] = Encode(v)[j]
    BY <2>1, <2>2, PrefixFacts
  <2>5. i \in 2..Len(v) + 1 /\ i \in 1..k
    BY <2>3, <2>4
  <2>6. files'[n][i] = v[i - 1] /\ i - 1 \in 1..Len(v)
    <3>1. Encode(v)[i] = v[i - 1]
      BY <2>4, <2>5, EncodeCells
    <3>2. Prefix(v, k)[i] = Encode(v)[i]
      BY <2>4, <2>5
    <3> QED
      BY <2>3, <2>4, <2>5, <3>1, <3>2
  <2>7. v[i - 1] \in Elems(v)
    BY <2>4, <2>6, ElemsFacts
  <2> QED
    BY <2>4, <2>6, <2>7, ValueFacts
<1>4. FewNames'
  <2> DEFINE P == {n \in Name : files[n] # NoFile}
  <2>1. IsFiniteSet(P \cup {File})
    BY FS_AddElement DEF StoreInv, FewNames
  <2>2. {n \in Name : files'[n] # NoFile} \subseteq P \cup {File}
    BY <1>2
  <2>3. IsFiniteSet({n \in Name : files'[n] # NoFile})
    BY <2>1, <2>2, FS_Subset
  <2> QED
    BY <1>1, <2>3 DEF StoreInv, FewNames, server
<1>5. TypeOK' /\ Control'
  BY DEF CliInv, FileInv
<1>6. /\ ReadersRegistered' /\ LoopsCopyTheMap' /\ Fresh' /\ DownIsIdle'
  BY <1>1 DEF StoreInv, ReadersRegistered, LoopsCopyTheMap, Looking, Malformed, Fresh, DownIsIdle,
              server, lock
<1>7. SetsAscend'
  BY <1>1 DEF StoreInv, SetsAscend, Ascending, Ids, Elems, server
<1>8. UNCHANGED Store!vars
  BY <1>1 DEF server, Store!vars, Contents, Phases, Bound, Phase
<1> QED
  BY <1>3, <1>4, <1>5, <1>6, <1>7, <1>8 DEF StoreInv

\* Requests stay atomic and exact with commands beside the server; what a build wrote
\* is one of the things a restart may load.
THEOREM ServerStaysLinearizable == CliSpec => Linearizable
<1>1. CliInit => CliInv /\ StoreInv /\ Store!Init
  <2> SUFFICES ASSUME CliInit PROVE CliInv /\ StoreInv /\ Store!Init
    OBVIOUS
  <2>1. \A w \in Worker : pc[w] = "idle"
    BY DEF CliInit, Init
  <2>2. \A w \in Worker : Phases[w] = "idle" /\ Bound[w] = NoReply
    BY <2>1, PhaseAt
  <2>3. Store!Init
    BY <2>2 DEF CliInit, Init, Store!Init, Phases, Bound, Contents
  <2> QED
    BY <2>3, InitKeeps, StoreInit DEF CliInit
<1>2. CliInv /\ StoreInv /\ [CliNext]_cliVars
        => CliInv' /\ StoreInv' /\ [Store!Next]_(Store!vars)
  <2> SUFFICES ASSUME CliInv, StoreInv, [CliNext]_cliVars
               PROVE  CliInv' /\ StoreInv' /\ [Store!Next]_(Store!vars)
    OBVIOUS
  <2>1. CliInv'
    BY CliStep
  <2>2. CASE Process
    BY <2>1, <2>2, ProcessIsHidden
  <2>3. CASE [Next]_vars
    BY <2>1, <2>3, StoreStep, StepRefines
  <2> QED
    BY <2>2, <2>3 DEF CliNext, cliVars
<1> QED
  BY <1>1, <1>2, PTL DEF CliSpec, Linearizable, Store!Spec
=============================================================================
