-------------------------- MODULE CoordinatorProofs --------------------------
(***************************************************************************)
(* Coordinator for any nodes, clients, words and calls: its types, the     *)
(* ranges of words, that no two goroutines read one connection, and that a *)
(* count it returns is exact.                                              *)
(***************************************************************************)
EXTENDS Coordinator, SetOpsProofs

-----------------------------------------------------------------------------
(* The ranges *)

\* Lo and Hi are bounds of intervals that adjoin, in order, within the words.
LEMMA RangeFacts ==
  ASSUME NEW p \in 0..Nodes, NEW q \in 0..Nodes, p <= q
  PROVE  /\ Lo(p) \in Int /\ 0 <= Lo(p) /\ Lo(p) <= Lo(q) /\ Lo(q) <= Words
         /\ p < Nodes => Hi(p) = Lo(p + 1)
         /\ Lo(0) = 0 /\ Lo(Nodes) = Words
<1>1. Nodes \in Nat \ {0} /\ Words \in Nat
  BY NodeAssumption
<1> DEFINE a == p * Words
           b == q * Words
           c == Nodes * Words
<1>2. a \in Int /\ b \in Int /\ c \in Int /\ 0 <= a /\ a <= b /\ b <= c
  BY <1>1
<1>3. /\ a \div Nodes \in Int /\ b \div Nodes \in Int
      /\ a \div Nodes <= b \div Nodes /\ b \div Nodes <= c \div Nodes
      /\ 0 <= a \div Nodes
  <2> HIDE DEF a, b, c
  <2> QED
    BY <1>1, <1>2
<1>4. c \div Nodes = Words
  BY <1>1
<1>5. (0 * Words) \div Nodes = 0
  BY <1>1
<1> QED
  BY <1>1, <1>3, <1>4, <1>5 DEF Lo, Hi

\* Every word belongs to exactly one node: a load stores each word once and a
\* gather counts each word once (cluster.go:192-200, 215-219).
THEOREM EveryWordHasOneNode ==
  \A k \in 0..Words - 1 :
    \E p \in Node : /\ Lo(p) <= k /\ k < Hi(p)
                    /\ \A q \in Node : (Lo(q) <= k /\ k < Hi(q)) => q = p
<1> SUFFICES ASSUME NEW k \in 0..Words - 1
             PROVE  \E p \in Node : /\ Lo(p) <= k /\ k < Hi(p)
                                    /\ \A q \in Node : (Lo(q) <= k /\ k < Hi(q)) => q = p
  OBVIOUS
<1>1. Nodes \in Nat \ {0} /\ Words \in Nat \ {0} /\ k \in Nat
  BY NodeAssumption
<1> DEFINE m == (k + 1) * Nodes - 1
           p == m \div Words
<1>2. m \in Nat /\ m < Words * Nodes
  <2>1. (k + 1) * Nodes <= Words * Nodes /\ (k + 1) * Nodes >= 1
    BY <1>1
  <2> QED
    BY <1>1, <2>1
<1>3. p \in Int /\ Words * p <= m /\ m < Words * p + Words
  <2> HIDE DEF m
  <2> QED
    BY <1>1, <1>2
<1>4. p \in Node
  <2> HIDE DEF p
  <2>1. Words * p < Words * Nodes /\ Words * (p + 1) > 0
    BY <1>1, <1>2, <1>3
  <2>2. p < Nodes
    BY <1>1, <1>3, <2>1
  <2>3. p + 1 > 0
    BY <1>1, <1>3, <2>1
  <2> QED
    BY <1>1, <1>3, <2>2, <2>3 DEF Node
<1>5. Lo(p) <= k
  <2> HIDE DEF p
  <2> DEFINE a == p * Words
             d == a \div Nodes
  <2>1. a \in Int /\ a < (k + 1) * Nodes
    BY <1>1, <1>3
  <2>2. d \in Int /\ Nodes * d <= a
    <3> HIDE DEF a
    <3> QED
      BY <1>1, <2>1
  <2>3. Nodes * d < Nodes * (k + 1)
    <3> HIDE DEF a, d
    <3> QED
      BY <1>1, <2>1, <2>2
  <2>4. d < k + 1
    <3> HIDE DEF a, d
    <3> QED
      BY <1>1, <2>2, <2>3
  <2> QED
    BY <1>1, <2>2, <2>4 DEF Lo
<1>6. k < Hi(p)
  <2> HIDE DEF p
  <2> DEFINE a == (p + 1) * Words
             d == a \div Nodes
  <2>1. a \in Int /\ a >= (k + 1) * Nodes
    BY <1>1, <1>3
  <2>2. d \in Int /\ a < Nodes * d + Nodes
    <3> HIDE DEF a
    <3> QED
      BY <1>1, <2>1
  <2>3. Nodes * (k + 1) < Nodes * (d + 1)
    <3> HIDE DEF a, d
    <3> QED
      BY <1>1, <2>1, <2>2
  <2>4. k + 1 < d + 1
    <3> HIDE DEF a, d
    <3> QED
      BY <1>1, <2>2, <2>3
  <2> QED
    BY <1>1, <2>2, <2>4 DEF Hi
<1>7. ASSUME NEW q \in Node, Lo(q) <= k, k < Hi(q)
      PROVE  q = p
  <2> HIDE DEF p
  <2>1. /\ p \in 0..Nodes /\ q \in 0..Nodes /\ p + 1 \in 0..Nodes /\ q + 1 \in 0..Nodes
        /\ p < Nodes /\ q < Nodes
    BY <1>1, <1>4 DEF Node
  <2>2. /\ Lo(p) \in Int /\ Lo(q) \in Int /\ Lo(p + 1) \in Int /\ Lo(q + 1) \in Int
        /\ Hi(p) = Lo(p + 1) /\ Hi(q) = Lo(q + 1)
    BY <2>1, RangeFacts
  <2>3. p + 1 <= q => Lo(p + 1) <= Lo(q)
    BY <2>1, RangeFacts
  <2>4. q + 1 <= p => Lo(q + 1) <= Lo(p)
    BY <2>1, RangeFacts
  <2> QED
    BY <1>1, <1>5, <1>6, <1>7, <2>1, <2>2, <2>3, <2>4
<1> QED
  BY <1>4, <1>5, <1>6, <1>7

-----------------------------------------------------------------------------
(* Types *)

Msg == [op : {"load", "stored", "query"}, name : Name, with : Name, words : Seq(Word),
        set : Global]
Goroutine ==
  {t \in [node : Node, serial : Nat, msg : Msg, at : {"write", "header", "body"},
          len : 0..MaxMsg, got : Seq(Bytes)] : Len(t.got) <= t.len}
Old == [of : Client, serial : Nat, queue : Seq(Msg)]
Result == [node : Node, ok : BOOLEAN, count : Nat]

\* What TypeOK needs of the variables it does not mention, to be inductive.
Control ==
  /\ inbox \in [Client -> [Node -> Seq(Msg)]] /\ late \in [Node -> SUBSET Old]
  /\ serial \in [Client -> Nat] /\ budget \in Budget
  /\ tasks \in [Client -> SUBSET Goroutine]
  /\ results \in [Client -> Seq(Result)]
  /\ value \in [Name -> SUBSET Global]
  /\ since \in [Client -> SUBSET Global]
  /\ \A c \in Client : pc[c] \in {"loading", "gathering"} => call[c] \in Call
  /\ \A c \in Client : pc[c] = "loading" => since[c] # {} /\ serial[c] > 0

TInv == TypeOK /\ Control

\* Replies carry naturals: the bits two slices share are finitely many.
LEMMA AndCountType ==
  ASSUME NEW s \in Seq(Word), NEW t \in Seq(Word)
  PROVE  AndCount(s, t) \in Nat
<1> DEFINE common == {k \in DOMAIN s : k \in DOMAIN t}
           S == {p \in common \X Bit : p[2] \in s[p[1]] /\ p[2] \in t[p[1]]}
<1>1. IsFiniteSet(DOMAIN s)
  <2>1. Len(s) \in Nat /\ DOMAIN s = 1..Len(s)
    BY LenProperties
  <2> QED
    BY <2>1, FS_Interval
<1>2. common \in SUBSET DOMAIN s
  OBVIOUS
<1>3. IsFiniteSet(common)
  BY <1>1, <1>2, FS_Subset
<1>4. IsFiniteSet(common \X Bit)
  BY <1>3, FS_Product, NodeAssumption
<1>5. S \in SUBSET (common \X Bit)
  OBVIOUS
<1>6. IsFiniteSet(S)
  BY <1>4, <1>5, FS_Subset
<1>7. Cardinality(S) \in Nat
  BY <1>6, FS_CardinalityType
<1> QED
  BY <1>7 DEF AndCount

\* A request is answered with twelve bytes.
LEMMA ReplyType ==
  ASSUME TypeOK, NEW k \in Node, NEW r \in Msg
  PROVE  Reply(Count(k, r)) \in Seq(Bytes)
<1>1. sets[k][r.name] \in Seq(Word) /\ sets[k][r.with] \in Seq(Word) /\ r.words \in Seq(Word)
  BY DEF TypeOK, NodeTypeOK, Msg
<1>2. /\ AndCount(sets[k][r.name], sets[k][r.with]) \in Nat
      /\ AndCount(sets[k][r.name], r.words) \in Nat
  BY <1>1, AndCountType
<1>3. Count(k, r) \in Nat
  BY <1>2 DEF Count, Msg
<1>4. \A i \in 1..12 : [at |-> i, count |-> Count(k, r)] \in Bytes
  BY <1>3 DEF Bytes
<1>5. [i \in 1..12 |-> [at |-> i, count |-> Count(k, r)]] \in Seq(Bytes)
  BY <1>4, IsASeq
<1> QED
  BY <1>5 DEF Reply

\* A node's slice of a global set is a sequence of words.
LEMMA SliceType ==
  ASSUME NEW g \in Global, NEW p \in Node
  PROVE  Slice(g, p) \in Seq(Word)
<1>1. p \in 0..Nodes /\ p + 1 \in 0..Nodes /\ p < Nodes
  BY NodeAssumption DEF Node
<1>2. /\ Lo(p) \in Int /\ Hi(p) \in Int /\ 0 <= Lo(p) /\ Lo(p) <= Hi(p) /\ Hi(p) <= Words
  <2>1. /\ Lo(p) \in Int /\ 0 <= Lo(p) /\ Lo(p) <= Lo(p + 1) /\ Hi(p) = Lo(p + 1)
        /\ Lo(p + 1) \in Int /\ Lo(p + 1) <= Words
    BY <1>1, RangeFacts
  <2> QED
    BY <2>1
<1>3. \A k \in 1..Hi(p) - Lo(p) : g[Lo(p) + k - 1] \in Word
  BY <1>2, NodeAssumption DEF Global
<1>4. Hi(p) - Lo(p) \in Nat
  BY <1>2
<1>5. [k \in 1..Hi(p) - Lo(p) |-> g[Lo(p) + k - 1]] \in Seq(Word)
  BY <1>3, <1>4, IsASeq
<1> QED
  BY <1>5 DEF Slice

LEMMA MessageType ==
  ASSUME NEW r \in Call, NEW words \in Seq(Word)
  PROVE  Message(r, words) \in Msg
BY ClientAssumption DEF Message, Msg

LEMMA MaxMsgType == MaxMsg \in Nat /\ 8 <= MaxMsg
BY SMT DEF MaxMsg

LEMMA TaskType ==
  ASSUME NEW c \in Client, NEW k \in Node, NEW msg \in Msg, serial'[c] \in Nat
  PROVE  Task(c, k, msg) \in Goroutine /\ Task(c, k, msg).serial = serial'[c]
<1>1. <<>> \in Seq(Bytes) /\ Len(<<>>) <= 0
  OBVIOUS
<1>2. 0 \in 0..MaxMsg
  BY MaxMsgType
<1> QED
  BY <1>1, <1>2 DEF Task, Goroutine

LEMMA EmptyType == Empty \in Global /\ Global # {}
<1>1. Empty \in Global
  BY DEF Empty, Global, Word
<1> QED
  BY <1>1

\* A budget says what each of finitely many calls of a client may be.
LEMMA BudgetType ==
  ASSUME budget \in Budget
  PROVE  \A c \in Client : Len(budget.calls[c]) \in Nat
<1>1. budget.calls \in [Client -> Seq(SUBSET Call)]
  BY ClientAssumption
<1>2. \A c \in Client : budget.calls[c] \in Seq(SUBSET Call)
  BY <1>1
<1> QED
  BY <1>2, LenProperties

LEMMA InitTypes == Init => TInv
<1> SUFFICES ASSUME Init PROVE TInv
  OBVIOUS
<1> USE DEF Init, ClientInit, NodeInit
<1>1. NodeTypeOK
  BY DEF NodeTypeOK
<1>2. \A c \in Client : Len(budget.calls[c]) \in Nat
  BY BudgetType
<1>3. TypeOK
  <2>1. /\ pc \in [Client -> Labels] /\ call \in [Client -> Call \cup {NoCall}]
        /\ todo \in [Client -> SUBSET Node]
    BY DEF Labels
  <2>2. \A c \in Client : serial[c] \in 0..Len(budget.calls[c])
    BY <1>2
  <2>3. \A c \in Client : tasks[c] = {}
    OBVIOUS
  <2>4. DOMAIN value = Name /\ \A y \in Name : value[y] # {} /\ value[y] \subseteq Global
    BY EmptyType
  <2> QED
    BY <1>1, <2>1, <2>2, <2>3, <2>4 DEF TypeOK
<1>4. Control
  BY EmptyType DEF Control
<1> QED
  BY <1>3, <1>4 DEF TInv

\* Serials of goroutines are those of calls that began.
Serials == \A c \in Client : \A t \in tasks[c] : t.serial \in 1..serial[c]

\* TInv, but for the goroutines' share in TypeOK, which follows from these two.
LEMMA SplitTypes ==
  TInv <=> /\ NodeTypeOK /\ Control /\ Serials
           /\ pc \in [Client -> Labels] /\ \A c \in Client : serial[c] \in 0..Len(budget.calls[c])
           /\ call \in [Client -> Call \cup {NoCall}]
           /\ todo \in [Client -> SUBSET Node]
           /\ \A x \in Name : value[x] # {}
<1>1. Control => \A c \in Client : \A t \in tasks[c] :
           t.node \in Node /\ t.len \in 0..MaxMsg /\ Len(t.got) <= t.len
  BY DEF Control, Goroutine
<1>2. Control => DOMAIN value = Name /\ \A x \in Name : value[x] \subseteq Global
  BY DEF Control
<1> QED
  BY <1>1, <1>2 DEF TInv, TypeOK, Serials

\* A message added to or taken from one queue.
LEMMA QueueType ==
  ASSUME NEW S, NEW q \in [Client -> [Node -> S]], NEW c \in Client, NEW k \in Node, NEW v \in S
  PROVE  [q EXCEPT ![c][k] = v] \in [Client -> [Node -> S]]
OBVIOUS

\* A goroutine that moves on keeps its types, and one that ends delivers a result.
LEMMA AdvanceTypes ==
  ASSUME TInv, NEW c \in Client, NEW t \in tasks[c],
         NEW at \in {"write", "header", "body"}, NEW len \in 0..MaxMsg,
         NEW got \in Seq(Bytes), Len(got) <= len,
         Advance(c, t, at, len, got), serial' = serial
  PROVE  tasks' \in [Client -> SUBSET Goroutine] /\ results' \in [Client -> Seq(Result)]
         /\ Serials'
<1>1. t \in Goroutine /\ tasks[c] \in SUBSET Goroutine
  BY DEF TInv, Control
<1>2. [t EXCEPT !.at = at, !.len = len, !.got = got] \in Goroutine
  BY <1>1, MaxMsgType DEF Goroutine
<1>3. tasks' = [tasks EXCEPT ![c] =
                   (@ \ {t}) \cup {[t EXCEPT !.at = at, !.len = len, !.got = got]}]
      /\ results' = results
  BY DEF Advance
<1>4. Serials'
  <2>1. [t EXCEPT !.at = at, !.len = len, !.got = got].serial = t.serial
    BY <1>1 DEF Goroutine
  <2>2. ASSUME NEW d \in Client, NEW u \in tasks'[d] PROVE u.serial \in 1..serial[d]
    BY <1>3, <2>1, SplitTypes DEF Serials, Control
  <2> QED
    BY <2>2 DEF Serials
<1> QED
  BY <1>1, <1>2, <1>3, <1>4 DEF TInv, Control

LEMMA DeliverTypes ==
  ASSUME TInv, NEW c \in Client, NEW t \in tasks[c], NEW ok \in BOOLEAN, NEW k \in Nat,
         Deliver(c, t, ok, k), serial' = serial
  PROVE  tasks' \in [Client -> SUBSET Goroutine] /\ results' \in [Client -> Seq(Result)]
         /\ Serials'
<1>1. t \in Goroutine /\ results[c] \in Seq(Result)
  BY DEF TInv, Control
<1>2. [node |-> t.node, ok |-> ok, count |-> k] \in Result
  BY <1>1 DEF Goroutine, Result
<1>3. Append(results[c], [node |-> t.node, ok |-> ok, count |-> k]) \in Seq(Result)
  BY <1>1, <1>2
<1>4. Serials'
  BY SplitTypes DEF Deliver, Serials, Control
<1> QED
  BY <1>1, <1>3, <1>4 DEF Deliver, TInv, Control

\* The same for the state after a step.
LEMMA JoinTypes ==
  ASSUME NodeTypeOK', Control', Serials',
         pc' \in [Client -> Labels], \A c \in Client : serial'[c] \in 0..Len(budget'.calls[c]),
         call' \in [Client -> Call \cup {NoCall}],
         todo' \in [Client -> SUBSET Node],
         \A x \in Name : value'[x] # {}
  PROVE  TInv'
<1>1. \A c \in Client : \A t \in tasks'[c] :
           t.node \in Node /\ t.len \in 0..MaxMsg /\ Len(t.got) <= t.len
  BY DEF Control, Goroutine
<1>2. DOMAIN value' = Name /\ \A x \in Name : value'[x] \subseteq Global
  BY DEF Control
<1> QED
  BY <1>1, <1>2 DEF TInv, TypeOK, Serials

\* Dial leaves no goroutines and no bytes.
LEMMA DialTypes ==
  ASSUME TInv, NEW c \in Client, Dial(c)
  PROVE  TInv'
<1> USE SplitTypes DEF Dial, historyVars, callVars
<1>1. NodeTypeOK'
  BY DEF NodeTypeOK
<1>5. late' \in [Node -> SUBSET Old]
  <2>1. \A k \in Node : Leftover(c, k, serial[c]) \in SUBSET Old
    BY DEF Leftover, Old, Control
  <2> QED
    BY <2>1 DEF Control
<1>2. Control'
  BY <1>5 DEF Control
<1>3. Serials'
  BY DEF Serials, Control
<1>4. /\ pc' \in [Client -> Labels] /\ \A d \in Client : serial'[d] \in 0..Len(budget'.calls[d])
      /\ call' \in [Client -> Call \cup {NoCall}]
      /\ todo' \in [Client -> SUBSET Node]
      /\ \A x \in Name : value'[x] # {}
  BY DEF Labels
<1> QED
  BY <1>1, <1>2, <1>3, <1>4, JoinTypes

\* A call that begins is counted, and its name and set are those of a call.
LEMMA BeginTypes ==
  ASSUME TInv, NEW c \in Client, NEW r \in Call, NEW l \in {"loading", "gathering"},
         Begin(c, r, l), budget' = budget
  PROVE  /\ NodeTypeOK'
         /\ inbox' \in [Client -> [Node -> Seq(Msg)]] /\ late' = late
         /\ pc' \in [Client -> Labels] /\ pc'[c] = l
         /\ \A d \in Client \ {c} : pc'[d] = pc[d] /\ call'[d] = call[d]
         /\ serial' \in [Client -> Nat]
         /\ serial'[c] = serial[c] + 1 /\ \A d \in Client \ {c} : serial'[d] = serial[d]
         /\ \A d \in Client : serial'[d] \in 0..Len(budget'.calls[d])
         /\ call' \in [Client -> Call \cup {NoCall}] /\ call'[c] = r
         /\ results' \in [Client -> Seq(Result)]
<1> USE DEF Begin, nodeVars
<1>1. NodeTypeOK'
  BY SplitTypes DEF NodeTypeOK
<1>2. pc \in [Client -> Labels] /\ call \in [Client -> Call \cup {NoCall}]
  BY SplitTypes
<1>3. serial \in [Client -> Nat] /\ results \in [Client -> Seq(Result)]
      /\ inbox \in [Client -> [Node -> Seq(Msg)]]
  BY DEF TInv, Control
<1>4. \A d \in Client : serial[d] \in 0..Len(budget.calls[d]) /\ Len(budget.calls[d]) \in Nat
  BY SplitTypes, BudgetType DEF Control
<1>5. \A d \in Client : serial'[d] \in 0..Len(budget'.calls[d])
  BY <1>3, <1>4
<1> QED
  BY <1>1, <1>2, <1>3, <1>5 DEF Labels

LEMMA BeginLoadTypes ==
  ASSUME TInv, NEW c \in Client, NEW r \in Call, BeginLoad(c, r)
  PROVE  TInv'
<1>1. Begin(c, r, "loading") /\ budget' = budget /\ tasks' = tasks
  BY DEF BeginLoad
<1>2. r.name \in Name /\ r.set \in Global
  BY ClientAssumption
<1>3. \A e \in Client : Loading(e, r.name) => call[e].set \in Global
  BY ClientAssumption, SplitTypes DEF Loading, Control
<1>4. value' \in [Name -> SUBSET Global] /\ \A x \in Name : value'[x] # {}
  BY <1>2, SplitTypes DEF Control, BeginLoad
<1>5. /\ since' \in [Client -> SUBSET Global]
      /\ since'[c] # {} /\ \A d \in Client : since[d] # {} => since'[d] # {}
  <2>1. since' = [d \in Client |->
           IF d = c THEN {r.set} \cup Underway(r.name) \cup
                         {call[e].set : e \in {e \in Client : Loading(e, r.name)}}
           ELSE IF Loading(d, r.name) THEN since[d] \cup {r.set} ELSE since[d]]
    BY DEF BeginLoad
  <2>2. {call[e].set : e \in {e \in Client : Loading(e, r.name)}} \in SUBSET Global
    BY <1>3
  <2>3. since \in [Client -> SUBSET Global]
    BY DEF TInv, Control
  <2>4. Underway(r.name) \in SUBSET Global
    BY <1>2, SplitTypes DEF Underway, Control
  <2> QED
    BY <1>2, <2>1, <2>2, <2>3, <2>4
<1>9. /\ NodeTypeOK'
      /\ inbox' \in [Client -> [Node -> Seq(Msg)]] /\ late' = late
      /\ pc' \in [Client -> Labels] /\ pc'[c] = "loading"
      /\ \A d \in Client \ {c} : pc'[d] = pc[d] /\ call'[d] = call[d]
      /\ serial' \in [Client -> Nat]
      /\ serial'[c] = serial[c] + 1 /\ \A d \in Client \ {c} : serial'[d] = serial[d]
      /\ \A d \in Client : serial'[d] \in 0..Len(budget'.calls[d])
      /\ call' \in [Client -> Call \cup {NoCall}] /\ call'[c] = r
      /\ results' \in [Client -> Seq(Result)]
  BY <1>1, BeginTypes
<1>10. ASSUME NEW d \in Client
       PROVE  /\ serial'[d] \in Nat /\ serial[d] \in Nat /\ serial[d] <= serial'[d]
              /\ d = c => serial'[d] > 0
  <2>1. serial[d] \in Nat /\ serial'[d] \in Nat
    BY <1>9, SplitTypes DEF Control
  <2>2. CASE d = c
    BY <2>1, <2>2, <1>9
  <2>3. CASE d # c
    BY <2>1, <2>3, <1>9
  <2> QED
    BY <2>1, <2>2, <2>3
<1>6. Control'
  <2>1. ASSUME NEW d \in Client, pc'[d] \in {"loading", "gathering"} PROVE call'[d] \in Call
    BY <1>9, <2>1, SplitTypes DEF Control
  <2>2. ASSUME NEW d \in Client, pc'[d] = "loading" PROVE since'[d] # {} /\ serial'[d] > 0
    <3>1. CASE d = c
      BY <1>5, <1>10, <3>1
    <3>2. CASE d # c
      <4>1. pc[d] = "loading" /\ since[d] # {} /\ serial[d] > 0
        BY <1>9, <2>2, <3>2, SplitTypes DEF Control
      <4> QED
        BY <1>5, <1>10, <4>1
    <3> QED
      BY <3>1, <3>2
  <2> QED
    BY <1>1, <1>4, <1>5, <1>9, <2>1, <2>2, SplitTypes DEF Control
<1>7. Serials'
  BY <1>1, <1>10, SplitTypes DEF Serials, Control
<1>8. todo' \in [Client -> SUBSET Node]
  BY SplitTypes DEF BeginLoad
<1> QED
  BY <1>4, <1>6, <1>7, <1>8, <1>9, JoinTypes

LEMMA GatherTypes ==
  ASSUME TInv, NEW c \in Client, NEW r \in Call, Gather(c, r)
  PROVE  TInv'
<1> DEFINE slices == [k \in Node |-> Slice(r.set, k)]
           msg(k) == Message(r, IF r.op = "query" THEN slices[k] ELSE <<>>)
           new == {Task(c, k, msg(k)) : k \in Node}
<1>1. /\ Begin(c, r, "gathering")
      /\ tasks' = [tasks EXCEPT ![c] = @ \cup new]
      /\ UNCHANGED <<todo, budget, value, since>>
  BY DEF Gather, BeginGather
<1>2. \A k \in Node : msg(k) \in Msg
  <2> TAKE k \in Node
  <2>1. r.set \in Global
    BY ClientAssumption
  <2>2. slices[k] \in Seq(Word)
    BY <2>1, SliceType
  <2>3. <<>> \in Seq(Word)
    OBVIOUS
  <2> QED
    BY <2>2, <2>3, MessageType
<1>3. new \in SUBSET Goroutine /\ \A t \in new : t.serial = serial'[c]
  <2> HIDE DEF msg
  <2>1. serial'[c] \in Nat
    BY <1>1, BeginTypes
  <2>2. \A k \in Node : Task(c, k, msg(k)) \in Goroutine /\ Task(c, k, msg(k)).serial = serial'[c]
    BY <1>2, <2>1, TaskType
  <2> QED
    BY <2>2
<1> HIDE DEF new
<1>4. tasks \in [Client -> SUBSET Goroutine]
  BY DEF TInv, Control
<1>9. /\ NodeTypeOK'
      /\ inbox' \in [Client -> [Node -> Seq(Msg)]] /\ late' = late
      /\ pc' \in [Client -> Labels] /\ pc'[c] = "gathering"
      /\ \A d \in Client \ {c} : pc'[d] = pc[d] /\ call'[d] = call[d]
      /\ serial' \in [Client -> Nat]
      /\ serial'[c] = serial[c] + 1 /\ \A d \in Client \ {c} : serial'[d] = serial[d]
      /\ \A d \in Client : serial'[d] \in 0..Len(budget'.calls[d])
      /\ call' \in [Client -> Call \cup {NoCall}] /\ call'[c] = r
      /\ results' \in [Client -> Seq(Result)]
  BY <1>1, BeginTypes
<1>5. Control'
  BY <1>1, <1>3, <1>4, <1>9, SplitTypes DEF Control
<1>6. Serials'
  BY <1>1, <1>3, <1>4, <1>9, SplitTypes DEF Serials, Control
<1> QED
  BY <1>1, <1>5, <1>6, <1>9, SplitTypes, JoinTypes

LEMMA LoadNextTypes ==
  ASSUME TInv, NEW c \in Client, LoadInOrder(c)
  PROVE  TInv'
<1>1. PICK k \in todo[c] : LoadNext(c, k, Slice(call[c].set, k))
  BY DEF LoadInOrder
<1> DEFINE t == Task(c, k, Message(call[c], Slice(call[c].set, k)))
<1>2. /\ serial' = serial /\ pc[c] = "loading"
      /\ tasks' = [tasks EXCEPT ![c] = @ \cup {t}]
      /\ UNCHANGED <<nodeVars, pc, call, todo, results, out, historyVars>>
  BY <1>1 DEF LoadNext
<1>3. k \in Node /\ call[c] \in Call /\ call[c].set \in Global
  BY <1>2, SplitTypes, ClientAssumption DEF Control
<1>4. serial[c] \in Nat /\ serial[c] > 0
  BY <1>2, SplitTypes DEF Control
<1>5. t \in Goroutine /\ t.serial \in 1..serial[c]
  <2>1. Message(call[c], Slice(call[c].set, k)) \in Msg
    BY <1>3, SliceType, MessageType
  <2> QED
    BY <1>2, <1>3, <1>4, <2>1, TaskType
<1> HIDE DEF t
<1>6. NodeTypeOK'
  BY <1>2, SplitTypes DEF NodeTypeOK, nodeVars
<1>7. Control'
  BY <1>2, <1>5, SplitTypes DEF Control, nodeVars, historyVars
<1>8. Serials'
  BY <1>2, <1>5, SplitTypes DEF Serials, Control
<1> QED
  BY <1>2, <1>6, <1>7, <1>8, SplitTypes, JoinTypes DEF historyVars

LEMMA LoadAckTypes ==
  ASSUME TInv, NEW c \in Client, LoadAck(c)
  PROVE  TInv'
<1>1. /\ UNCHANGED <<nodeVars, callVars, tasks, budget, since, seen>>
      /\ pc[c] = "loading"
      /\ pc' = pc \/ pc' = [pc EXCEPT ![c] = "returned"]
      /\ results' = [results EXCEPT ![c] = <<>>]
      /\ \E k : todo' = [todo EXCEPT ![c] = @ \ {k}]
      /\ value' = value \/ value' = [value EXCEPT ![call[c].name] = since[c]]
  BY DEF LoadAck, Return
<1>2. since[c] # {} /\ since[c] \in SUBSET Global
  BY <1>1, SplitTypes DEF Control
<1>3. value' \in [Name -> SUBSET Global] /\ \A x \in Name : value'[x] # {}
  BY <1>1, <1>2, SplitTypes DEF Control
<1>4. pc' \in [Client -> Labels] /\ \A d \in Client : pc'[d] \in {pc[d], "returned"}
  BY <1>1, SplitTypes DEF Labels
<1>5. todo' \in [Client -> SUBSET Node]
  BY <1>1, SplitTypes
<1>6. NodeTypeOK'
  BY <1>1, SplitTypes DEF NodeTypeOK, nodeVars
<1>7. Control'
  BY <1>1, <1>3, <1>4, SplitTypes DEF Control, nodeVars, callVars
<1>8. Serials'
  BY <1>1, SplitTypes DEF Serials, callVars
<1> QED
  BY <1>1, <1>3, <1>4, <1>5, <1>6, <1>7, <1>8, SplitTypes, JoinTypes DEF callVars

\* Collect and Taken change the client's own state only.
LEMMA EndTypes ==
  ASSUME TInv, NEW c \in Client, Collect(c) \/ Taken(c)
  PROVE  TInv'
<1>1. /\ UNCHANGED <<nodeVars, serial, tasks, budget, value>>
      /\ call' = call \/ call' = [call EXCEPT ![c] = NoCall]
      /\ todo' = todo \/ todo' = [todo EXCEPT ![c] = {}]
      /\ results' = results \/ results' = [results EXCEPT ![c] = <<>>]
      /\ since' = since \/ since' = [since EXCEPT ![c] = {}]
      /\ pc' = [pc EXCEPT ![c] = "returned"] \/ pc' = [pc EXCEPT ![c] = "idle"]
  BY DEF Collect, Taken, Return, callVars, historyVars
<1>2. pc' \in [Client -> Labels] /\ pc'[c] \in {"returned", "idle"}
      /\ \A d \in Client \ {c} : pc'[d] = pc[d] /\ call'[d] = call[d] /\ since'[d] = since[d]
  BY <1>1, SplitTypes, ZenonT(30) DEF Labels, Control
<1>3. /\ call' \in [Client -> Call \cup {NoCall}] /\ todo' \in [Client -> SUBSET Node]
      /\ results' \in [Client -> Seq(Result)] /\ since' \in [Client -> SUBSET Global]
  <2>1. call' \in [Client -> Call \cup {NoCall}] /\ todo' \in [Client -> SUBSET Node]
    BY <1>1, SplitTypes
  <2>2. results \in [Client -> Seq(Result)] /\ <<>> \in Seq(Result)
    BY SplitTypes DEF Control
  <2>3. results' \in [Client -> Seq(Result)]
    BY <1>1, <2>2
  <2>4. since' \in [Client -> SUBSET Global]
    BY <1>1, SplitTypes DEF Control
  <2> QED
    BY <2>1, <2>3, <2>4
<1>4. NodeTypeOK'
  BY <1>1, SplitTypes DEF NodeTypeOK, nodeVars
<1>5. Control'
  BY <1>1, <1>2, <1>3, SplitTypes DEF Control, nodeVars
<1>6. Serials'
  BY <1>1, SplitTypes DEF Serials
<1> QED
  BY <1>1, <1>2, <1>3, <1>4, <1>5, <1>6, SplitTypes, JoinTypes

\* A goroutine's step changes one inbox, one outbox, its task and the results.
\* What a Read returns is a part of what is on the connection.
LEMMA ArrivedType ==
  ASSUME NEW c \in Client, NEW t \in Goroutine, outbox[c][t.node] \in Seq(Bytes)
  PROVE  /\ Arrived(c, t) \in Seq(Bytes) /\ Len(Arrived(c, t)) \in Nat
         /\ Len(Arrived(c, t)) <= Len(outbox[c][t.node])
         /\ SubSeq(outbox[c][t.node], Len(Arrived(c, t)) + 1, Len(outbox[c][t.node]))
              \in Seq(Bytes)
<1> DEFINE o == outbox[c][t.node]
           m == Missing(t)
<1>1. m \in Nat
  BY MaxMsgType DEF Missing, Goroutine
<1>2. Arrived(c, t) = IF Len(o) < m THEN o ELSE SubSeq(o, 1, m)
  BY DEF Arrived
<1>3. Len(o) >= m => SubSeq(o, 1, m) \in Seq(Bytes) /\ Len(SubSeq(o, 1, m)) = m
  BY <1>1
<1> HIDE DEF m
<1>4. /\ Arrived(c, t) \in Seq(Bytes) /\ Len(Arrived(c, t)) \in Nat
      /\ Len(Arrived(c, t)) <= Len(o)
  BY <1>1, <1>2, <1>3
<1> QED
  BY <1>4

\* The end of a task delivers a natural, or ends all goroutines.
LEMMA FinishTypes ==
  ASSUME TInv, NEW c \in Client, NEW t \in tasks[c], NEW body \in Seq(Bytes),
         Finish(c, t, body), serial' = serial
  PROVE  tasks' \in [Client -> SUBSET Goroutine] /\ results' \in [Client -> Seq(Result)]
         /\ Serials'
<1>1. CASE Deliver(c, t, TRUE, 0)
  BY <1>1, DeliverTypes
<1>2. CASE tasks' = [tasks EXCEPT ![c] = {}] /\ results' = results
  BY <1>2, SplitTypes DEF Control, Serials
<1>3. ASSUME Len(body) >= 8,
             \E n \in IF SubSeq(body, 1, 8) = SubSeq(Reply(SubSeq(body, 1, 8)[1].count), 5, 12)
                      THEN {SubSeq(body, 1, 8)[1].count} ELSE Misread :
               Deliver(c, t, TRUE, n)
      PROVE  \E n \in Nat : Deliver(c, t, TRUE, n)
  <2>1. body[1] \in Bytes /\ SubSeq(body, 1, 8)[1] = body[1]
    BY <1>3
  <2>2. SubSeq(body, 1, 8)[1].count \in Nat
    BY <2>1 DEF Bytes
  <2> QED
    BY <1>3, <2>2, ClientAssumption
<1> QED
  BY <1>1, <1>2, <1>3, DeliverTypes DEF Finish

\* A goroutine's step changes one inbox, one outbox, its task and the results.
LEMMA RunTypes ==
  ASSUME TInv, NEW c \in Client, Run(c)
  PROVE  TInv'
<1>1. PICK t \in tasks[c] :
        Write(c, t) \/ ReadPart(c, t) \/ ReadHeader(c, t) \/ ReadBody(c, t) \/ ReadFails(c, t)
  BY DEF Run
<1>2. /\ t \in Goroutine /\ t.node \in Node /\ t.msg \in Msg
      /\ outbox[c][t.node] \in Seq(Bytes) /\ inbox[c][t.node] \in Seq(Msg)
  BY SplitTypes DEF Control, Goroutine, NodeTypeOK
<1>3. /\ UNCHANGED <<alive, sets, link, late, callVars, todo, historyVars>>
      /\ pc' = pc \/ pc' = [pc EXCEPT ![c] = "panicked"]
  BY <1>1 DEF Write, ReadPart, ReadHeader, ReadBody, ReadFails, Read, Finish
<1>4. inbox' \in [Client -> [Node -> Seq(Msg)]]
  <2>1. inbox' = inbox \/ inbox' = [inbox EXCEPT ![c][t.node] = Append(@, t.msg)]
    BY <1>1 DEF Write, ReadPart, ReadHeader, ReadBody, ReadFails, Read
  <2>2. Append(inbox[c][t.node], t.msg) \in Seq(Msg)
    BY <1>2
  <2>3. inbox \in [Client -> [Node -> Seq(Msg)]]
    BY SplitTypes DEF Control
  <2>4. [inbox EXCEPT ![c][t.node] = Append(inbox[c][t.node], t.msg)]
          \in [Client -> [Node -> Seq(Msg)]]
    BY <1>2, <2>2, <2>3, QueueType
  <2> QED
    BY <2>1, <2>3, <2>4
<1>5. outbox' \in [Client -> [Node -> Seq(Bytes)]]
  <2> DEFINE o == outbox[c][t.node]
             rest == SubSeq(o, Len(Arrived(c, t)) + 1, Len(o))
  <2>1. outbox' = outbox \/ outbox' = [outbox EXCEPT ![c][t.node] = rest]
    BY <1>1 DEF Write, ReadPart, ReadHeader, ReadBody, ReadFails, Read
  <2>2. rest \in Seq(Bytes)
    BY <1>2, ArrivedType
  <2>3. outbox \in [Client -> [Node -> Seq(Bytes)]]
    BY SplitTypes DEF NodeTypeOK
  <2>4. [outbox EXCEPT ![c][t.node] = rest] \in [Client -> [Node -> Seq(Bytes)]]
    <3> HIDE DEF rest
    <3> QED
      BY <1>2, <2>2, <2>3, QueueType
  <2> QED
    BY <2>1, <2>3, <2>4
<1>6. tasks' \in [Client -> SUBSET Goroutine] /\ results' \in [Client -> Seq(Result)]
      /\ Serials'
  <2> DEFINE a == Arrived(c, t)
  <2>1. serial' = serial
    BY <1>3 DEF callVars
  <2>2. CASE Write(c, t)
    <3>1. 4 \in 0..MaxMsg /\ <<>> \in Seq(Bytes) /\ Len(<<>>) <= 4
      BY MaxMsgType
    <3> QED
      BY <2>1, <2>2, <3>1, AdvanceTypes, DeliverTypes DEF Write
  <2>8. /\ a \in Seq(Bytes) /\ t.got \o a \in Seq(Bytes) /\ Len(t.got \o a) = Len(t.got) + Len(a)
        /\ t.len \in 0..MaxMsg /\ Len(t.got) \in Nat /\ Len(a) \in Nat
    BY <1>2, ArrivedType DEF Goroutine
  <2>3. CASE ReadPart(c, t)
    <3>1. Len(a) < t.len - Len(t.got) /\ t.at \in {"header", "body"}
          /\ Advance(c, t, t.at, t.len, t.got \o a)
      BY <2>3 DEF ReadPart, Read, Missing
    <3>2. Len(t.got \o a) <= t.len
      BY <2>8, <3>1
    <3> HIDE DEF a
    <3> QED
      BY <2>1, <2>8, <3>1, <3>2, AdvanceTypes
  <2>4. CASE ReadHeader(c, t)
    <3>1. \/ Deliver(c, t, FALSE, 0) \/ Finish(c, t, <<>>)
          \/ \E length \in 1..MaxMsg : Advance(c, t, "body", length, <<>>)
      BY <2>4 DEF ReadHeader
    <3>2. /\ <<>> \in Seq(Bytes) /\ Len(<<>>) = 0
          /\ \A length \in 1..MaxMsg : length \in 0..MaxMsg /\ 0 <= length
      BY MaxMsgType
    <3>3. ASSUME NEW length \in 1..MaxMsg, Advance(c, t, "body", length, <<>>)
          PROVE  tasks' \in [Client -> SUBSET Goroutine] /\ results' \in [Client -> Seq(Result)]
                 /\ Serials'
      BY <2>1, <3>2, <3>3, AdvanceTypes
    <3> QED
      BY <2>1, <3>1, <3>2, <3>3, DeliverTypes, FinishTypes
  <2>5. CASE ReadBody(c, t)
    BY <2>1, <2>5, <2>8, FinishTypes DEF ReadBody
  <2>7. CASE ReadFails(c, t)
    BY <2>1, <2>7, DeliverTypes DEF ReadFails
  <2> QED
    BY <1>1, <2>2, <2>3, <2>4, <2>5, <2>7
<1>7. NodeTypeOK'
  BY <1>3, <1>4, <1>5, SplitTypes DEF NodeTypeOK
<1>8. Control'
  BY <1>3, <1>4, <1>6, SplitTypes DEF Control, callVars, historyVars
<1>9. pc' \in [Client -> Labels]
  BY <1>3, SplitTypes DEF Labels
<1> QED
  BY <1>3, <1>6, <1>7, <1>8, <1>9, SplitTypes, JoinTypes DEF callVars, historyVars

LEMMA ServeTypes ==
  ASSUME TInv, NEW c \in Client, NEW k \in Node, Serve(c, k)
  PROVE  TInv'
<1> DEFINE r == Head(inbox[c][k])
<1>1. /\ inbox[c][k] # <<>>
      /\ inbox' = [inbox EXCEPT ![c][k] = Tail(inbox[c][k])]
      /\ sets' = sets \/ sets' = [sets EXCEPT ![k][r.name] = r.words]
      /\ outbox' = [outbox EXCEPT ![c][k] = outbox[c][k] \o Reply(Count(k, r))]
      /\ UNCHANGED <<alive, link, late, pc, callVars, todo, tasks, results, out, historyVars>>
  BY DEF Serve, Handle
<1>2. /\ inbox \in [Client -> [Node -> Seq(Msg)]] /\ outbox \in [Client -> [Node -> Seq(Bytes)]]
      /\ sets \in [Node -> [Name -> Seq(Word)]]
  BY SplitTypes DEF Control, NodeTypeOK
<1>3. r \in Msg /\ Tail(inbox[c][k]) \in Seq(Msg)
  BY <1>1, <1>2
<1>4. inbox' \in [Client -> [Node -> Seq(Msg)]]
  <2> HIDE DEF r
  <2> QED
    BY <1>1, <1>2, <1>3, QueueType
<1>5. outbox' \in [Client -> [Node -> Seq(Bytes)]]
  <2> HIDE DEF r
  <2>1. Reply(Count(k, r)) \in Seq(Bytes)
    BY <1>3, ReplyType DEF TInv
  <2>2. outbox[c][k] \o Reply(Count(k, r)) \in Seq(Bytes)
    BY <1>2, <2>1
  <2> QED
    BY <1>1, <1>2, <2>2, QueueType
<1>6. sets' \in [Node -> [Name -> Seq(Word)]]
  <2> HIDE DEF r
  <2>1. r.name \in Name /\ r.words \in Seq(Word)
    BY <1>3 DEF Msg
  <2>2. [sets EXCEPT ![k][r.name] = r.words] \in [Node -> [Name -> Seq(Word)]]
    BY <1>2, <2>1
  <2> QED
    BY <1>1, <1>2, <2>2
<1>7. NodeTypeOK'
  BY <1>1, <1>4, <1>5, <1>6, SplitTypes DEF NodeTypeOK
<1>8. Control'
  BY <1>1, <1>4, SplitTypes DEF Control, callVars, historyVars
<1>9. Serials'
  BY <1>1, SplitTypes DEF Serials, callVars
<1> QED
  BY <1>1, <1>7, <1>8, <1>9, SplitTypes, JoinTypes DEF callVars, historyVars

\* What a closed connection brings is served like what an open one brings.
LEMMA ServeLateTypes ==
  ASSUME TInv, NEW k \in Node, ServeLate(k)
  PROVE  TInv'
<1>1. PICK old \in late[k] : HandleLate(k, old) \/ HangUp(k, old)
  BY DEF ServeLate
<1> DEFINE r == Head(old.queue)
<1>2. /\ UNCHANGED <<alive, link, inbox, outbox, pc, callVars, todo, tasks, results, out, historyVars>>
      /\ \/ /\ old.queue # <<>>
            /\ late' = [late EXCEPT ![k] = (@ \ {old}) \cup {[old EXCEPT !.queue = Tail(@)]}]
         \/ late' = [late EXCEPT ![k] = @ \ {old}]
      /\ sets' = sets \/ (old.queue # <<>> /\ sets' = [sets EXCEPT ![k][r.name] = r.words])
  BY <1>1 DEF ServeLate, HandleLate, HangUp
<1>3. late \in [Node -> SUBSET Old] /\ old \in Old /\ old.queue \in Seq(Msg)
  BY SplitTypes DEF Control, Old
<1>4. old.queue # <<>> => r \in Msg /\ [old EXCEPT !.queue = Tail(@)] \in Old
  <2>1. old.queue # <<>> => r \in Msg /\ Tail(old.queue) \in Seq(Msg)
    BY <1>3
  <2> QED
    BY <1>3, <2>1 DEF Old
<1>5. late' \in [Node -> SUBSET Old]
  <2>1. PICK S : late' = [late EXCEPT ![k] = S] /\ S \in SUBSET Old
    <3>1. CASE /\ old.queue # <<>>
               /\ late' = [late EXCEPT ![k] = (@ \ {old}) \cup {[old EXCEPT !.queue = Tail(@)]}]
      <4> DEFINE new == [old EXCEPT !.queue = Tail(@)]
      <4>1. new \in Old /\ late[k] \in SUBSET Old
        BY <1>3, <1>4, <3>1
      <4>2. late' = [late EXCEPT ![k] = (late[k] \ {old}) \cup {new}]
        BY <3>1
      <4> HIDE DEF new
      <4> QED
        BY <4>1, <4>2
    <3>2. CASE late' = [late EXCEPT ![k] = @ \ {old}]
      BY <1>3, <3>2
    <3> QED
      BY <1>2, <3>1, <3>2
  <2> QED
    BY <1>3, <2>1
<1>6. sets' \in [Node -> [Name -> Seq(Word)]]
  <2>1. sets \in [Node -> [Name -> Seq(Word)]]
    BY SplitTypes DEF NodeTypeOK
  <2>2. old.queue # <<>> => r.name \in Name /\ r.words \in Seq(Word)
    BY <1>4 DEF Msg
  <2> HIDE DEF r
  <2>3. old.queue # <<>> =>
          [sets EXCEPT ![k][r.name] = r.words] \in [Node -> [Name -> Seq(Word)]]
    BY <2>1, <2>2
  <2> QED
    BY <1>2, <2>1, <2>3
<1>7. NodeTypeOK'
  BY <1>2, <1>5, <1>6, SplitTypes DEF NodeTypeOK, Control
<1>8. Control'
  BY <1>2, <1>5, SplitTypes DEF Control, callVars, historyVars
<1>9. Serials'
  BY <1>2, SplitTypes DEF Serials, callVars
<1> QED
  BY <1>2, <1>7, <1>8, <1>9, SplitTypes, JoinTypes DEF callVars, historyVars

LEMMA DeathTypes ==
  ASSUME TInv, NEW k \in Node, NodeDies(k)
  PROVE  TInv'
<1> USE DEF NodeDies, Crash
<1>1. /\ UNCHANGED <<pc, callVars, todo, tasks, results, out, budget, seen, outbox>>
      /\ value' = [x \in Name |-> value[x] \cup {Empty}]
      /\ since' = [c \in Client |-> IF pc[c] = "loading" THEN since[c] \cup {Empty} ELSE {}]
      /\ inbox' = [c \in Client |-> [inbox[c] EXCEPT ![k] = <<>>]]
  OBVIOUS
<1>2. inbox' \in [Client -> [Node -> Seq(Msg)]] /\ late' \in [Node -> SUBSET Old]
  BY <1>1, SplitTypes DEF Control
<1>3. value' \in [Name -> SUBSET Global] /\ \A x \in Name : value'[x] # {}
  BY <1>1, EmptyType, SplitTypes DEF Control
<1>4. since' \in [Client -> SUBSET Global] /\ \A c \in Client : pc[c] = "loading" => since'[c] # {}
  BY <1>1, EmptyType, SplitTypes DEF Control
<1>5. NodeTypeOK'
  <2>1. alive' \in [Node -> BOOLEAN] /\ sets' \in [Node -> [Name -> Seq(Word)]]
    BY SplitTypes DEF NodeTypeOK
  <2>2. link' \in [Client -> [Node -> {"closed", "open", "broken"}]]
    BY SplitTypes DEF NodeTypeOK
  <2> QED
    BY <1>1, <1>2, <2>1, <2>2, SplitTypes DEF NodeTypeOK
<1>6. Control'
  BY <1>1, <1>2, <1>3, <1>4, SplitTypes DEF Control, callVars
<1>7. Serials'
  BY <1>1, SplitTypes DEF Serials, callVars
<1> QED
  BY <1>1, <1>3, <1>5, <1>6, <1>7, SplitTypes, JoinTypes DEF callVars

LEMMA NetworkTypes ==
  ASSUME TInv, Network
  PROVE  TInv'
<1>1. UNCHANGED <<sets, link, inbox, late, pc, callVars, todo, tasks, results, out, historyVars>>
  BY DEF Network, Lose, Restart
<1>2. outbox' \in [Client -> [Node -> Seq(Bytes)]] /\ alive' \in [Node -> BOOLEAN]
  <2>1. outbox \in [Client -> [Node -> Seq(Bytes)]] /\ alive \in [Node -> BOOLEAN]
    BY SplitTypes DEF NodeTypeOK
  <2>2. CASE \E c \in Client, k \in Node : Lose(c, k)
    <3>1. PICK c \in Client, k \in Node : Lose(c, k)
      BY <2>2
    <3> DEFINE o == outbox[c][k]
    <3> DEFINE left == IF Len(o) > Piece THEN Len(o) - Piece ELSE 0
    <3>2. outbox' = [outbox EXCEPT ![c][k] = SubSeq(o, 1, left)] /\ alive' = alive
      BY <3>1 DEF Lose
    <3>3. SubSeq(o, 1, left) \in Seq(Bytes)
      BY <2>1, NodeAssumption
    <3> HIDE DEF o, left
    <3> QED
      BY <2>1, <3>2, <3>3, QueueType
  <2>3. CASE \E k \in Node : Restart(k)
    BY <2>1, <2>3 DEF Restart
  <2> QED
    BY <2>2, <2>3 DEF Network
<1>3. NodeTypeOK'
  BY <1>1, <1>2, SplitTypes DEF NodeTypeOK
<1>4. Control'
  BY <1>1, SplitTypes DEF Control, callVars, historyVars
<1>5. Serials'
  BY <1>1, SplitTypes DEF Serials, callVars
<1> QED
  BY <1>1, <1>3, <1>4, <1>5, SplitTypes, JoinTypes DEF callVars, historyVars

LEMMA StepTypes == TInv /\ [Next]_vars => TInv'
<1> SUFFICES ASSUME TInv, [Next]_vars PROVE TInv'
  OBVIOUS
<1>1. ASSUME NEW c \in Client, NEW r \in Call, BeginLoad(c, r) \/ Gather(c, r)
      PROVE  TInv'
  BY <1>1, BeginLoadTypes, GatherTypes
<1>2. ASSUME NEW c \in Client, Step(c) PROVE TInv'
  BY <1>2, LoadNextTypes, LoadAckTypes, EndTypes, RunTypes DEF Step
<1>3. CASE UNCHANGED vars
  BY <1>3, SplitTypes, JoinTypes
     DEF NodeTypeOK, Control, Serials, vars, nodeVars, callVars, historyVars
<1> QED
  BY <1>1, <1>2, <1>3, DialTypes, ServeTypes, ServeLateTypes, DeathTypes, NetworkTypes DEF Next

\* Every variable has its type, whatever nodes die and however the clients' calls
\* interleave (cluster.go).
THEOREM TypeCorrect == Spec => []TypeOK
<1>1. TInv => TypeOK
  BY DEF TInv
<1> QED
  BY InitTypes, StepTypes, <1>1, PTL DEF Spec

-----------------------------------------------------------------------------
(* One reader per connection *)

\* The goroutines of a client belong to its present call.  A load has at most one,
\* whose result it awaits; a gather has as many as results are missing, so that
\* none is left when all have come; between calls there is none.
Readers(c) ==
  /\ \A t \in tasks[c] : t.serial = serial[c]
  /\ \A t, u \in tasks[c] : t.node = u.node => t = u
  /\ pc[c] \in {"new", "idle", "returned"} => tasks[c] = {}
  /\ pc[c] = "loading" =>
       /\ \A t, u \in tasks[c] : t = u
       /\ results[c] # <<>> => tasks[c] = {}
  /\ pc[c] = "gathering" =>
       IsFiniteSet(tasks[c]) /\ Len(results[c]) + Cardinality(tasks[c]) = Nodes

RInv == TInv /\ \A c \in Client : Readers(c)

\* What a step leaves alone of a client.
LEMMA Untouched ==
  ASSUME NEW c \in Client, Readers(c), tasks'[c] = tasks[c], serial'[c] = serial[c],
         pc'[c] = pc[c], results'[c] = results[c]
  PROVE  Readers(c)'
BY DEF Readers

\* A step of client c changes nothing of another client's calls.
LEMMA Others ==
  ASSUME RInv, NEW c \in Client,
         tasks' = [tasks EXCEPT ![c] = tasks'[c]], serial' = [serial EXCEPT ![c] = serial'[c]],
         pc' = [pc EXCEPT ![c] = pc'[c]], results' = [results EXCEPT ![c] = results'[c]],
         Readers(c)'
  PROVE  \A d \in Client : Readers(d)'
<1> TAKE d \in Client
<1>1. CASE d = c
  BY <1>1
<1>2. CASE d # c
  <2>1. tasks'[d] = tasks[d] /\ serial'[d] = serial[d] /\ pc'[d] = pc[d] /\ results'[d] = results[d]
    BY <1>2, SplitTypes DEF RInv, Control
  <2> QED
    BY <2>1, Untouched DEF RInv
<1> QED
  BY <1>1, <1>2

\* A gather starts one goroutine per node.
LEMMA OnePerNode ==
  ASSUME NEW T, NEW f \in [Node -> T], \A p, q \in Node : f[p] = f[q] => p = q,
         T = {f[p] : p \in Node}
  PROVE  IsFiniteSet(T) /\ Cardinality(T) = Nodes
<1>1. f \in Bijection(Node, T)
  BY DEF Bijection, Injection, Surjection, IsInjective
<1>2. ExistsBijection(Node, T)
  BY <1>1 DEF ExistsBijection
<1>3. IsFiniteSet(Node) /\ Cardinality(Node) = Nodes
  <2>1. Nodes - 1 \in Int /\ 0 \in Int /\ Nodes \in Nat \ {0}
    BY NodeAssumption
  <2>2. IsFiniteSet(0..Nodes - 1)
        /\ Cardinality(0..Nodes - 1) = IF 0 > Nodes - 1 THEN 0 ELSE Nodes - 1 - 0 + 1
    BY <2>1, FS_Interval
  <2> QED
    BY <2>1, <2>2 DEF Node
<1> QED
  BY <1>2, <1>3, FS_Bijection

\* A goroutine that moves on is the only one of its node still.
LEMMA AdvanceReaders ==
  ASSUME RInv, NEW c \in Client, NEW t \in tasks[c],
         NEW at, NEW len, NEW got, Advance(c, t, at, len, got), UNCHANGED <<serial, pc>>
  PROVE  \A d \in Client : Readers(d)'
<1> DEFINE u == [t EXCEPT !.at = at, !.len = len, !.got = got]
<1>1. /\ tasks' = [tasks EXCEPT ![c] = (tasks[c] \ {t}) \cup {u}]
      /\ tasks \in [Client -> SUBSET Goroutine] /\ results' = results
  BY SplitTypes DEF Advance, RInv, Control
<1>2. tasks'[c] = (tasks[c] \ {t}) \cup {u}
  BY <1>1
<1>3. u.node = t.node /\ u.serial = t.serial /\ t \in Goroutine
  BY <1>1 DEF Goroutine
<1> HIDE DEF u
<1>4. Readers(c)
  BY DEF RInv
<1>5. \A v \in tasks[c] \ {t} : v.node # t.node
  BY <1>4 DEF Readers
<1>6. IsFiniteSet(tasks[c]) =>
        IsFiniteSet(tasks'[c]) /\ Cardinality(tasks'[c]) = Cardinality(tasks[c])
  <2> SUFFICES ASSUME IsFiniteSet(tasks[c])
               PROVE  IsFiniteSet(tasks'[c]) /\ Cardinality(tasks'[c]) = Cardinality(tasks[c])
    OBVIOUS
  <2>1. /\ IsFiniteSet(tasks[c] \ {t}) /\ Cardinality(tasks[c] \ {t}) = Cardinality(tasks[c]) - 1
        /\ Cardinality(tasks[c]) \in Nat
    BY FS_RemoveElement, FS_CardinalityType
  <2>2. u \notin tasks[c] \ {t}
    BY <1>3, <1>5
  <2> DEFINE S == tasks[c] \ {t}
  <2> HIDE DEF S
  <2>3. IsFiniteSet(S \cup {u}) /\ Cardinality(S \cup {u}) = Cardinality(S) + 1
    BY <2>1, <2>2, FS_AddElement DEF S
  <2> QED
    BY <1>2, <2>1, <2>3 DEF S
<1>7. Readers(c)'
  <2>1. \A v \in tasks'[c] : v.serial = serial'[c]
    BY <1>2, <1>3, <1>4 DEF Readers
  <2>2. \A v, z \in tasks'[c] : v.node = z.node => v = z
    BY <1>2, <1>3, <1>4, <1>5 DEF Readers
  <2>3. pc'[c] = "loading" => (\A v, z \in tasks'[c] : v = z) /\ results'[c] = <<>>
    BY <1>1, <1>2, <1>4 DEF Readers
  <2>4. pc'[c] \notin {"new", "idle", "returned"}
    BY <1>4 DEF Readers
  <2> QED
    BY <1>1, <1>4, <1>6, <2>1, <2>2, <2>3, <2>4 DEF Readers
<1> QED
  BY <1>1, <1>7, Others, SplitTypes DEF RInv, Control

\* A goroutine that ends makes its result one more and itself one less.
LEMMA DeliverReaders ==
  ASSUME RInv, NEW c \in Client, NEW t \in tasks[c], NEW ok, NEW k,
         Deliver(c, t, ok, k), UNCHANGED <<serial, pc>>
  PROVE  \A d \in Client : Readers(d)'
<1> DEFINE r == [node |-> t.node, ok |-> ok, count |-> k]
<1>1. /\ tasks' = [tasks EXCEPT ![c] = tasks[c] \ {t}]
      /\ tasks \in [Client -> SUBSET Goroutine] /\ results \in [Client -> Seq(Result)]
      /\ Readers(c)
  BY SplitTypes DEF Deliver, RInv, Control
<1>2. tasks'[c] = tasks[c] \ {t} /\ t.serial = serial[c]
  BY <1>1 DEF Readers
<1>3. IF pc[c] \in {"loading", "gathering"}
      THEN results' = [results EXCEPT ![c] = Append(results[c], r)]
      ELSE results' = results
  BY <1>2 DEF Deliver
<1> HIDE DEF r
<1>4. pc[c] \in {"loading", "gathering"} => Len(results'[c]) = Len(results[c]) + 1
  BY <1>1, <1>3
<1>5. IsFiniteSet(tasks[c]) =>
        /\ IsFiniteSet(tasks'[c]) /\ Cardinality(tasks'[c]) = Cardinality(tasks[c]) - 1
        /\ Cardinality(tasks[c]) \in Nat
  BY <1>2, FS_RemoveElement, FS_CardinalityType
<1>6. Readers(c)'
  <2>1. pc'[c] = "loading" => tasks'[c] = {}
    BY <1>1, <1>2 DEF Readers
  <2>2. pc'[c] \notin {"new", "idle", "returned"}
    BY <1>1 DEF Readers
  <2>3. pc'[c] = "gathering" =>
          IsFiniteSet(tasks'[c]) /\ Len(results'[c]) + Cardinality(tasks'[c]) = Nodes
    <3>1. Len(results[c]) \in Nat
      BY <1>1
    <3> QED
      BY <1>1, <1>4, <1>5, <3>1 DEF Readers
  <2> QED
    BY <1>1, <1>2, <2>1, <2>2, <2>3 DEF Readers
<1>7. results' = [results EXCEPT ![c] = results'[c]]
  BY <1>1, <1>3
<1> QED
  BY <1>1, <1>6, <1>7, Others, SplitTypes DEF RInv, Control

\* A goroutine moves on, ends, or ends its process.
LEMMA RunCases ==
  ASSUME NEW c \in Client, NEW t \in tasks[c],
         Write(c, t) \/ ReadPart(c, t) \/ ReadHeader(c, t) \/ ReadBody(c, t) \/ ReadFails(c, t)
  PROVE  /\ UNCHANGED <<alive, sets, link, late, callVars, todo, out, historyVars>>
         /\ \/ pc' = pc /\ \E at, len, got : Advance(c, t, at, len, got)
            \/ pc' = pc /\ \E ok, k : Deliver(c, t, ok, k)
            \/ /\ pc' = [pc EXCEPT ![c] = "panicked"]
               /\ tasks' = [tasks EXCEPT ![c] = {}] /\ UNCHANGED results
<1>1. ASSUME NEW body, Finish(c, t, body)
      PROVE  \/ pc' = pc /\ \E ok, k : Deliver(c, t, ok, k)
             \/ /\ pc' = [pc EXCEPT ![c] = "panicked"]
                /\ tasks' = [tasks EXCEPT ![c] = {}] /\ UNCHANGED results
  BY <1>1 DEF Finish
<1>2. CASE Write(c, t)
  BY <1>2 DEF Write
<1>3. CASE ReadPart(c, t)
  BY <1>3 DEF ReadPart, Read
<1>4. CASE ReadHeader(c, t)
  BY <1>1, <1>4 DEF ReadHeader, Read
<1>5. CASE ReadBody(c, t)
  BY <1>1, <1>5 DEF ReadBody, Read
<1>6. CASE ReadFails(c, t)
  BY <1>6 DEF ReadFails, Read
<1> QED
  BY <1>2, <1>3, <1>4, <1>5, <1>6

LEMMA RunReaders ==
  ASSUME RInv, NEW c \in Client, Run(c)
  PROVE  \A d \in Client : Readers(d)'
<1>1. PICK t \in tasks[c] :
        /\ UNCHANGED <<alive, sets, link, late, callVars, todo, out, historyVars>>
        /\ \/ pc' = pc /\ \E at, len, got : Advance(c, t, at, len, got)
           \/ pc' = pc /\ \E ok, k : Deliver(c, t, ok, k)
           \/ /\ pc' = [pc EXCEPT ![c] = "panicked"]
              /\ tasks' = [tasks EXCEPT ![c] = {}] /\ UNCHANGED results
  BY RunCases DEF Run
<1>2. CASE UNCHANGED <<serial, pc>> /\ \E ok, k : Deliver(c, t, ok, k)
  BY <1>2, DeliverReaders
<1>3. CASE UNCHANGED <<serial, pc>> /\ \E at, len, got : Advance(c, t, at, len, got)
  BY <1>3, AdvanceReaders
<1>4. CASE /\ UNCHANGED <<results, serial>> /\ pc' = [pc EXCEPT ![c] = "panicked"]
           /\ tasks' = [tasks EXCEPT ![c] = {}]
  <2>1. pc'[c] = "panicked" /\ pc' = [pc EXCEPT ![c] = pc'[c]] /\ tasks'[c] = {}
    BY <1>4, SplitTypes DEF RInv, Control
  <2>2. Readers(c)'
    BY <2>1 DEF Readers
  <2> QED
    BY <1>4, <2>1, <2>2, Others, SplitTypes DEF RInv, Control
<1> QED
  BY <1>1, <1>2, <1>3, <1>4 DEF callVars

LEMMA GatherReaders ==
  ASSUME RInv, NEW c \in Client, NEW r \in Call, Gather(c, r)
  PROVE  \A d \in Client : Readers(d)'
<1> DEFINE slices == [k \in Node |-> Slice(r.set, k)]
           msg(k) == Message(r, IF r.op = "query" THEN slices[k] ELSE <<>>)
           f == [k \in Node |-> Task(c, k, msg(k))]
           T == {f[k] : k \in Node}
<1>1. /\ tasks \in [Client -> SUBSET Goroutine] /\ results \in [Client -> Seq(Result)]
      /\ serial \in [Client -> Nat] /\ pc \in [Client -> Labels]
  BY SplitTypes DEF RInv, Control
<1>2. /\ pc[c] = "idle"
      /\ pc' = [pc EXCEPT ![c] = "gathering"]
      /\ serial' = [serial EXCEPT ![c] = @ + 1]
      /\ results' = [results EXCEPT ![c] = <<>>]
      /\ tasks' = [tasks EXCEPT ![c] = @ \cup {Task(c, k, msg(k)) : k \in Node}]
  BY DEF Gather, BeginGather, Begin
<1>3. {Task(c, k, msg(k)) : k \in Node} = T
  <2> HIDE DEF msg
  <2> QED
    OBVIOUS
<1>4. tasks[c] = {}
  BY <1>2 DEF RInv, Readers
<1>5. \A k \in Node : f[k].node = k /\ f[k].serial = serial'[c]
  <2> HIDE DEF msg
  <2> QED
    BY DEF Task
<1>6. tasks'[c] = T /\ tasks' = [tasks EXCEPT ![c] = T]
  <2> HIDE DEF f, T, msg
  <2> QED
    BY <1>1, <1>2, <1>3, <1>4
<1> HIDE DEF f
<1>7. f \in [Node -> T]
  <2> HIDE DEF msg
  <2> QED
    BY DEF f
<1>8. \A p, q \in Node : f[p] = f[q] => p = q
  BY <1>5
<1>9. IsFiniteSet(T) /\ Cardinality(T) = Nodes
  BY <1>7, <1>8, OnePerNode
<1>10. \A t \in T : t.serial = serial'[c]
  BY <1>5
<1>11. \A t, u \in T : t.node = u.node => t = u
  BY <1>5
<1> HIDE DEF T
<1>12. pc'[c] = "gathering" /\ results'[c] = <<>> /\ Len(<<>>) = 0 /\ Nodes \in Nat
  BY <1>1, <1>2, NodeAssumption
<1>13. Readers(c)'
  <2>1. Len(results'[c]) + Cardinality(tasks'[c]) = Nodes
    BY <1>6, <1>9, <1>12
  <2> QED
    BY <1>6, <1>9, <1>10, <1>11, <1>12, <2>1 DEF Readers
<1>14. /\ tasks' = [tasks EXCEPT ![c] = tasks'[c]] /\ serial' = [serial EXCEPT ![c] = serial'[c]]
       /\ pc' = [pc EXCEPT ![c] = pc'[c]] /\ results' = [results EXCEPT ![c] = results'[c]]
  BY <1>1, <1>2, <1>6
<1> QED
  BY <1>13, <1>14, Others

\* The other steps of a client start or leave no goroutine, or start the one of a load.
LEMMA QuietReaders ==
  ASSUME RInv, NEW c \in Client,
         \/ Dial(c) \/ LoadInOrder(c) \/ LoadAck(c) \/ Collect(c) \/ Taken(c)
         \/ \E r \in Call : BeginLoad(c, r)
  PROVE  \A d \in Client : Readers(d)'
<1>1. /\ tasks \in [Client -> SUBSET Goroutine] /\ results \in [Client -> Seq(Result)]
      /\ serial \in [Client -> Nat] /\ pc \in [Client -> Labels] /\ Readers(c)
      /\ Nodes \in Nat \ {0}
  BY SplitTypes, NodeAssumption DEF RInv, Control
<1>2. CASE Dial(c)
  <2>1. /\ tasks' = [tasks EXCEPT ![c] = {}] /\ pc' = [pc EXCEPT ![c] = "idle"]
        /\ serial' = serial /\ results' = results
    BY <1>2 DEF Dial, callVars
  <2>2. Readers(c)'
    BY <1>1, <2>1 DEF Readers
  <2> QED
    BY <1>1, <2>1, <2>2, Others
<1>3. CASE LoadInOrder(c)
  <2>1. PICK k \in todo[c] : LoadNext(c, k, Slice(call[c].set, k))
    BY <1>3 DEF LoadInOrder
  <2> DEFINE t == Task(c, k, Message(call[c], Slice(call[c].set, k)))
  <2>2. /\ pc[c] = "loading" /\ results[c] = <<>> /\ (\A u \in tasks[c] : u.serial # serial[c])
        /\ serial' = serial /\ tasks' = [tasks EXCEPT ![c] = @ \cup {t}]
        /\ pc' = pc /\ results' = results
    BY <2>1 DEF LoadNext
  <2>3. tasks[c] = {}
    BY <1>1, <2>2 DEF Readers
  <2>4. t.serial = serial[c]
    BY <2>2 DEF Task
  <2> HIDE DEF t
  <2>5. tasks'[c] = {t}
    BY <1>1, <2>2, <2>3
  <2>6. Readers(c)'
    BY <1>1, <2>2, <2>4, <2>5 DEF Readers
  <2> QED
    BY <1>1, <2>2, <2>6, Others
<1>4. CASE LoadAck(c)
  <2>1. /\ pc[c] = "loading" /\ results[c] # <<>> /\ tasks' = tasks /\ serial' = serial
        /\ results' = [results EXCEPT ![c] = <<>>]
        /\ pc' = pc \/ pc' = [pc EXCEPT ![c] = "returned"]
    BY <1>4 DEF LoadAck, Return, callVars
  <2>2. tasks'[c] = {} /\ pc'[c] \in {"loading", "returned"} /\ pc' = [pc EXCEPT ![c] = pc'[c]]
    BY <1>1, <2>1 DEF Readers
  <2>3. Readers(c)'
    BY <2>2 DEF Readers
  <2> QED
    BY <1>1, <2>1, <2>2, <2>3, Others
<1>5. CASE Collect(c)
  <2>1. /\ pc[c] = "gathering" /\ Len(results[c]) = Nodes
        /\ UNCHANGED <<tasks, serial, results>> /\ pc' = [pc EXCEPT ![c] = "returned"]
    BY <1>5 DEF Collect, Return, callVars
  <2>2. tasks[c] = {}
    <3>1. IsFiniteSet(tasks[c]) /\ Len(results[c]) + Cardinality(tasks[c]) = Nodes
      BY <1>1, <2>1 DEF Readers
    <3>2. Cardinality(tasks[c]) \in Nat
      BY <3>1, FS_CardinalityType
    <3>3. Cardinality(tasks[c]) = 0
      BY <1>1, <2>1, <3>1, <3>2
    <3> QED
      BY <3>1, <3>3, FS_EmptySet
  <2>3. Readers(c)'
    BY <1>1, <2>1, <2>2 DEF Readers
  <2> QED
    BY <1>1, <2>1, <2>3, Others
<1>6. CASE Taken(c)
  <2>1. /\ pc[c] = "returned" /\ UNCHANGED <<tasks, serial>>
        /\ pc' = [pc EXCEPT ![c] = "idle"] /\ results' = [results EXCEPT ![c] = <<>>]
    BY <1>6 DEF Taken
  <2>2. Readers(c)'
    BY <1>1, <2>1 DEF Readers
  <2> QED
    BY <1>1, <2>1, <2>2, Others
<1>7. CASE \E r \in Call : BeginLoad(c, r)
  <2>1. /\ pc[c] = "idle" /\ tasks' = tasks /\ serial' = [serial EXCEPT ![c] = @ + 1]
        /\ pc' = [pc EXCEPT ![c] = "loading"] /\ results' = [results EXCEPT ![c] = <<>>]
    BY <1>7 DEF BeginLoad, Begin
  <2>2. tasks[c] = {}
    BY <1>1, <2>1 DEF Readers
  <2>3. Readers(c)'
    BY <1>1, <2>1, <2>2 DEF Readers
  <2> QED
    BY <1>1, <2>1, <2>3, Others
<1> QED
  BY <1>2, <1>3, <1>4, <1>5, <1>6, <1>7

LEMMA InitReaders == Init => RInv
<1> SUFFICES ASSUME Init PROVE RInv
  OBVIOUS
<1>1. \A c \in Client : tasks[c] = {} /\ pc[c] = "new"
  BY DEF Init, ClientInit
<1>2. \A c \in Client : Readers(c)
  BY <1>1 DEF Readers
<1> QED
  BY <1>2, InitTypes DEF RInv

LEMMA StepReaders == RInv /\ [Next]_vars => RInv'
<1> SUFFICES ASSUME RInv, [Next]_vars PROVE RInv'
  OBVIOUS
<1>1. TInv'
  BY StepTypes DEF RInv
<1>2. CASE UNCHANGED <<tasks, serial, pc, results>>
  <2>1. \A c \in Client : Readers(c)'
    BY <1>2, Untouched DEF RInv
  <2> QED
    BY <1>1, <2>1 DEF RInv
<1>3. ASSUME NEW c \in Client,
             \/ Dial(c) \/ Step(c) \/ \E r \in Call : BeginLoad(c, r) \/ Gather(c, r)
      PROVE  RInv'
  <2>1. \A d \in Client : Readers(d)'
    BY <1>3, QuietReaders, GatherReaders, RunReaders DEF Step
  <2> QED
    BY <1>1, <2>1 DEF RInv
<1>4. ASSUME NEW c \in Client, NEW k \in Node, Serve(c, k) PROVE RInv'
  BY <1>2, <1>4 DEF Serve, callVars
<1>5. ASSUME NEW k \in Node, ServeLate(k) \/ NodeDies(k) PROVE RInv'
  BY <1>2, <1>5 DEF ServeLate, NodeDies, callVars
<1>6. CASE Network
  BY <1>2, <1>6 DEF Network, callVars
<1>7. CASE UNCHANGED vars
  BY <1>2, <1>7 DEF vars, callVars
<1> QED
  BY <1>3, <1>4, <1>5, <1>6, <1>7 DEF Next

\* No two goroutines of a client ever read one connection, so every reply is read
\* whole by the goroutine whose request it answers (cluster.go:248-270).
THEOREM OneReaderPerConnection == Spec => []OneReader
<1>1. RInv => OneReader
  BY DEF RInv, OneReader, Readers
<1> QED
  BY InitReaders, StepReaders, <1>1, PTL DEF Spec

-----------------------------------------------------------------------------
(* Slices and counts *)

\* A node's words are its slice of a version; Empty is the version of a node
\* that was started again and stores nothing.
Sliced(s, v, k) == s = Slice(v, k) \/ (s = <<>> /\ v = Empty)
OneOf(s, versions, k) == \E v \in versions : Sliced(s, v, k)

\* The bits of node k's words that two global sets share.
Shared(f, g, k) ==
  {p \in (0..Words - 1) \X Bit : Home[p[1]] = k /\ p[2] \in f[p[1]] /\ p[2] \in g[p[1]]}

\* The sets a query is intersected with: one that it brings, or versions of another.
Against(r, versions) == IF r.op = "stored" THEN versions[r.with] ELSE {r.set}

\* Every word has the node whose range it lies in.
LEMMA HomeFacts ==
  ASSUME NEW q \in 0..Words - 1
  PROVE  /\ Home[q] \in Node
         /\ \A k \in Node : (Lo(k) <= q /\ q < Hi(k)) <=> Home[q] = k
<1>1. PICK k \in Node : /\ Lo(k) <= q /\ q < Hi(k)
                        /\ \A l \in Node : (Lo(l) <= q /\ q < Hi(l)) => l = k
  BY EveryWordHasOneNode
<1>2. Home[q] = CHOOSE l \in Node : Lo(l) <= q /\ q < Hi(l)
  BY DEF Home
<1>3. /\ Home[q] \in Node /\ Lo(Home[q]) <= q /\ q < Hi(Home[q])
  BY <1>1, <1>2
<1> QED
  BY <1>1, <1>3

LEMMA RangeOfNode ==
  ASSUME NEW k \in Node
  PROVE  /\ Lo(k) \in Nat /\ Hi(k) \in Nat /\ Lo(k) <= Hi(k) /\ Hi(k) <= Words /\ Words \in Nat
<1>1. k \in 0..Nodes /\ k + 1 \in 0..Nodes /\ k < Nodes /\ Words \in Nat
  BY NodeAssumption DEF Node
<1>2. /\ Lo(k) \in Int /\ 0 <= Lo(k) /\ Lo(k) <= Lo(k + 1) /\ Hi(k) = Lo(k + 1)
      /\ Lo(k + 1) \in Int /\ Lo(k + 1) <= Words
  BY <1>1, RangeFacts
<1> QED
  BY <1>1, <1>2

LEMMA Finitely ==
  ASSUME NEW S \in SUBSET ((0..Words - 1) \X Bit)
  PROVE  IsFiniteSet(S) /\ Cardinality(S) \in Nat
<1>1. IsFiniteSet(0..Words - 1)
  BY NodeAssumption, FS_Interval
<1>2. IsFiniteSet((0..Words - 1) \X Bit)
  BY <1>1, NodeAssumption, FS_Product
<1>3. IsFiniteSet(S)
  BY <1>2, FS_Subset
<1> QED
  BY <1>3, FS_CardinalityType

\* What a node answers from its slices of two versions is the number of bits they
\* share within its range (cluster.go:122-150).
LEMMA CountOfVersions ==
  ASSUME NEW k \in Node, NEW f \in Global, NEW g \in Global, NEW s, NEW t,
         Sliced(s, f, k), Sliced(t, g, k)
  PROVE  AndCount(s, t) = Cardinality(Shared(f, g, k))
<1> DEFINE common == {q \in DOMAIN s : q \in DOMAIN t}
           S == {p \in common \X Bit : p[2] \in s[p[1]] /\ p[2] \in t[p[1]]}
           T == Shared(f, g, k)
<1>1. AndCount(s, t) = Cardinality(S)
  BY DEF AndCount
<1>2. CASE s = <<>> \/ t = <<>>
  <2>1. common = {}
    BY <1>2
  <2>2. S = {}
    BY <2>1
  <2>3. f = Empty \/ g = Empty \/ Slice(f, k) = <<>> \/ Slice(g, k) = <<>>
    BY <1>2 DEF Sliced
  <2>4. ASSUME f = Empty \/ g = Empty PROVE T = {}
    BY <2>4 DEF Shared, Empty
  <2>5. ASSUME Slice(f, k) = <<>> \/ Slice(g, k) = <<>> PROVE T = {}
    <3>1. Hi(k) - Lo(k) <= 0
      <4>1. DOMAIN Slice(f, k) = 1..Hi(k) - Lo(k) /\ DOMAIN Slice(g, k) = 1..Hi(k) - Lo(k)
        BY DEF Slice
      <4>2. 1..Hi(k) - Lo(k) = {}
        <5>1. DOMAIN <<>> = {}
          OBVIOUS
        <5> HIDE DEF T, S, common
        <5> QED
          BY <2>5, <4>1, <5>1, Zenon
      <4> QED
        BY <4>2, RangeOfNode
    <3>2. \A q \in 0..Words - 1 : Home[q] # k
      BY <3>1, HomeFacts, RangeOfNode
    <3> QED
      BY <3>2 DEF Shared
  <2> QED
    BY <1>1, <2>2, <2>3, <2>4, <2>5
<1>3. CASE s = Slice(f, k) /\ t = Slice(g, k)
  <2> DEFINE lo == Lo(k)
             d == Hi(k) - Lo(k)
             b == [p \in S |-> <<lo + p[1] - 1, p[2]>>]
  <2>1. lo \in Nat /\ d \in Nat /\ lo + d = Hi(k) /\ lo + d <= Words /\ Words \in Nat
    BY RangeOfNode
  <2>2. DOMAIN s = 1..d /\ DOMAIN t = 1..d
        /\ \A q \in 1..d : s[q] = f[lo + q - 1] /\ t[q] = g[lo + q - 1]
    BY <1>3 DEF Slice
  <2>3. \A q \in 0..Words - 1 : Home[q] = k <=> lo <= q /\ q < lo + d
    BY <2>1, HomeFacts
  <2> HIDE DEF lo, d
  <2>4. common = 1..d
    BY <2>2
  <2>5. ASSUME NEW p \in S PROVE <<lo + p[1] - 1, p[2]>> \in T
    <3>1. p[1] \in 1..d /\ p[2] \in Bit /\ p[2] \in s[p[1]] /\ p[2] \in t[p[1]]
      BY <2>4
    <3> DEFINE q == lo + p[1] - 1
    <3>2. q \in 0..Words - 1 /\ lo <= q /\ q < lo + d
      BY <2>1, <3>1
    <3>3. Home[q] = k /\ p[2] \in f[q] /\ p[2] \in g[q]
      BY <2>2, <2>3, <3>1, <3>2
    <3> HIDE DEF q
    <3> QED
      BY <3>1, <3>2, <3>3 DEF Shared, q
  <2>6. ASSUME NEW p \in T PROVE \E e \in S : <<lo + e[1] - 1, e[2]>> = p
    <3>1. /\ p \in (0..Words - 1) \X Bit /\ Home[p[1]] = k
          /\ p[2] \in f[p[1]] /\ p[2] \in g[p[1]]
      BY DEF Shared
    <3> DEFINE q == p[1] - lo + 1
    <3>2. q \in 1..d /\ lo + q - 1 = p[1] /\ p[2] \in Bit /\ p = <<p[1], p[2]>>
      BY <2>1, <2>3, <3>1
    <3>3. p[2] \in s[q] /\ p[2] \in t[q]
      BY <2>2, <3>1, <3>2
    <3> HIDE DEF q
    <3>4. <<q, p[2]>> \in S
      BY <2>4, <3>2, <3>3
    <3> QED
      BY <3>2, <3>4
  <2>7. \A e, p \in S : <<lo + e[1] - 1, e[2]>> = <<lo + p[1] - 1, p[2]>> => e = p
    <3> TAKE e, p \in S
    <3>1. e = <<e[1], e[2]>> /\ p = <<p[1], p[2]>> /\ e[1] \in Int /\ p[1] \in Int
      BY <2>4
    <3>2. lo + e[1] - 1 = lo + p[1] - 1 => e[1] = p[1]
      BY <2>1, <3>1
    <3> HIDE DEF S
    <3> QED
      BY <3>1, <3>2
  <2> HIDE DEF S, T
  <2>8. b \in Bijection(S, T)
    BY <2>5, <2>6, <2>7 DEF Bijection, Injection, Surjection, IsInjective
  <2>9. IsFiniteSet(T)
    BY Finitely DEF T, Shared
  <2>10. ExistsBijection(S, T)
    BY <2>8 DEF ExistsBijection
  <2>11. IsFiniteSet(S)
    <3>1. IsFiniteSet((1..d) \X Bit)
      <4>1. IsFiniteSet(1..d)
        BY <2>1, FS_Interval
      <4> QED
        BY <4>1, FS_Product, NodeAssumption
    <3>2. S \in SUBSET ((1..d) \X Bit)
      BY <2>4 DEF S
    <3> QED
      BY <3>1, <3>2, FS_Subset
  <2> QED
    BY <1>1, <2>10, <2>11, FS_Bijection DEF S, T
<1> QED
  BY <1>2, <1>3 DEF Sliced

\* The running sum of a gather as an equation.
LEMMA TotalEquation ==
  ASSUME NEW rs \in Seq(Result)
  PROVE  \E sum \in [0..Len(rs) -> Nat] :
           /\ Total(rs) = sum[Len(rs)]
           /\ sum[0] = 0
           /\ \A q \in 1..Len(rs) : sum[q] = sum[q - 1] + rs[q].count
<1> DEFINE m == Len(rs)
           D == 0..m
           body(g) == [q \in D |-> IF q = 0 THEN 0 ELSE g[q - 1] + rs[q].count]
           step == [g \in [D -> Nat] |-> body(g)]
           rank == [q \in D |-> q]
           sum == CHOOSE sum : sum = body(sum)
<1>1. m \in Nat /\ \A q \in 1..m : rs[q].count \in Nat
  <2>1. m \in Nat
    BY LenProperties
  <2>2. \A q \in 1..m : rs[q] \in Result
    BY ElementOfSeq
  <2> QED
    BY <2>1, <2>2 DEF Result
<1>2. \A q \in D : q # 0 => q - 1 \in D /\ q \in 1..m
  BY <1>1
<1>3. \A g \in [D -> Nat], q \in D : body(g)[q] \in Nat
  <2> SUFFICES ASSUME NEW g \in [D -> Nat], NEW q \in D PROVE body(g)[q] \in Nat
    <3> HIDE DEF body, D
    <3> QED
      OBVIOUS
  <2>1. CASE q = 0
    BY <2>1
  <2>2. CASE q # 0
    <3>1. q - 1 \in D /\ rs[q].count \in Nat
      BY <1>1, <1>2, <2>2
    <3>2. g[q - 1] \in Nat
      <4> HIDE DEF D
      <4> QED
        BY <3>1
    <3>3. g[q - 1] + rs[q].count \in Nat
      <4> DEFINE u == g[q - 1]
                 v == rs[q].count
      <4>1. u \in Nat /\ v \in Nat
        BY <3>1, <3>2
      <4> HIDE DEF u, v
      <4>2. u + v \in Nat
        BY <4>1
      <4> QED
        BY <4>2 DEF u, v
    <3>4. body(g)[q] = g[q - 1] + rs[q].count
      <4> HIDE DEF D
      <4> QED
        BY <2>2
    <3> HIDE DEF body
    <3> QED
      BY <3>3, <3>4
  <2> QED
    BY <2>1, <2>2
<1>4. step \in [[D -> Nat] -> [D -> Nat]]
  <2>1. \A g \in [D -> Nat] : body(g) \in [D -> Nat]
    <3> HIDE DEF D
    <3> QED
      BY <1>3
  <2> HIDE DEF body, D
  <2> QED
    BY <2>1
<1>5. rank \in [D -> Nat]
  BY <1>1
<1>6. \A g, h \in [D -> Nat], q \in D :
        (\A y \in D : rank[y] < rank[q] => g[y] = h[y]) => step[g][q] = step[h][q]
  <2> SUFFICES ASSUME NEW g \in [D -> Nat], NEW h \in [D -> Nat], NEW q \in D,
                      \A y \in D : rank[y] < rank[q] => g[y] = h[y]
               PROVE  step[g][q] = step[h][q]
    <3> HIDE DEF step, rank, D
    <3> QED
      OBVIOUS
  <2>1. q # 0 => g[q - 1] = h[q - 1]
    BY <1>1, <1>2
  <2> QED
    BY <2>1
<1>7. \E f : f = body(f)
  <2>1. \E f \in [D -> Nat] : f = step[f]
    <3> HIDE DEF D, step, rank
    <3>1. Recursive(D, Nat, step, rank)
      BY <1>4, <1>5, <1>6 DEF Recursive
    <3>2. HasSolution(D, Nat, step)
      BY <3>1, Fixpoint
    <3> QED
      BY <3>2 DEF HasSolution
  <2> QED
    BY <2>1
<1>8. sum = body(sum)
  <2> HIDE DEF body
  <2> QED
    BY <1>7
<1>9. Total(rs) = sum[m]
  BY Zenon DEF Total
<1> HIDE DEF sum
<1>10. ASSUME NEW q \in D
       PROVE  sum[q] = IF q = 0 THEN 0 ELSE sum[q - 1] + rs[q].count
  <2>1. sum[q] = body(sum)[q]
    <3> HIDE DEF body, D
    <3> QED
      BY <1>8
  <2> HIDE DEF D
  <2> QED
    BY <2>1
<1>11. sum[0] = 0 /\ \A q \in 1..m : sum[q] = sum[q - 1] + rs[q].count
  <2>1. 0 \in D /\ \A q \in 1..m : q \in D /\ q # 0
    BY <1>1
  <2> HIDE DEF D, m
  <2> QED
    BY <1>10, <2>1
<1>12. sum \in [D -> Nat]
  <2> DEFINE S == {q \in Nat : q <= m => sum[q] \in Nat}
  <2>1. 0 \in S
    BY <1>11
  <2>2. ASSUME NEW q \in Nat, q \in S PROVE q + 1 \in S
    <3> SUFFICES ASSUME q + 1 <= m PROVE sum[q + 1] \in Nat
      OBVIOUS
    <3>1. q + 1 \in 1..m /\ (q + 1) - 1 = q /\ sum[q] \in Nat /\ rs[q + 1].count \in Nat
      BY <1>1, <2>2
    <3> QED
      BY <1>11, <3>1
  <2>3. \A q \in Nat : q \in S
    <3> HIDE DEF S
    <3> QED
      BY <2>1, <2>2, Induction
  <2>4. \A q \in D : sum[q] \in Nat
    BY <1>1, <2>3
  <2>5. sum = [q \in D |-> sum[q]]
    BY <1>8
  <2> HIDE DEF D
  <2> QED
    BY <2>4, <2>5
<1> QED
  BY <1>9, <1>11, <1>12

\* All that two assignments of versions to nodes share: what Counts counts.
SharedBy(f, g) ==
  {p \in (0..Words - 1) \X Bit : /\ p[2] \in f[Home[p[1]]][p[1]]
                                 /\ p[2] \in g[Home[p[1]]][p[1]]}

\* The sum over one result per node is the count over the whole universe.
LEMMA TotalCounts ==
  ASSUME NEW rs \in Seq(Result), NEW f, NEW g,
         \A q \in 1..Len(rs) :
           rs[q].count = Cardinality(Shared(f[rs[q].node], g[rs[q].node], rs[q].node)),
         \A p, q \in 1..Len(rs) : rs[p].node = rs[q].node => p = q,
         \A k \in Node : \E q \in 1..Len(rs) : rs[q].node = k
  PROVE  Total(rs) = Cardinality(SharedBy(f, g))
<1> DEFINE m == Len(rs)
           W == (0..Words - 1) \X Bit
           Some(i) == {p \in SharedBy(f, g) : \E q \in 1..i : rs[q].node = Home[p[1]]}
           One(q) == Shared(f[rs[q].node], g[rs[q].node], rs[q].node)
<1>1. PICK sum \in [0..m -> Nat] :
           /\ Total(rs) = sum[m]
           /\ sum[0] = 0
           /\ \A q \in 1..m : sum[q] = sum[q - 1] + rs[q].count
  BY TotalEquation
<1>2. m \in Nat /\ \A q \in 1..m : rs[q].count = Cardinality(One(q))
  BY LenProperties
<1>3. \A i \in Nat : IsFiniteSet(Some(i)) /\ Cardinality(Some(i)) \in Nat
  <2> TAKE i \in Nat
  <2>1. Some(i) \in SUBSET W
    BY DEF SharedBy
  <2> QED
    BY <2>1, Finitely
<1>4. \A q \in 1..m : IsFiniteSet(One(q)) /\ Cardinality(One(q)) \in Nat
  <2> TAKE q \in 1..m
  <2>1. One(q) \in SUBSET W
    BY DEF Shared
  <2> QED
    BY <2>1, Finitely
<1>5. ASSUME NEW i \in Nat, i + 1 <= m
      PROVE  Cardinality(Some(i + 1)) = Cardinality(Some(i)) + rs[i + 1].count
  <2>1. i + 1 \in 1..m /\ \A q : q \in 1..i + 1 <=> q \in 1..i \/ q = i + 1
    BY <1>2, <1>5
  <2>2. ASSUME NEW p PROVE p \in One(i + 1) <=> p \in SharedBy(f, g) /\ rs[i + 1].node = Home[p[1]]
    BY DEF Shared, SharedBy
  <2>3. Some(i + 1) = Some(i) \cup One(i + 1)
    <3>1. ASSUME NEW p PROVE p \in Some(i + 1) <=> p \in Some(i) \/ p \in One(i + 1)
      <4> HIDE DEF One
      <4> QED
        BY <2>1, <2>2
    <3> HIDE DEF Some, One
    <3> QED
      BY <3>1
  <2>4. Some(i) \cap One(i + 1) = {}
    <3> SUFFICES ASSUME NEW p \in Some(i), p \in One(i + 1) PROVE FALSE
      OBVIOUS
    <3>1. PICK q \in 1..i : rs[q].node = Home[p[1]]
      OBVIOUS
    <3>2. rs[i + 1].node = Home[p[1]]
      BY <2>2
    <3>3. q \in 1..m /\ q # i + 1
      BY <1>2, <1>5
    <3> QED
      BY <2>1, <3>1, <3>2, <3>3
  <2> DEFINE A == Some(i)
             B == One(i + 1)
  <2>5. IsFiniteSet(A) /\ IsFiniteSet(B) /\ Cardinality(A) \in Nat /\ Cardinality(B) \in Nat
    <3> HIDE DEF Some, One
    <3> QED
      BY <1>3, <1>4, <2>1
  <2>6. A \cap B = {} /\ Some(i + 1) = A \cup B
    <3> HIDE DEF Some, One
    <3> QED
      BY <2>3, <2>4
  <2>7. rs[i + 1].count = Cardinality(B)
    <3> HIDE DEF One
    <3> QED
      BY <1>2, <2>1
  <2> HIDE DEF A, B
  <2>8. Cardinality(A \cup B) = Cardinality(A) + Cardinality(B) - Cardinality(A \cap B)
    BY <2>5, FS_Union
  <2>9. Cardinality({}) = 0
    BY FS_EmptySet
  <2>10. Cardinality(Some(i + 1)) = Cardinality(A) + rs[i + 1].count
    <3> DEFINE a == Cardinality(A)
               b == Cardinality(B)
               z == Cardinality(A \cap B)
    <3>1. a \in Nat /\ b \in Nat /\ z = 0
      BY <2>5, <2>6, <2>9
    <3>2. Cardinality(A \cup B) = a + b - z
      BY <2>8
    <3> HIDE DEF a, b, z
    <3>3. Cardinality(A \cup B) = a + b
      BY <3>1, <3>2
    <3> HIDE DEF Some
    <3> QED
      BY <2>6, <2>7, <3>3 DEF a, b
  <2>11. Some(i) = A
    BY DEF A
  <2> HIDE DEF Some
  <2> QED
    BY <2>10, <2>11
<1> DEFINE S == {i \in Nat : i <= m => sum[i] = Cardinality(Some(i))}
<1>6. 0 \in S
  <2>1. Some(0) = {}
    OBVIOUS
  <2> QED
    BY <1>1, <2>1, FS_EmptySet
<1>7. ASSUME NEW i \in Nat, i \in S PROVE i + 1 \in S
  <2> SUFFICES ASSUME i + 1 <= m PROVE sum[i + 1] = Cardinality(Some(i + 1))
    BY <1>2
  <2> HIDE DEF Some
  <2>1. sum[i] = Cardinality(Some(i)) /\ i + 1 \in 1..m /\ (i + 1) - 1 = i
    BY <1>2, <1>7
  <2> QED
    BY <1>1, <1>5, <2>1
<1>8. sum[m] = Cardinality(Some(m))
  <2>1. \A i \in Nat : i \in S
    <3> HIDE DEF S
    <3> QED
      BY <1>6, <1>7, Induction
  <2> HIDE DEF Some
  <2> QED
    BY <1>2, <2>1
<1>9. Some(m) = SharedBy(f, g)
  <2>1. ASSUME NEW p \in SharedBy(f, g) PROVE \E q \in 1..m : rs[q].node = Home[p[1]]
    <3>1. p[1] \in 0..Words - 1
      BY DEF SharedBy
    <3> QED
      BY <3>1, HomeFacts
  <2> QED
    BY <2>1
<1> QED
  BY <1>1, <1>8, <1>9

-----------------------------------------------------------------------------
(* Answers *)

\* The client expects an answer: all its connections were whole when its query
\* began.
Sees(c) == \A y \in Operands(call[c]) : seen[c][y] # {}

\* Node k's answer to client c may be m: the load's slice is stored, or m bits
\* are shared by two versions that the query may see.
IsAnswer(c, k, m) ==
  IF call[c].op = "load" THEN OneOf(sets[k][call[c].name], since[c], k)
  ELSE Sees(c) => \E f \in seen[c][call[c].name], g \in Against(call[c], seen[c]) :
                    m = Cardinality(Shared(f, g, k))

Prefix(o, s) == Len(o) <= Len(s) /\ \A q \in 1..Len(o) : o[q] = s[q]

\* What came of a reply, from its byte number from on.
Answering(c, k, o, from) ==
  o = <<>> \/ \E m \in Nat : IsAnswer(c, k, m) /\ Prefix(o, SubSeq(Reply(m), from, 12))

Request(c, k) ==
  Message(call[c], IF call[c].op = "stored" THEN <<>> ELSE Slice(call[c].set, k))

\* A goroutine's request, or its reply or what it has not read of it, is all there is
\* on its connection.
Exchange(c, t) ==
  LET k == t.node
      all == t.got \o outbox[c][k]
  IN
  /\ t.msg = Request(c, k)
  /\ inbox[c][k] # <<>> => /\ t.at = "header" /\ inbox[c][k] = <<t.msg>> /\ link[c][k] = "open"
                           /\ all = <<>> /\ outbox[c][k] = <<>>
  /\ t.at = "write" => outbox[c][k] = <<>>
  /\ t.at = "header" => t.len = 4 /\ Answering(c, k, all, 1)
  /\ t.at = "body" => t.len = 8 /\ Answering(c, k, all, 5)

\* Connections without a goroutine are silent; results are answers, of nodes that
\* have no goroutine any more.
Talks(c) ==
  /\ \A t \in tasks[c] : Exchange(c, t)
  /\ \A k \in Node : (\A t \in tasks[c] : t.node # k) => inbox[c][k] = <<>> /\ outbox[c][k] = <<>>
  /\ \A q \in 1..Len(results[c]) :
       LET r == results[c][q] IN
       /\ \A t \in tasks[c] : t.node # r.node
       /\ pc[c] \in {"loading", "gathering"} /\ r.ok => IsAnswer(c, r.node, r.count)

\* What a load has brought about so far; the versions it overlaps with.
Loads(c) ==
  pc[c] = "loading" =>
    /\ call[c].op = "load" /\ call[c].set \in value[call[c].name]
    /\ \A d \in Client : Loading(d, call[c].name) => call[d].set \in since[c]
    /\ \A k \in Node \ todo[c] : OneOf(sets[k][call[c].name], since[c], k)

\* Every node answers a gather once, from versions it sees; one that began with a
\* broken connection will get no answer from there.
Gathers(c) ==
  pc[c] = "gathering" =>
    /\ call[c].op \in {"stored", "query"}
    /\ \A k \in Node : \/ \E t \in tasks[c] : t.node = k
                       \/ \E q \in 1..Len(results[c]) : results[c][q].node = k
    /\ \A p, q \in 1..Len(results[c]) : results[c][p].node = results[c][q].node => p = q
    /\ Sees(c) =>
         /\ \A k \in Node, y \in Operands(call[c]) :
              link[c][k] = "open" => OneOf(sets[k][y], seen[c][y], k)
         /\ \A d \in Client : pc[d] = "loading" /\ call[d].name \in Operands(call[c]) =>
              call[d].set \in seen[c][call[d].name]
    /\ ~Sees(c) =>
         /\ seen[c] = Nothing
         /\ \E k \in Node : /\ link[c][k] = "broken" /\ outbox[c][k] = <<>>
                            /\ \A t \in tasks[c] : t.node = k => t.at # "body" /\ t.got = <<>>
                            /\ \A q \in 1..Len(results[c]) :
                                 results[c][q].node = k => ~results[c][q].ok

Exact(c) ==
  (pc[c] = "returned" /\ call[c].op # "load" /\ out[c].ok) =>
    out[c].count \in Counts(call[c], Home, seen[c])

Good(c) == pc[c] # "panicked" /\ Talks(c) /\ Loads(c) /\ Gathers(c) /\ Exact(c)

\* What a node stores under a name is its slice of a version the name may have.
Stores == \A k \in Node, y \in Name : OneOf(sets[k][y], value[y], k)

\* The types of the variables that RInv leaves open; no connection is closed with a
\* request on its way, because a gather waits for all replies.
Views ==
  /\ DOMAIN out = Client /\ seen \in [Client -> [Name -> SUBSET Global]]
  /\ \A k \in Node : late[k] = {}

AInv == RInv /\ Views /\ Stores /\ \A c \in Client : Good(c)

LEMMA InitAnswers == Init => AInv
<1> SUFFICES ASSUME Init PROVE AInv
  OBVIOUS
<1>1. \A c \in Client : tasks[c] = {} /\ pc[c] = "new" /\ results[c] = <<>>
                        /\ \A k \in Node : inbox[c][k] = <<>> /\ outbox[c][k] = <<>>
  BY DEF Init, ClientInit, NodeInit
<1>2. \A c \in Client : Good(c)
  <2> TAKE c \in Client
  <2>1. 1..Len(results[c]) = {}
    BY <1>1
  <2>2. Talks(c)
    BY <1>1, <2>1 DEF Talks
  <2> QED
    BY <1>1, <2>2 DEF Good, Loads, Gathers, Exact
<1>3. Stores
  <2> SUFFICES ASSUME NEW k \in Node, NEW y \in Name PROVE OneOf(sets[k][y], value[y], k)
    BY DEF Stores
  <2>1. sets[k][y] = <<>> /\ value[y] = {Empty}
    BY DEF Init, ClientInit, NodeInit
  <2> QED
    BY <2>1 DEF OneOf, Sliced
<1>4. Views
  BY DEF Init, ClientInit, NodeInit, Views, Nothing
<1> QED
  BY <1>2, <1>3, <1>4, InitReaders DEF AInv

\* A client with a goroutine is in a call.
LEMMA Busy ==
  ASSUME AInv, NEW c \in Client, tasks[c] # {} \/ pc[c] \in {"loading", "gathering"}
  PROVE  /\ pc[c] \in {"loading", "gathering"} /\ call[c] \in Call
         /\ call[c].name \in Name /\ call[c].with \in Name /\ call[c].set \in Global
         /\ call[c].op = "load" <=> pc[c] = "loading"
         /\ call[c].op \in {"load", "stored", "query"}
<1>1. pc[c] \in {"loading", "gathering"}
  BY SplitTypes DEF AInv, RInv, Readers, Good, Labels
<1>2. call[c] \in Call
  BY <1>1 DEF AInv, RInv, TInv, Control
<1> QED
  BY <1>1, <1>2, ClientAssumption DEF AInv, Good, Loads, Gathers

\* An answer stays one while versions are only added to those that count.
LEMMA AnswerKept ==
  ASSUME NEW c \in Client, NEW k, NEW m, IsAnswer(c, k, m), call'[c] = call[c],
         call[c].name \in Name, call[c].with \in Name,
         call[c].op = "load" /\ OneOf(sets[k][call[c].name], since[c], k) =>
           OneOf(sets'[k][call[c].name], since'[c], k),
         call[c].op # "load" =>
           \A y \in Name : seen[c][y] \subseteq seen'[c][y] /\ (seen'[c][y] # {} => seen[c][y] # {})
  PROVE  IsAnswer(c, k, m)'
<1>1. CASE call[c].op = "load"
  BY <1>1 DEF IsAnswer
<1>2. CASE call[c].op # "load"
  <2> SUFFICES ASSUME Sees(c)'
               PROVE  \E f \in seen'[c][call[c].name], g \in Against(call[c], seen'[c]) :
                        m = Cardinality(Shared(f, g, k))
    BY <1>2 DEF IsAnswer
  <2>1. Sees(c)
    BY <1>2 DEF Sees, Operands
  <2>2. PICK f \in seen[c][call[c].name], g \in Against(call[c], seen[c]) :
                        m = Cardinality(Shared(f, g, k))
    BY <1>2, <2>1 DEF IsAnswer
  <2>3. f \in seen'[c][call[c].name] /\ g \in Against(call[c], seen'[c])
    BY <1>2 DEF Against
  <2> QED
    BY <2>2, <2>3
<1> QED
  BY <1>1, <1>2

\* What another's step may do to client d: add versions, store slices of versions
\* that count, break a connection that then has no request.
LEMMA ClientKept ==
  ASSUME AInv, NEW d \in Client,
         UNCHANGED <<tasks[d], outbox[d], results[d], call[d], pc[d], out[d], todo[d]>>,
         \A k \in Node :
           \/ inbox'[d][k] = inbox[d][k] /\ link'[d][k] = link[d][k]
           \/ /\ inbox'[d][k] = <<>> /\ link'[d][k] # "open"
              /\ link[d][k] = "broken" => link'[d][k] = "broken",
         pc[d] = "loading" =>
           /\ call[d].set \in value'[call[d].name]
           /\ \A e \in Client : Loading(e, call[d].name)' => call'[e].set \in since'[d]
           /\ \A k \in Node : OneOf(sets[k][call[d].name], since[d], k) =>
                                OneOf(sets'[k][call[d].name], since'[d], k),
         pc[d] = "gathering" =>
           /\ \A y \in Name : seen[d][y] \subseteq seen'[d][y] /\ (seen'[d][y] # {} => seen[d][y] # {})
           /\ seen[d] = Nothing => seen'[d] = Nothing
           /\ Sees(d) =>
                /\ \A k \in Node, y \in Operands(call[d]) :
                     link[d][k] = "open" /\ link'[d][k] = "open" /\ OneOf(sets[k][y], seen[d][y], k)
                       => OneOf(sets'[k][y], seen'[d][y], k)
                /\ \A e \in Client : pc'[e] = "loading" /\ call'[e].name \in Operands(call[d]) =>
                     call'[e].set \in seen'[d][call'[e].name],
         pc[d] = "returned" => seen'[d] = seen[d]
  PROVE  Good(d)'
<1>1. Good(d) /\ RInv
  BY DEF AInv
<1>2. ASSUME NEW k \in Node, NEW m, IsAnswer(d, k, m), pc[d] \in {"loading", "gathering"}
      PROVE  IsAnswer(d, k, m)'
  <2>1. /\ call[d].name \in Name /\ call[d].with \in Name
        /\ call[d].op = "load" <=> pc[d] = "loading"
    BY <1>2, Busy
  <2> QED
    BY <1>2, <2>1, AnswerKept
<1>3. ASSUME NEW t \in tasks[d] PROVE Exchange(d, t)'
  <2>1. Exchange(d, t) /\ t.node \in Node /\ pc[d] \in {"loading", "gathering"}
    BY <1>1, Busy, SplitTypes DEF Good, Talks, RInv, Control, Goroutine
  <2> DEFINE k == t.node
             o == t.got \o outbox[d][k]
  <2>2. \A from : Answering(d, k, o, from) => Answering(d, k, o, from)'
    BY <1>2, <2>1 DEF Answering
  <2>3. t.msg = Request(d, k)'
    BY <2>1 DEF Exchange, Request
  <2>4. inbox'[d][k] # <<>> => inbox'[d][k] = inbox[d][k] /\ link'[d][k] = link[d][k]
    BY <2>1
  <2>5. outbox'[d][k] = outbox[d][k]
    OBVIOUS
  <2> QED
    BY <2>1, <2>2, <2>3, <2>4, <2>5 DEF Exchange
<1>4. Talks(d)'
  <2>1. ASSUME NEW k \in Node, \A t \in tasks[d] : t.node # k
        PROVE  inbox'[d][k] = <<>> /\ outbox'[d][k] = <<>>
    BY <1>1, <2>1 DEF Good, Talks
  <2>2. ASSUME NEW q \in 1..Len(results[d]), pc[d] \in {"loading", "gathering"}, results[d][q].ok
        PROVE  IsAnswer(d, results[d][q].node, results[d][q].count)'
    <3>1. results[d][q].node \in Node
      <4>1. results[d] \in Seq(Result)
        BY <1>1, SplitTypes DEF RInv, Control
      <4>2. results[d][q] \in Result
        BY <4>1, ElementOfSeq
      <4> QED
        BY <4>2 DEF Result
    <3>2. IsAnswer(d, results[d][q].node, results[d][q].count)
      BY <1>1, <2>2 DEF Good, Talks
    <3> QED
      BY <1>2, <2>2, <3>1, <3>2
  <2>3. \A q \in 1..Len(results[d]) : \A t \in tasks[d] : t.node # results[d][q].node
    BY <1>1 DEF Good, Talks
  <2> QED
    BY <1>3, <2>1, <2>2, <2>3 DEF Talks
<1>5. Loads(d)'
  <2> SUFFICES ASSUME pc[d] = "loading" PROVE Loads(d)'
    BY DEF Loads
  <2>1. todo'[d] = todo[d]
    OBVIOUS
  <2> QED
    BY <1>1 DEF Good, Loads
<1>6. Gathers(d)'
  <2> SUFFICES ASSUME pc[d] = "gathering" PROVE Gathers(d)'
    BY DEF Gathers
  <2>1. Gathers(d) /\ pc'[d] = "gathering" /\ Operands(call[d]) \subseteq Name
    BY <1>1, Busy DEF Good, Operands
  <2>2. Sees(d)' <=> Sees(d)
    BY <2>1 DEF Sees
  <2>3. Sees(d) =>
          /\ \A k \in Node, y \in Operands(call[d]) :
               link'[d][k] = "open" => OneOf(sets'[k][y], seen'[d][y], k)
          /\ \A e \in Client : pc'[e] = "loading" /\ call'[e].name \in Operands(call[d]) =>
               call'[e].set \in seen'[d][call'[e].name]
    <3>1. ASSUME NEW k \in Node, link'[d][k] = "open" PROVE link[d][k] = "open"
      BY <3>1
    <3> QED
      BY <2>1, <3>1 DEF Gathers
  <2>4. ~Sees(d) =>
         /\ seen'[d] = Nothing
         /\ \E k \in Node : /\ link'[d][k] = "broken" /\ outbox[d][k] = <<>>
                            /\ \A t \in tasks[d] : t.node = k => t.at # "body" /\ t.got = <<>>
                            /\ \A q \in 1..Len(results[d]) :
                                 results[d][q].node = k => ~results[d][q].ok
    <3> SUFFICES ASSUME ~Sees(d)
                 PROVE  \E k \in Node : /\ link'[d][k] = "broken" /\ outbox[d][k] = <<>>
                                        /\ \A t \in tasks[d] : t.node = k => t.at # "body" /\ t.got = <<>>
                                        /\ \A q \in 1..Len(results[d]) :
                                             results[d][q].node = k => ~results[d][q].ok
      BY <2>1 DEF Gathers
    <3>1. PICK k \in Node : /\ link[d][k] = "broken" /\ outbox[d][k] = <<>>
                            /\ \A t \in tasks[d] : t.node = k => t.at # "body" /\ t.got = <<>>
                            /\ \A q \in 1..Len(results[d]) :
                                 results[d][q].node = k => ~results[d][q].ok
      BY <2>1 DEF Gathers
    <3>2. link'[d][k] = "broken"
      BY <3>1
    <3> QED
      BY <3>1, <3>2
  <2>5. /\ call[d].op \in {"stored", "query"}
        /\ \A k \in Node : \/ \E t \in tasks[d] : t.node = k
                           \/ \E q \in 1..Len(results[d]) : results[d][q].node = k
        /\ \A p, q \in 1..Len(results[d]) : results[d][p].node = results[d][q].node => p = q
    BY <2>1 DEF Gathers
  <2> QED
    BY <2>1, <2>2, <2>3, <2>4, <2>5 DEF Gathers
<1>7. Exact(d)'
  BY <1>1 DEF Good, Exact
<1> QED
  BY <1>1, <1>4, <1>5, <1>6, <1>7 DEF Good

LEMMA StepViews == AInv /\ [Next]_vars => Views'
<1> SUFFICES ASSUME AInv, [Next]_vars PROVE Views'
  OBVIOUS
<1> USE DEF Views
<1>1. /\ DOMAIN out = Client /\ seen \in [Client -> [Name -> SUBSET Global]] /\ TInv
      /\ \A k \in Node : late[k] = {}
  BY DEF AInv, RInv
<1>2. Nothing \in [Name -> SUBSET Global]
  BY DEF Nothing
<1>3. CASE UNCHANGED <<seen, late>> /\ (UNCHANGED out \/ \E c \in Client : \E ok, k : Return(c, ok, k))
  BY <1>1, <1>3 DEF Return
<1>4. ASSUME NEW c \in Client, NEW r \in Call, BeginLoad(c, r) PROVE Views'
  <2>1. r.name \in Name /\ r.set \in Global
    BY ClientAssumption
  <2>2. UNCHANGED <<out, late>> /\ seen' = [d \in Client |->
          IF pc[d] = "gathering" /\ seen[d][r.name] # {}
          THEN [seen[d] EXCEPT ![r.name] = @ \cup {r.set}] ELSE seen[d]]
    BY <1>4 DEF BeginLoad, Begin, nodeVars
  <2> QED
    BY <1>1, <2>1, <2>2
<1>5. ASSUME NEW c \in Client, NEW r \in Call, Gather(c, r) PROVE Views'
  <2>1. UNCHANGED <<out, late>> /\ seen' = [seen EXCEPT ![c] =
                IF \E n \in Node : link[c][n] = "broken" THEN Nothing
                ELSE [x \in Name |-> IF x \in Operands(r) THEN value[x] ELSE {}]]
    BY <1>5 DEF Gather, BeginGather, Begin, nodeVars
  <2>2. [x \in Name |-> IF x \in Operands(r) THEN value[x] ELSE {}] \in [Name -> SUBSET Global]
    BY <1>1, SplitTypes DEF Control
  <2> QED
    BY <1>1, <1>2, <2>1, <2>2
<1>6. ASSUME NEW c \in Client, Taken(c) PROVE Views'
  BY <1>1, <1>2, <1>6 DEF Taken, nodeVars
<1>7. ASSUME NEW c \in Client, Collect(c) \/ LoadAck(c) PROVE Views'
  <2>1. UNCHANGED <<seen, late>> /\ (out' = out \/ \E ok, k : Return(c, ok, k))
    BY <1>7 DEF Collect, LoadAck, historyVars, nodeVars
  <2> QED
    BY <1>3, <2>1
<1>8. ASSUME NEW c \in Client, LoadInOrder(c) \/ Run(c) PROVE Views'
  <2>1. UNCHANGED <<seen, out, late>>
    BY <1>8, RunCases DEF LoadInOrder, LoadNext, Run, historyVars, nodeVars
  <2> QED
    BY <1>3, <2>1
<1>10. ASSUME NEW c \in Client, Dial(c) PROVE Views'
  <2>1. tasks[c] = {}
    BY <1>10 DEF Dial, AInv, RInv, Readers
  <2>2. \A k \in Node : Leftover(c, k, serial[c]) = {}
    BY <2>1 DEF Leftover, AInv, Good, Talks
  <2> QED
    BY <1>1, <1>10, <2>2 DEF Dial, historyVars
<1>11. ASSUME NEW k \in Node, NodeDies(k) PROVE Views'
  <2>1. UNCHANGED <<seen, out>> /\ late' = [late EXCEPT ![k] = {}]
    BY <1>11 DEF NodeDies, Crash
  <2> QED
    BY <1>1, <2>1, SplitTypes DEF Control
<1>9. ASSUME (\E c \in Client, k \in Node : Serve(c, k)) \/ Network \/ UNCHANGED vars
      PROVE  Views'
  BY <1>3, <1>9 DEF Serve, Handle, Network, Lose, Restart, vars, historyVars, nodeVars
<1>12. ASSUME NEW k \in Node, ServeLate(k) PROVE FALSE
  BY <1>1, <1>12 DEF ServeLate
<1> QED
  BY <1>4, <1>5, <1>6, <1>7, <1>8, <1>9, <1>10, <1>11, <1>12 DEF Next, Step

\* A step that changes neither what nodes store nor what versions there are is one of
\* client c's alone.
LEMMA OthersKept ==
  ASSUME AInv, NEW c \in Client, RInv', Views', Good(c)',
         \A d \in Client \ {c} :
           UNCHANGED <<tasks[d], inbox[d], outbox[d], link[d], results[d], call[d], pc[d],
                       out[d], todo[d], since[d], seen[d]>>,
         UNCHANGED <<sets, value>>,
         pc'[c] = "loading" => pc[c] = "loading" /\ call'[c] = call[c]
  PROVE  AInv'
<1>1. ASSUME NEW e \in Client, pc'[e] = "loading" PROVE pc[e] = "loading" /\ call'[e] = call[e]
  BY <1>1
<1>2. ASSUME NEW d \in Client, d # c PROVE Good(d)'
  <2>1. UNCHANGED <<tasks[d], inbox[d], outbox[d], link[d], results[d], call[d], pc[d],
                    out[d], todo[d], since[d], seen[d]>>
    BY <1>2
  <2>2. Loads(d) /\ Gathers(d)
    BY DEF AInv, Good
  <2>3. pc[d] = "loading" => \A e \in Client : Loading(e, call[d].name)' => call'[e].set \in since'[d]
    BY <1>1, <2>1, <2>2 DEF Loads, Loading
  <2>4. pc[d] = "gathering" /\ Sees(d) =>
          \A e \in Client : pc'[e] = "loading" /\ call'[e].name \in Operands(call[d]) =>
               call'[e].set \in seen'[d][call'[e].name]
    BY <1>1, <2>1, <2>2 DEF Gathers
  <2>5. pc[d] = "loading" => call[d].set \in value'[call[d].name]
    BY <2>2 DEF Loads
  <2> QED
    BY <2>1, <2>3, <2>4, <2>5, ClientKept
<1>3. Stores'
  BY DEF Stores, AInv
<1> QED
  BY <1>2, <1>3 DEF AInv

\* The shapes of the variables, for the steps below.
LEMMA Shapes ==
  ASSUME AInv
  PROVE  /\ tasks \in [Client -> SUBSET Goroutine] /\ results \in [Client -> Seq(Result)]
         /\ inbox \in [Client -> [Node -> Seq(Msg)]] /\ outbox \in [Client -> [Node -> Seq(Bytes)]]
         /\ link \in [Client -> [Node -> {"closed", "open", "broken"}]]
         /\ sets \in [Node -> [Name -> Seq(Word)]]
         /\ pc \in [Client -> Labels] /\ call \in [Client -> Call \cup {NoCall}]
         /\ serial \in [Client -> Nat] /\ todo \in [Client -> SUBSET Node]
         /\ value \in [Name -> SUBSET Global] /\ since \in [Client -> SUBSET Global]
         /\ DOMAIN out = Client /\ seen \in [Client -> [Name -> SUBSET Global]]
         /\ \A y \in Name : value[y] # {}
BY SplitTypes DEF AInv, RInv, Control, NodeTypeOK, Views

\* A client between calls has silent connections.
LEMMA Silent ==
  ASSUME AInv, NEW c \in Client, tasks[c] = {}
  PROVE  \A k \in Node : inbox[c][k] = <<>> /\ outbox[c][k] = <<>>
BY DEF AInv, Good, Talks

\* What Exchange says of a goroutine, with its node named.
LEMMA Talking ==
  ASSUME AInv, NEW c \in Client, NEW t \in tasks[c], NEW k, k = t.node
  PROVE  /\ k \in Node /\ t \in Goroutine /\ t.got \in Seq(Bytes) /\ outbox[c][k] \in Seq(Bytes)
         /\ t.msg = Request(c, k)
         /\ inbox[c][k] # <<>> => /\ t.at = "header" /\ inbox[c][k] = <<t.msg>>
                                  /\ t.got = <<>> /\ outbox[c][k] = <<>>
                                  /\ link[c][k] = "open"
         /\ t.at = "write" => outbox[c][k] = <<>>
         /\ t.at = "header" => t.len = 4 /\ Answering(c, k, t.got \o outbox[c][k], 1)
         /\ t.at = "body" => t.len = 8 /\ Answering(c, k, t.got \o outbox[c][k], 5)
<1>1. t \in Goroutine /\ t.node \in Node /\ t.got \in Seq(Bytes)
  BY Shapes DEF Goroutine
<1>2. outbox[c][k] \in Seq(Bytes)
  BY <1>1, Shapes
<1>3. Exchange(c, t)
  BY DEF AInv, Good, Talks
<1>4. t.got \o outbox[c][k] = <<>> => t.got = <<>>
  BY <1>1, <1>2, ConcatEqualIffEmpty
<1> QED
  BY <1>1, <1>2, <1>3, <1>4 DEF Exchange

LEMMA QuietGood ==
  ASSUME NEW c \in Client, tasks'[c] = {}, pc'[c] \in {"idle", "new"},
         \A k \in Node : inbox'[c][k] = <<>> /\ outbox'[c][k] = <<>>
  PROVE  Good(c)'
<1>1. Talks(c)'
  BY DEF Talks
<1> QED
  BY <1>1 DEF Good, Loads, Gathers, Exact

LEMMA DialAnswers ==
  ASSUME AInv, RInv', Views', NEW c \in Client, Dial(c)
  PROVE  AInv'
<1>1. /\ tasks' = [tasks EXCEPT ![c] = {}] /\ pc' = [pc EXCEPT ![c] = "idle"]
      /\ link' = [link EXCEPT ![c] = [n \in Node |-> "open"]]
      /\ inbox' = [inbox EXCEPT ![c] = [n \in Node |-> <<>>]]
      /\ outbox' = [outbox EXCEPT ![c] = [n \in Node |-> <<>>]]
      /\ UNCHANGED <<sets, call, todo, results, out, value, since, seen>>
  BY DEF Dial, callVars, historyVars
<1>2. Good(c)'
  BY <1>1, Shapes, QuietGood
<1>3. \A d \in Client \ {c} :
        UNCHANGED <<tasks[d], inbox[d], outbox[d], link[d], results[d], call[d], pc[d],
                    out[d], todo[d], since[d], seen[d]>>
  BY <1>1, Shapes
<1>4. pc'[c] # "loading"
  BY <1>1, Shapes
<1> QED
  BY <1>1, <1>2, <1>3, <1>4, OthersKept

LEMMA TakenAnswers ==
  ASSUME AInv, RInv', Views', NEW c \in Client, Taken(c)
  PROVE  AInv'
<1>1. /\ pc[c] = "returned" /\ tasks' = tasks /\ pc' = [pc EXCEPT ![c] = "idle"]
      /\ call' = [call EXCEPT ![c] = NoCall] /\ todo' = [todo EXCEPT ![c] = {}]
      /\ results' = [results EXCEPT ![c] = <<>>] /\ out' = [out EXCEPT ![c] = NoCall]
      /\ seen' = [seen EXCEPT ![c] = Nothing] /\ since' = [since EXCEPT ![c] = {}]
      /\ UNCHANGED <<sets, value, inbox, outbox, link>>
  BY DEF Taken, nodeVars
<1>2. tasks[c] = {}
  BY <1>1 DEF AInv, RInv, Readers
<1>3. Good(c)'
  BY <1>1, <1>2, Shapes, Silent, QuietGood
<1>4. \A d \in Client \ {c} :
        UNCHANGED <<tasks[d], inbox[d], outbox[d], link[d], results[d], call[d], pc[d],
                    out[d], todo[d], since[d], seen[d]>>
  BY <1>1, Shapes
<1>5. pc'[c] # "loading"
  BY <1>1, Shapes
<1> QED
  BY <1>1, <1>3, <1>4, <1>5, OthersKept

LEMMA GatherAnswers ==
  ASSUME AInv, RInv', Views', NEW c \in Client, NEW r \in Call, Gather(c, r)
  PROVE  AInv'
<1> DEFINE msg(k) == Message(r, IF r.op = "query" THEN [n \in Node |-> Slice(r.set, n)][k] ELSE <<>>)
           new == {Task(c, k, msg(k)) : k \in Node}
<1>1. /\ pc[c] = "idle" /\ r.op \in {"stored", "query"}
      /\ pc' = [pc EXCEPT ![c] = "gathering"] /\ call' = [call EXCEPT ![c] = r]
      /\ results' = [results EXCEPT ![c] = <<>>]
      /\ tasks' = [tasks EXCEPT ![c] = @ \cup new]
      /\ seen' = [seen EXCEPT ![c] =
                IF \E n \in Node : link[c][n] = "broken" THEN Nothing
                ELSE [x \in Name |-> IF x \in Operands(r) THEN value[x] ELSE {}]]
      /\ UNCHANGED <<inbox, outbox, link, sets, out, todo, value, since>>
  BY DEF Gather, BeginGather, Begin, nodeVars
<1>2. tasks[c] = {}
  BY <1>1 DEF AInv, RInv, Readers
<1> HIDE DEF new
<1>3. /\ pc'[c] = "gathering" /\ call'[c] = r /\ results'[c] = <<>> /\ tasks'[c] = new
      /\ \A d \in Client \ {c} :
           UNCHANGED <<tasks[d], inbox[d], outbox[d], link[d], results[d], call[d], pc[d],
                       out[d], todo[d], since[d], seen[d]>>
  BY <1>1, <1>2, Shapes
<1>4. /\ (\E n \in Node : link[c][n] = "broken") => seen'[c] = Nothing
      /\ ~(\E n \in Node : link[c][n] = "broken") => \A y \in Operands(r) : seen'[c][y] = value[y]
  <2>1. seen'[c] = IF \E n \in Node : link[c][n] = "broken" THEN Nothing
                   ELSE [x \in Name |-> IF x \in Operands(r) THEN value[x] ELSE {}]
    BY <1>1, Shapes
  <2>2. Operands(r) \subseteq Name
    BY ClientAssumption DEF Operands
  <2> QED
    BY <2>1, <2>2
<1>5. \A k \in Node : inbox'[c][k] = <<>> /\ outbox'[c][k] = <<>>
  BY <1>1, <1>2, Silent
<1>6. \A t \in new : \E k \in Node :
        t.node = k /\ t.msg = msg(k) /\ t.at = "write" /\ t.got = <<>>
  <2> HIDE DEF msg
  <2> QED
    BY DEF new, Task
<1>7. \A k \in Node : \E t \in new : t.node = k
  <2> HIDE DEF msg
  <2> TAKE k \in Node
  <2>1. Task(c, k, msg(k)) \in new
    BY DEF new
  <2>2. Task(c, k, msg(k)).node = k
    BY DEF Task
  <2> QED
    BY <2>1, <2>2
<1>8. Talks(c)'
  <2>1. ASSUME NEW t \in new PROVE Exchange(c, t)'
    <3>1. PICK k \in Node : t.node = k /\ t.msg = msg(k) /\ t.at = "write"
      BY <1>6
    <3>2. t.msg = Request(c, k)'
      BY <1>1, <1>3, <3>1 DEF Request
    <3> HIDE DEF msg
    <3> QED
      BY <1>5, <3>1, <3>2 DEF Exchange
  <2>2. 1..Len(results'[c]) = {}
    BY <1>3
  <2> HIDE DEF msg
  <2> QED
    BY <1>3, <1>5, <2>1, <2>2 DEF Talks
<1>9. Gathers(c)'
  <2> HIDE DEF msg
  <2>1. 1..Len(results'[c]) = {}
    BY <1>3
  <2>2. ASSUME Sees(c)'
        PROVE  /\ \A k \in Node, y \in Operands(r) : OneOf(sets[k][y], seen'[c][y], k)
               /\ \A d \in Client : pc'[d] = "loading" /\ call'[d].name \in Operands(r) =>
                    call'[d].set \in seen'[c][call'[d].name]
    <3>1. r.name \in Operands(r) /\ Operands(r) \subseteq Name
      BY ClientAssumption DEF Operands
    <3>2. seen'[c] # Nothing
      BY <1>3, <2>2, <3>1 DEF Sees, Nothing
    <3>3. \A y \in Operands(r) : seen'[c][y] = value[y]
      BY <1>4, <3>2
    <3>4. ASSUME NEW d \in Client, pc'[d] = "loading"
          PROVE  pc[d] = "loading" /\ call'[d] = call[d]
      BY <1>3, <3>4
    <3> QED
      BY <3>1, <3>3, <3>4 DEF AInv, Stores, Good, Loads
  <2>3. ASSUME ~Sees(c)'
        PROVE  seen'[c] = Nothing /\ \E k \in Node : link'[c][k] = "broken"
    <3>1. \E y \in Operands(r) : seen'[c][y] = {}
      BY <1>3, <2>3 DEF Sees
    <3>2. Operands(r) \subseteq Name
      BY ClientAssumption DEF Operands
    <3> QED
      BY <1>1, <1>4, <3>1, <3>2, Shapes
  <2>4. \A t \in new : t.at # "body" /\ t.got = <<>>
    BY <1>6
  <2> QED
    BY <1>1, <1>3, <1>5, <1>7, <2>1, <2>2, <2>3, <2>4, ZenonT(30) DEF Gathers
<1>10. Good(c)'
  <2>1. pc'[c] = "gathering"
    BY <1>3
  <2> QED
    BY <1>8, <1>9, <2>1 DEF Good, Loads, Exact
<1> QED
  BY <1>1, <1>3, <1>10, OthersKept

LEMMA LoadNextAnswers ==
  ASSUME AInv, RInv', Views', NEW c \in Client, LoadInOrder(c)
  PROVE  AInv'
<1>1. PICK k \in todo[c] : LoadNext(c, k, Slice(call[c].set, k))
  BY DEF LoadInOrder
<1>0. PICK t : t = Task(c, k, Message(call[c], Slice(call[c].set, k)))
  OBVIOUS
<1>2. /\ pc[c] = "loading" /\ results[c] = <<>> /\ serial' = serial
      /\ \A u \in tasks[c] : u.serial # serial[c]
      /\ tasks' = [tasks EXCEPT ![c] = @ \cup {t}]
      /\ UNCHANGED <<inbox, outbox, link, sets, pc, call, todo, results, out, value, since, seen>>
  BY <1>0, <1>1 DEF LoadNext, nodeVars, historyVars
<1>3. tasks[c] = {}
  BY <1>2 DEF AInv, RInv, Readers
<1>4. /\ t.node = k /\ t.at = "write" /\ t.msg = Message(call[c], Slice(call[c].set, k))
      /\ k \in Node
  BY <1>0, <1>2, Shapes DEF Task
<1>5. tasks'[c] = {t} /\ \A d \in Client \ {c} : tasks'[d] = tasks[d]
  BY <1>2, <1>3, Shapes
<1>6. \A l \in Node : inbox[c][l] = <<>> /\ outbox[c][l] = <<>>
  BY <1>3, Silent
<1>7. call[c].op = "load" /\ Loads(c)
  BY <1>2 DEF AInv, Good, Loads
<1>8. Talks(c)'
  <2>1. t.msg = Request(c, k)'
    BY <1>2, <1>4, <1>7 DEF Request
  <2>2. Exchange(c, t)'
    BY <1>2, <1>4, <1>6, <2>1 DEF Exchange
  <2>3. 1..Len(results'[c]) = {}
    BY <1>2
  <2> QED
    BY <1>2, <1>5, <1>6, <2>2, <2>3 DEF Talks
<1>9. Loads(c)'
  BY <1>2, <1>7 DEF Loads, Loading
<1>10. Good(c)'
  BY <1>2, <1>8, <1>9 DEF Good, Gathers, Exact
<1> QED
  BY <1>2, <1>5, <1>10, OthersKept

\* A gather that succeeds adds up one answer of every node (cluster.go:261-270).
LEMMA CollectAnswers ==
  ASSUME AInv, RInv', Views', NEW c \in Client, Collect(c)
  PROVE  AInv'
<1> DEFINE rs == results[c]
           r == call[c]
<1>1. /\ pc[c] = "gathering" /\ Len(rs) = Nodes
      /\ pc' = [pc EXCEPT ![c] = "returned"]
      /\ IF Failed(rs) THEN out' = [out EXCEPT ![c] = [ok |-> FALSE, count |-> 0]]
         ELSE out' = [out EXCEPT ![c] = [ok |-> TRUE, count |-> Total(rs)]]
      /\ UNCHANGED <<inbox, outbox, link, sets, call, todo, tasks, results, value, since, seen>>
  BY DEF Collect, Return, nodeVars, callVars, historyVars
<1>2. tasks[c] = {}
  BY <1>1, Shapes DEF RInv, Readers
<1>3. /\ pc'[c] = "returned"
      /\ out'[c] = IF Failed(rs) THEN [ok |-> FALSE, count |-> 0] ELSE [ok |-> TRUE, count |-> Total(rs)]
      /\ \A d \in Client \ {c} : pc'[d] = pc[d] /\ out'[d] = out[d]
  BY <1>1, Shapes
<1>4. /\ Gathers(c) /\ Talks(c) /\ rs \in Seq(Result) /\ DOMAIN rs = 1..Len(rs)
      /\ r \in Call /\ r.name \in Name /\ r.with \in Name /\ r.set \in Global
      /\ r.op \in {"stored", "query"}
  <2>1. Gathers(c) /\ Talks(c) /\ rs \in Seq(Result) /\ r.op \in {"stored", "query"}
    BY <1>1, Shapes DEF AInv, Good, Gathers
  <2>2. DOMAIN rs = 1..Len(rs)
    BY <2>1, LenProperties
  <2> QED
    BY <1>1, <2>1, <2>2, Busy
<1>5. /\ \A k \in Node : \E q \in 1..Len(rs) : rs[q].node = k
      /\ \A p, q \in 1..Len(rs) : rs[p].node = rs[q].node => p = q
  BY <1>1, <1>2, <1>4 DEF Gathers
<1>6. ASSUME ~Failed(rs) PROVE Total(rs) \in Counts(r, Home, seen[c])
  <2>1. \A q \in 1..Len(rs) : rs[q].ok
    BY <1>4, <1>6 DEF Failed
  <2>2. Sees(c)
    <3> SUFFICES ASSUME ~Sees(c) PROVE FALSE
      OBVIOUS
    <3>1. PICK k \in Node : \A q \in 1..Len(rs) : rs[q].node = k => ~rs[q].ok
      BY <1>1, <1>4 DEF Gathers
    <3> QED
      BY <1>5, <2>1, <3>1
  <2> DEFINE F == seen[c][r.name]
             G == Against(r, seen[c])
  <2>3. \A q \in 1..Len(rs) : \E f \in F, g \in G : rs[q].count = Cardinality(Shared(f, g, rs[q].node))
    <3> TAKE q \in 1..Len(rs)
    <3>1. IsAnswer(c, rs[q].node, rs[q].count)
      BY <1>1, <1>4, <2>1 DEF Talks
    <3> QED
      BY <1>4, <2>2, <3>1 DEF IsAnswer
  <2>4. \A k \in Node : \E f \in F, g \in G : \E q \in 1..Len(rs) :
          rs[q].node = k /\ rs[q].count = Cardinality(Shared(f, g, k))
    <3> TAKE k \in Node
    <3>1. PICK q \in 1..Len(rs) : rs[q].node = k
      BY <1>5
    <3>2. PICK f \in F, g \in G : rs[q].count = Cardinality(Shared(f, g, rs[q].node))
      BY <2>3
    <3> HIDE DEF F, G, rs
    <3> QED
      BY <3>1, <3>2
  <2> DEFINE pick(k) == CHOOSE w \in F \X G : \E q \in 1..Len(rs) :
                          rs[q].node = k /\ rs[q].count = Cardinality(Shared(w[1], w[2], k))
             fs == [k \in Node |-> pick(k)[1]]
             gs == [k \in Node |-> pick(k)[2]]
  <2>5. ASSUME NEW k \in Node
        PROVE  /\ pick(k) \in F \X G
               /\ \E q \in 1..Len(rs) :
                     rs[q].node = k /\ rs[q].count = Cardinality(Shared(pick(k)[1], pick(k)[2], k))
    <3> HIDE DEF F, G, rs
    <3>1. \E w \in F \X G : \E q \in 1..Len(rs) :
             rs[q].node = k /\ rs[q].count = Cardinality(Shared(w[1], w[2], k))
      <4>1. PICK f \in F, g \in G : \E q \in 1..Len(rs) :
              rs[q].node = k /\ rs[q].count = Cardinality(Shared(f, g, k))
        BY <2>4
      <4>2. <<f, g>> \in F \X G /\ <<f, g>>[1] = f /\ <<f, g>>[2] = g
        OBVIOUS
      <4> QED
        BY <4>1, <4>2
    <3> QED
      BY <3>1
  <2> HIDE DEF pick
  <2>6. fs \in [Node -> F] /\ gs \in [Node -> G]
    <3> HIDE DEF F, G
    <3> QED
      BY <2>5
  <2>7. \A q \in 1..Len(rs) : rs[q].node \in Node
    <3>1. \A q \in 1..Len(rs) : rs[q] \in Result
      <4> HIDE DEF rs
      <4> QED
        BY <1>4, ElementOfSeq
    <3> QED
      BY <3>1 DEF Result
  <2>8. \A q \in 1..Len(rs) :
          rs[q].count = Cardinality(Shared(fs[rs[q].node], gs[rs[q].node], rs[q].node))
    <3> TAKE q \in 1..Len(rs)
    <3>1. PICK p \in 1..Len(rs) : rs[p].node = rs[q].node /\ rs[p].count =
             Cardinality(Shared(pick(rs[q].node)[1], pick(rs[q].node)[2], rs[q].node))
      BY <2>5, <2>7
    <3>2. p = q
      BY <1>5, <3>1
    <3> HIDE DEF rs
    <3> QED
      BY <2>7, <3>1, <3>2
  <2>9. Total(rs) = Cardinality(SharedBy(fs, gs))
    <3> HIDE DEF rs, fs, gs
    <3> QED
      BY <1>4, <1>5, <2>8, TotalCounts
  <2>10. Counts(r, Home, seen[c]) =
           {Cardinality(SharedBy(f, g)) : f \in [Node -> F], g \in [Node -> G]}
    BY DEF Counts, SharedBy, Against
  <2> HIDE DEF fs, gs, F, G, r, rs
  <2> QED
    BY <2>6, <2>9, <2>10
<1>7. Talks(c)'
  BY <1>1, <1>2, <1>3, <1>4, Silent DEF Talks
<1>8. Exact(c)'
  <2>1. out'[c].ok => ~Failed(rs) /\ out'[c].count = Total(rs)
    BY <1>3
  <2> HIDE DEF rs
  <2> QED
    BY <1>1, <1>6, <2>1 DEF Exact
<1>9. Good(c)'
  BY <1>3, <1>7, <1>8 DEF Good, Loads, Gathers
<1> QED
  BY <1>1, <1>3, <1>9, OthersKept

LEMMA Grows ==
  ASSUME NEW s, NEW k, NEW V, NEW W, V \subseteq W, OneOf(s, V, k)
  PROVE  OneOf(s, W, k)
BY DEF OneOf

\* A load that begins adds a version of its name to every history.
LEMMA BeginLoadAnswers ==
  ASSUME AInv, RInv', Views', NEW c \in Client, NEW r \in Call, BeginLoad(c, r)
  PROVE  AInv'
<1>1. /\ pc[c] = "idle" /\ r.op = "load"
      /\ pc' = [pc EXCEPT ![c] = "loading"] /\ call' = [call EXCEPT ![c] = r]
      /\ results' = [results EXCEPT ![c] = <<>>] /\ todo' = [todo EXCEPT ![c] = Node]
      /\ value' = [value EXCEPT ![r.name] = @ \cup {r.set}]
      /\ since' = [d \in Client |->
           IF d = c THEN {r.set} \cup Underway(r.name) \cup
                         {call[e].set : e \in {e \in Client : Loading(e, r.name)}}
           ELSE IF Loading(d, r.name) THEN since[d] \cup {r.set} ELSE since[d]]
      /\ seen' = [d \in Client |->
           IF pc[d] = "gathering" /\ seen[d][r.name] # {}
           THEN [seen[d] EXCEPT ![r.name] = @ \cup {r.set}] ELSE seen[d]]
      /\ UNCHANGED <<inbox, outbox, link, sets, out, tasks>>
  BY DEF BeginLoad, Begin, nodeVars
<1>2. tasks[c] = {}
  BY <1>1 DEF AInv, RInv, Readers
<1>3. /\ pc'[c] = "loading" /\ call'[c] = r /\ results'[c] = <<>> /\ todo'[c] = Node
      /\ \A d \in Client \ {c} :
           UNCHANGED <<tasks[d], inbox[d], outbox[d], link[d], results[d], call[d], pc[d],
                       out[d], todo[d]>>
      /\ r.name \in Name
  BY <1>1, Shapes, ClientAssumption
<1>4. r.set \in value'[r.name] /\ \A y \in Name : value[y] \subseteq value'[y]
  BY <1>1, <1>3, Shapes
<1>5. ASSUME NEW e \in Client, Loading(e, r.name)'
      PROVE  call'[e].set \in since'[c]
  <2>1. CASE e = c
    BY <1>1, <1>3, <2>1
  <2>2. CASE e # c
    <3>1. Loading(e, r.name) /\ call'[e] = call[e]
      BY <1>3, <1>5, <2>2 DEF Loading
    <3> QED
      BY <1>1, <3>1
  <2> QED
    BY <2>1, <2>2
<1>6. Good(c)'
  <2>1. 1..Len(results'[c]) = {}
    BY <1>3
  <2>2. Talks(c)'
    BY <1>1, <1>2, <2>1, Silent DEF Talks
  <2>3. Loads(c)'
    BY <1>1, <1>3, <1>4, <1>5 DEF Loads
  <2> QED
    BY <1>3, <2>2, <2>3 DEF Good, Gathers, Exact
<1>7. ASSUME NEW d \in Client, d # c PROVE Good(d)'
  <2>1. /\ UNCHANGED <<tasks[d], inbox[d], outbox[d], link[d], results[d], call[d], pc[d],
                       out[d], todo[d]>>
        /\ Good(d)
    BY <1>3, <1>7 DEF AInv
  <2>2. /\ since[d] \subseteq since'[d]
        /\ Loading(d, r.name) => r.set \in since'[d]
    BY <1>1, <1>7
  <2>3. /\ seen[d] \in [Name -> SUBSET Global]
        /\ seen'[d] = IF pc[d] = "gathering" /\ seen[d][r.name] # {}
                      THEN [seen[d] EXCEPT ![r.name] = @ \cup {r.set}] ELSE seen[d]
    BY <1>1, Shapes
  <2>4. /\ \A y \in Name : seen[d][y] \subseteq seen'[d][y] /\ (seen'[d][y] # {} => seen[d][y] # {})
        /\ seen[d] = Nothing => seen'[d] = Nothing
        /\ pc[d] = "gathering" /\ seen[d][r.name] # {} => r.set \in seen'[d][r.name]
    BY <1>3, <2>3 DEF Nothing
  <2>5. pc[d] = "loading" =>
           /\ call[d].set \in value'[call[d].name]
           /\ \A e \in Client : Loading(e, call[d].name)' => call'[e].set \in since'[d]
           /\ \A k \in Node : OneOf(sets[k][call[d].name], since[d], k) =>
                                OneOf(sets'[k][call[d].name], since'[d], k)
    <3> SUFFICES ASSUME pc[d] = "loading"
                 PROVE  /\ call[d].set \in value'[call[d].name]
                        /\ \A e \in Client : Loading(e, call[d].name)' => call'[e].set \in since'[d]
      BY <1>1, <2>2, Grows
    <3>1. call[d].name \in Name /\ Loads(d)
      BY <2>1, Busy DEF Good
    <3>2. call[d].set \in value'[call[d].name]
      BY <1>4, <3>1 DEF Loads
    <3>3. ASSUME NEW e \in Client, Loading(e, call[d].name)' PROVE call'[e].set \in since'[d]
      <4>1. CASE e = c
        BY <1>3, <2>1, <2>2, <3>3, <4>1 DEF Loading
      <4>2. CASE e # c
        <5>1. Loading(e, call[d].name) /\ call'[e] = call[e]
          BY <1>3, <2>1, <3>3, <4>2 DEF Loading
        <5> QED
          BY <2>2, <3>1, <5>1 DEF Loads
      <4> QED
        BY <4>1, <4>2
    <3> QED
      BY <3>2, <3>3
  <2>6. pc[d] = "gathering" /\ Sees(d) =>
          /\ \A k \in Node, y \in Operands(call[d]) : OneOf(sets[k][y], seen[d][y], k)
               => OneOf(sets'[k][y], seen'[d][y], k)
          /\ \A e \in Client : pc'[e] = "loading" /\ call'[e].name \in Operands(call[d]) =>
               call'[e].set \in seen'[d][call'[e].name]
    <3> SUFFICES ASSUME pc[d] = "gathering", Sees(d)
                 PROVE  /\ \A k \in Node, y \in Operands(call[d]) : OneOf(sets[k][y], seen[d][y], k)
                             => OneOf(sets'[k][y], seen'[d][y], k)
                        /\ \A e \in Client : pc'[e] = "loading" /\ call'[e].name \in Operands(call[d]) =>
                              call'[e].set \in seen'[d][call'[e].name]
      OBVIOUS
    <3>1. Operands(call[d]) \subseteq Name /\ Gathers(d)
      BY <2>1, Busy DEF Good, Operands
    <3>2. \A k \in Node, y \in Operands(call[d]) : OneOf(sets[k][y], seen[d][y], k)
             => OneOf(sets'[k][y], seen'[d][y], k)
      BY <1>1, <2>4, <3>1, Grows
    <3>3. ASSUME NEW e \in Client, pc'[e] = "loading", call'[e].name \in Operands(call[d])
          PROVE  call'[e].set \in seen'[d][call'[e].name]
      <4>1. CASE e = c
        BY <1>3, <2>4, <3>3, <4>1 DEF Sees
      <4>2. CASE e # c
        <5>1. pc[e] = "loading" /\ call'[e] = call[e]
          BY <1>3, <3>3, <4>2
        <5> QED
          BY <2>4, <3>1, <3>3, <5>1 DEF Gathers
      <4> QED
        BY <4>1, <4>2
    <3> QED
      BY <3>2, <3>3
  <2>7. pc[d] = "returned" => seen'[d] = seen[d]
    BY <2>3
  <2> QED
    BY <2>1, <2>4, <2>5, <2>6, <2>7, ClientKept
<1>8. Stores'
  BY <1>1, <1>4, Grows DEF Stores, AInv
<1> QED
  BY <1>6, <1>7, <1>8 DEF AInv

\* The last acknowledgement of a load settles what its name may be: every node's
\* slice is of the version loaded, or of one that came up meanwhile.
LEMMA LoadAckAnswers ==
  ASSUME AInv, RInv', Views', NEW c \in Client, LoadAck(c)
  PROVE  AInv'
<1> DEFINE r == Head(results[c])
<1>1. /\ pc[c] = "loading" /\ results[c] # <<>>
      /\ todo' = [todo EXCEPT ![c] = @ \ {r.node}]
      /\ results' = [results EXCEPT ![c] = <<>>]
      /\ UNCHANGED <<inbox, outbox, link, sets, call, tasks, since, seen>>
      /\ \/ pc' = [pc EXCEPT ![c] = "returned"] /\ (\E v : out' = [out EXCEPT ![c] = v]) /\ value' = value
         \/ /\ r.ok /\ todo[c] = {r.node}
            /\ pc' = [pc EXCEPT ![c] = "returned"] /\ (\E v : out' = [out EXCEPT ![c] = v])
            /\ value' = [value EXCEPT ![call[c].name] = since[c]]
         \/ r.ok /\ UNCHANGED <<pc, out, value>>
  BY DEF LoadAck, Return, nodeVars, callVars
<1>2. /\ tasks[c] = {}
      /\ call[c].op = "load" /\ call[c].name \in Name /\ Loads(c) /\ Talks(c)
      /\ Len(results[c]) > 0 /\ r = results[c][1]
  BY <1>1, Busy, Shapes DEF AInv, RInv, Readers, Good
<1>3. r.ok => OneOf(sets[r.node][call[c].name], since[c], r.node)
  <2>1. 1 \in 1..Len(results[c])
    BY <1>2, Shapes
  <2> HIDE DEF r
  <2>2. r.ok => IsAnswer(c, r.node, r.count)
    BY <1>1, <1>2, <2>1 DEF Talks
  <2> QED
    BY <1>2, <2>2 DEF IsAnswer
<1> HIDE DEF r
<1>4. /\ pc'[c] \in {"loading", "returned"} /\ call'[c] = call[c] /\ results'[c] = <<>>
      /\ todo'[c] = todo[c] \ {r.node}
      /\ pc'[c] = "loading" => r.ok
      /\ \A d \in Client \ {c} :
           UNCHANGED <<tasks[d], inbox[d], outbox[d], link[d], results[d], call[d], pc[d],
                       out[d], todo[d], since[d], seen[d]>>
  BY <1>1, Shapes
<1>5. ASSUME NEW e \in Client, pc'[e] = "loading" PROVE pc[e] = "loading" /\ call'[e] = call[e]
  BY <1>1, <1>4, <1>5
<1>6. \A e \in Client : pc'[e] = "loading" => call'[e].set \in value'[call'[e].name]
  <2> TAKE e \in Client
  <2> SUFFICES ASSUME pc'[e] = "loading" PROVE call[e].set \in value'[call[e].name]
    BY <1>5
  <2>1. Loads(e) /\ pc[e] = "loading" /\ call[e].name \in Name
    BY <1>5, Busy DEF AInv, Good
  <2>2. Loading(e, call[c].name) => call[e].set \in since[c]
    BY <1>1, <1>2 DEF Loads
  <2> QED
    BY <1>1, <1>2, <2>1, <2>2, Shapes DEF Loads, Loading
<1>7. Good(c)'
  <2>1. 1..Len(results'[c]) = {}
    BY <1>4
  <2>2. Talks(c)'
    BY <1>1, <1>2, <2>1, Silent DEF Talks
  <2>3. Loads(c)'
    <3> SUFFICES ASSUME pc'[c] = "loading"
                 PROVE  /\ call[c].set \in value'[call[c].name]
                        /\ \A d \in Client : Loading(d, call[c].name)' => call'[d].set \in since[c]
                        /\ \A k \in Node \ todo'[c] : OneOf(sets[k][call[c].name], since[c], k)
      BY <1>1, <1>2 DEF Loads
    <3>1. call[c].set \in value'[call[c].name]
      BY <1>1, <1>6
    <3>2. \A d \in Client : Loading(d, call[c].name)' => call'[d].set \in since[c]
      BY <1>1, <1>2, <1>5 DEF Loads, Loading
    <3>3. \A k \in Node \ todo'[c] : OneOf(sets[k][call[c].name], since[c], k)
      BY <1>1, <1>2, <1>3, <1>4 DEF Loads
    <3> QED
      BY <3>1, <3>2, <3>3
  <2> QED
    BY <1>2, <1>4, <2>2, <2>3 DEF Good, Gathers, Exact
<1>8. ASSUME NEW d \in Client, d # c PROVE Good(d)'
  <2>1. /\ UNCHANGED <<tasks[d], inbox[d], outbox[d], link[d], results[d], call[d], pc[d],
                       out[d], todo[d], since[d], seen[d]>>
        /\ Good(d)
    BY <1>4, <1>8 DEF AInv
  <2>2. pc[d] = "loading" =>
          /\ call[d].set \in value'[call[d].name]
          /\ \A e \in Client : Loading(e, call[d].name)' => call'[e].set \in since'[d]
    BY <1>5, <1>6, <2>1 DEF Good, Loads, Loading
  <2>3. pc[d] = "gathering" /\ Sees(d) =>
          \A e \in Client : pc'[e] = "loading" /\ call'[e].name \in Operands(call[d]) =>
               call'[e].set \in seen'[d][call'[e].name]
    BY <1>5, <2>1 DEF Good, Gathers
  <2> QED
    BY <1>1, <2>1, <2>2, <2>3, ClientKept
<1>9. Stores'
  <2> SUFFICES ASSUME NEW k \in Node, NEW y \in Name PROVE OneOf(sets[k][y], value'[y], k)
    BY <1>1 DEF Stores
  <2>1. OneOf(sets[k][y], value[y], k)
    BY DEF AInv, Stores
  <2>2. ASSUME r.ok, todo[c] = {r.node} PROVE OneOf(sets[k][call[c].name], since[c], k)
    BY <1>1, <1>2, <1>3, <2>2 DEF Loads
  <2> QED
    BY <1>1, <1>2, <2>1, <2>2, Shapes
<1> QED
  BY <1>7, <1>8, <1>9 DEF AInv

\* A reply and its body, byte by byte.
LEMMA ReplyParts ==
  ASSUME NEW m \in Nat
  PROVE  /\ Reply(m) \in Seq(Bytes) /\ Len(Reply(m)) = 12
         /\ \A q \in 1..12 : Reply(m)[q] = [at |-> q, count |-> m]
         /\ SubSeq(Reply(m), 1, 12) = Reply(m)
         /\ SubSeq(Reply(m), 5, 12) \in Seq(Bytes) /\ Len(SubSeq(Reply(m), 5, 12)) = 8
         /\ \A q \in 1..8 : SubSeq(Reply(m), 5, 12)[q] = Reply(m)[q + 4]
<1> DEFINE R == Reply(m)
<1>1. /\ R \in Seq(Bytes) /\ Len(R) = 12 /\ \A q \in 1..12 : R[q] = [at |-> q, count |-> m]
  <2>1. \A i \in 1..12 : [at |-> i, count |-> m] \in Bytes
    BY DEF Bytes
  <2>2. [i \in 1..12 |-> [at |-> i, count |-> m]] \in Seq(Bytes)
    BY <2>1, IsASeq
  <2> QED
    BY <2>2 DEF Reply
<1> HIDE DEF R
<1>2. SubSeq(R, 1, 12) = R
  BY <1>1, SubSeqFull
<1>3. SubSeq(R, 5, 12) \in Seq(Bytes) /\ Len(SubSeq(R, 5, 12)) = 8
      /\ \A q \in 1..8 : SubSeq(R, 5, 12)[q] = R[q + 4]
  <2>1. \A q \in 5..12 : R[q] \in Bytes
    <3>1. \A q \in 5..12 : q \in 1..12
      OBVIOUS
    <3> QED
      BY <1>1, <3>1, ElementOfSeq
  <2>2. /\ SubSeq(R, 5, 12) \in Seq(Bytes)
        /\ Len(SubSeq(R, 5, 12)) = IF 5 <= 12 THEN 12 - 5 + 1 ELSE 0
        /\ \A q \in 1..12 - 5 + 1 : SubSeq(R, 5, 12)[q] = R[5 + q - 1]
    BY <2>1, SubSeqProperties
  <2>3. \A q \in 1..8 : 5 + q - 1 = q + 4
    OBVIOUS
  <2> QED
    BY <2>2, <2>3
<1> QED
  BY <1>1, <1>2, <1>3 DEF R

\* A node stores a slice only for a load that every history knows of, and answers
\* from versions that a query sees.
LEMMA ServeAnswers ==
  ASSUME AInv, RInv', Views', NEW c \in Client, NEW k \in Node, Serve(c, k)
  PROVE  AInv'
<1> DEFINE r == Head(inbox[c][k])
<1>1. /\ link[c][k] = "open" /\ inbox[c][k] # <<>>
      /\ inbox' = [inbox EXCEPT ![c][k] = Tail(inbox[c][k])]
      /\ sets' = IF r.op = "load" THEN [sets EXCEPT ![k][r.name] = r.words] ELSE sets
      /\ outbox' = [outbox EXCEPT ![c][k] = outbox[c][k] \o Reply(Count(k, r))]
      /\ UNCHANGED <<link, pc, call, todo, tasks, results, out, value, since, seen>>
  BY DEF Serve, Handle, callVars, historyVars
<1>2. PICK t \in tasks[c] : t.node = k
  BY <1>1 DEF AInv, Good, Talks
<1>3. /\ t.at = "header" /\ inbox[c][k] = <<t.msg>> /\ outbox[c][k] = <<>>
      /\ t.msg = Request(c, k) /\ t.len = 4 /\ t.got = <<>>
  <2>1. k = t.node /\ inbox[c][k] # <<>>
    BY <1>1, <1>2
  <2>2. t.at = "header" /\ outbox[c][k] = <<>> /\ t.got = <<>>
    BY <2>1, Talking
  <2>5. inbox[c][k] = <<t.msg>>
    BY <2>1 DEF AInv, Good, Talks, Exchange
  <2>3. t.msg = Request(c, k)
    BY <2>1, Talking
  <2>4. t.at = "header" => t.len = 4
    BY <2>1, Talking
  <2> QED
    BY <2>2, <2>3, <2>4, <2>5
<1>4. r = Request(c, k) /\ Tail(inbox[c][k]) = <<>>
  BY <1>3
<1>5. /\ pc[c] \in {"loading", "gathering"} /\ call[c] \in Call
      /\ call[c].name \in Name /\ call[c].with \in Name /\ call[c].set \in Global
      /\ call[c].op = "load" <=> pc[c] = "loading"
      /\ call[c].op \in {"load", "stored", "query"}
  BY <1>2, Busy
<1>6. /\ r.op = call[c].op /\ r.name = call[c].name /\ r.with = call[c].with
      /\ r.words = IF call[c].op = "stored" THEN <<>> ELSE Slice(call[c].set, k)
  BY <1>4 DEF Request, Message
<1> HIDE DEF r
<1>7. \E m \in Nat : m = Count(k, r)
  <2>1. r \in Msg /\ sets \in [Node -> [Name -> Seq(Word)]]
    BY <1>1, Shapes DEF r
  <2>2. sets[k][r.name] \in Seq(Word) /\ sets[k][r.with] \in Seq(Word) /\ r.words \in Seq(Word)
    BY <2>1 DEF Msg
  <2>3. /\ AndCount(sets[k][r.name], sets[k][r.with]) \in Nat
        /\ AndCount(sets[k][r.name], r.words) \in Nat
    BY <2>2, AndCountType
  <2> QED
    BY <1>5, <1>6, <2>3 DEF Count
<1>20. PICK m \in Nat : m = Count(k, r)
  BY <1>7
<1>8. \A l \in Node, y \in Name :
        sets'[l][y] = IF pc[c] = "loading" /\ l = k /\ y = call[c].name
                      THEN Slice(call[c].set, k) ELSE sets[l][y]
  BY <1>1, <1>5, <1>6, Shapes
<1>9. \A l \in Node, y \in Name : \A V :
        OneOf(sets[l][y], V, l) /\ (pc[c] = "loading" /\ y = call[c].name => call[c].set \in V)
          => OneOf(sets'[l][y], V, l)
  <2> TAKE l \in Node, y \in Name
  <2> TAKE V
  <2> SUFFICES ASSUME OneOf(sets[l][y], V, l), pc[c] = "loading" /\ y = call[c].name => call[c].set \in V
               PROVE  OneOf(sets'[l][y], V, l)
    OBVIOUS
  <2>1. CASE pc[c] = "loading" /\ l = k /\ y = call[c].name
    BY <1>8, <2>1 DEF OneOf, Sliced
  <2>2. CASE ~(pc[c] = "loading" /\ l = k /\ y = call[c].name)
    BY <1>8, <2>2
  <2> QED
    BY <2>1, <2>2
<1>10. ASSUME NEW d \in Client
       PROVE  /\ pc[d] = "loading" => \A l \in Node :
                   OneOf(sets[l][call[d].name], since[d], l) => OneOf(sets'[l][call[d].name], since[d], l)
              /\ pc[d] = "gathering" /\ Sees(d) => \A l \in Node, y \in Operands(call[d]) :
                   OneOf(sets[l][y], seen[d][y], l) => OneOf(sets'[l][y], seen[d][y], l)
  <2>1. ASSUME pc[d] = "loading"
        PROVE  \A l \in Node : OneOf(sets[l][call[d].name], since[d], l)
                                 => OneOf(sets'[l][call[d].name], since[d], l)
    <3>1. pc[c] = "loading" /\ call[d].name = call[c].name => call[c].set \in since[d]
      BY <2>1 DEF AInv, Good, Loads, Loading
    <3> QED
      BY <1>9, <2>1, <3>1, Busy
  <2>2. ASSUME pc[d] = "gathering", Sees(d)
        PROVE  \A l \in Node, y \in Operands(call[d]) :
                   OneOf(sets[l][y], seen[d][y], l) => OneOf(sets'[l][y], seen[d][y], l)
    <3>1. pc[c] = "loading" /\ call[c].name \in Operands(call[d]) => call[c].set \in seen[d][call[c].name]
      BY <2>2 DEF AInv, Good, Gathers
    <3>2. Operands(call[d]) \subseteq Name
      BY <2>2, Busy DEF Operands
    <3> QED
      BY <1>9, <3>1, <3>2
  <2> QED
    BY <2>1, <2>2
<1>11. ASSUME NEW d \in Client, d # c PROVE Good(d)'
  <2>1. /\ UNCHANGED <<tasks[d], inbox[d], outbox[d], link[d], results[d], call[d], pc[d],
                       out[d], todo[d], since[d], seen[d]>>
        /\ Good(d)
    BY <1>1, <1>11, Shapes DEF AInv
  <2>2. pc[d] = "loading" =>
          /\ call[d].set \in value'[call[d].name]
          /\ \A e \in Client : Loading(e, call[d].name)' => call'[e].set \in since'[d]
    BY <1>1, <2>1 DEF Good, Loads, Loading
  <2>3. pc[d] = "gathering" /\ Sees(d) =>
          \A e \in Client : pc'[e] = "loading" /\ call'[e].name \in Operands(call[d]) =>
               call'[e].set \in seen'[d][call'[e].name]
    BY <1>1, <2>1 DEF Good, Gathers
  <2> QED
    BY <1>10, <2>1, <2>2, <2>3, ClientKept
<1>12. ASSUME NEW l \in Node, NEW v, IsAnswer(c, l, v) PROVE IsAnswer(c, l, v)'
  BY <1>1, <1>5, <1>10, <1>12, AnswerKept
<1>13. IsAnswer(c, k, m)'
  <2>1. CASE pc[c] = "loading"
    <3>1. call[c].set \in since[c] /\ sets'[k][call[c].name] = Slice(call[c].set, k)
      BY <1>5, <1>8, <2>1 DEF AInv, Good, Loads, Loading
    <3> QED
      BY <1>1, <1>5, <2>1, <3>1 DEF IsAnswer, OneOf, Sliced
  <2>2. CASE pc[c] = "gathering"
    <3>1. sets' = sets /\ r.op \in {"stored", "query"} /\ Gathers(c)
      BY <1>1, <1>5, <1>6, <2>2 DEF AInv, Good
    <3> SUFFICES ASSUME Sees(c)
                 PROVE  \E f \in seen[c][call[c].name], g \in Against(call[c], seen[c]) :
                          m = Cardinality(Shared(f, g, k))
      BY <1>1, <1>5, <2>2 DEF IsAnswer, Sees
    <3>2. PICK f \in seen[c][call[c].name] : Sliced(sets[k][call[c].name], f, k)
      BY <1>1, <2>2, <3>1 DEF Gathers, Operands, OneOf
    <3>3. CASE call[c].op = "stored"
      <4>1. PICK g \in seen[c][call[c].with] : Sliced(sets[k][call[c].with], g, k)
        BY <1>1, <2>2, <3>1, <3>3 DEF Gathers, Operands, OneOf
      <4>2. f \in Global /\ g \in Global
        BY <1>5, Shapes
      <4>3. m = AndCount(sets[k][call[c].name], sets[k][call[c].with])
        BY <1>6, <1>20, <3>3 DEF Count
      <4>4. m = Cardinality(Shared(f, g, k))
        BY <3>2, <4>1, <4>2, <4>3, CountOfVersions
      <4> QED
        BY <3>3, <4>4 DEF Against
    <3>4. CASE call[c].op = "query"
      <4> DEFINE g == call[c].set
      <4>1. Sliced(r.words, g, k)
        BY <1>6, <3>4 DEF Sliced
      <4>2. f \in Global /\ g \in Global
        BY <1>5, Shapes
      <4>3. m = AndCount(sets[k][call[c].name], r.words)
        BY <1>6, <1>20, <3>4 DEF Count
      <4>4. m = Cardinality(Shared(f, g, k))
        BY <3>2, <4>1, <4>2, <4>3, CountOfVersions
      <4> QED
        BY <3>4, <4>4 DEF Against
    <3> QED
      BY <1>6, <3>1, <3>3, <3>4
  <2> QED
    BY <1>5, <2>1, <2>2
<1>14. /\ inbox'[c][k] = <<>> /\ outbox'[c][k] = Reply(m)
       /\ \A l \in Node \ {k} : inbox'[c][l] = inbox[c][l] /\ outbox'[c][l] = outbox[c][l]
  <2>1. outbox[c][k] \o Reply(Count(k, r)) = Reply(m)
    BY <1>3, <1>20 DEF Reply
  <2> QED
    BY <1>1, <1>4, <2>1, Shapes
<1>15. Answering(c, k, t.got \o Reply(m), 1)'
  <2>1. Reply(m) \in Seq(Bytes) /\ Len(Reply(m)) = 12 /\ SubSeq(Reply(m), 1, 12) = Reply(m)
    BY ReplyParts
  <2>2. Prefix(Reply(m), SubSeq(Reply(m), 1, 12))
    BY <2>1 DEF Prefix
  <2>3. t.got \o Reply(m) = Reply(m)
    BY <1>3, <2>1, ConcatEmptySeq
  <2> QED
    BY <1>13, <2>2, <2>3 DEF Answering
<1>16. Talks(c)'
  <2>1. Exchange(c, t)'
    BY <1>1, <1>2, <1>3, <1>14, <1>15 DEF Exchange, Request
  <2>2. ASSUME NEW u \in tasks[c], u # t PROVE Exchange(c, u)'
    <3>1. u.node \in Node \ {k} /\ Exchange(c, u)
      BY <1>2, <2>2, Shapes DEF AInv, RInv, Readers, Good, Talks, Goroutine
    <3> DEFINE l == u.node
               o == u.got \o outbox[c][l]
    <3>2. \A from : Answering(c, l, o, from) => Answering(c, l, o, from)'
      BY <1>12, <1>14, <3>1 DEF Answering
    <3>3. u.msg = Request(c, l)'
      BY <1>1, <3>1 DEF Exchange, Request
    <3> QED
      BY <1>1, <1>14, <3>1, <3>2, <3>3 DEF Exchange
  <2>3. ASSUME NEW l \in Node, \A u \in tasks[c] : u.node # l
        PROVE  inbox'[c][l] = <<>> /\ outbox'[c][l] = <<>>
    BY <1>2, <1>14, <2>3 DEF AInv, Good, Talks
  <2>4. ASSUME NEW q \in 1..Len(results[c])
        PROVE  /\ \A u \in tasks[c] : u.node # results[c][q].node
               /\ results[c][q].ok => IsAnswer(c, results[c][q].node, results[c][q].count)'
    <3>1. results[c][q].node \in Node
      <4>1. results[c][q] \in Result
        BY Shapes, ElementOfSeq
      <4> QED
        BY <4>1 DEF Result
    <3> QED
      BY <1>1, <1>5, <1>12, <3>1 DEF AInv, Good, Talks
  <2> QED
    BY <1>1, <2>1, <2>2, <2>3, <2>4 DEF Talks
<1>17. Good(c)'
  <2>1. Loads(c)'
    <3> SUFFICES ASSUME pc[c] = "loading" PROVE Loads(c)'
      BY <1>1 DEF Loads
    <3>1. Loads(c) /\ call[c].name \in Name
      BY <1>5 DEF AInv, Good
    <3> QED
      BY <1>1, <1>10, <3>1 DEF Loads, Loading
  <2>2. Gathers(c)'
    <3> SUFFICES ASSUME pc[c] = "gathering" PROVE Gathers(c)'
      BY <1>1 DEF Gathers
    <3>1. Gathers(c) /\ sets' = sets
      BY <1>1, <1>5, <1>6 DEF AInv, Good
    <3>2. \A l \in Node : link[c][l] = "broken" => outbox'[c][l] = outbox[c][l]
      BY <1>1, <1>14
    <3> QED
      BY <1>1, <3>1, <3>2 DEF Gathers, Sees
  <2> QED
    BY <1>1, <1>5, <1>16, <2>1, <2>2 DEF Good, Exact
<1>18. Stores'
  <2> SUFFICES ASSUME NEW l \in Node, NEW y \in Name PROVE OneOf(sets'[l][y], value[y], l)
    BY <1>1 DEF Stores
  <2>1. OneOf(sets[l][y], value[y], l)
    BY DEF AInv, Stores
  <2>2. pc[c] = "loading" => call[c].set \in value[call[c].name]
    BY DEF AInv, Good, Loads
  <2> QED
    BY <1>9, <2>1, <2>2
<1> QED
  BY <1>11, <1>17, <1>18 DEF AInv

\* A node that dies stores the empty version of every name, which a load in progress
\* reckons with, and answers nobody any more.
LEMMA DeathAnswers ==
  ASSUME AInv, RInv', Views', NEW k \in Node, NodeDies(k)
  PROVE  AInv'
<1>1. /\ sets' = [sets EXCEPT ![k] = [y \in Name |-> <<>>]]
      /\ link' = [c \in Client |-> [link[c] EXCEPT ![k] = IF @ = "open" THEN "broken" ELSE @]]
      /\ inbox' = [c \in Client |-> [inbox[c] EXCEPT ![k] = <<>>]]
      /\ value' = [y \in Name |-> value[y] \cup {Empty}]
      /\ since' = [c \in Client |-> IF pc[c] = "loading" THEN since[c] \cup {Empty} ELSE {}]
      /\ UNCHANGED <<outbox, pc, call, todo, tasks, results, out, seen>>
  BY DEF NodeDies, Crash, callVars
<1>2. \A l \in Node, y \in Name : sets'[l][y] = IF l = k THEN <<>> ELSE sets[l][y]
  BY <1>1, Shapes
<1>3. \A l \in Node, y \in Name : \A V :
        OneOf(sets[l][y], V, l) => OneOf(sets'[l][y], V \cup {Empty}, l)
  <2> TAKE l \in Node, y \in Name
  <2> TAKE V
  <2> SUFFICES ASSUME OneOf(sets[l][y], V, l) PROVE OneOf(sets'[l][y], V \cup {Empty}, l)
    OBVIOUS
  <2>1. CASE l = k
    BY <1>2, <2>1 DEF OneOf, Sliced
  <2>2. CASE l # k
    BY <1>2, <2>2, Grows
  <2> QED
    BY <2>1, <2>2
<1>4. ASSUME NEW d \in Client PROVE Good(d)'
  <2>1. /\ UNCHANGED <<tasks[d], outbox[d], results[d], call[d], pc[d], out[d], todo[d], seen[d]>>
        /\ Good(d)
    BY <1>1 DEF AInv
  <2>2. ASSUME NEW l \in Node
        PROVE  \/ inbox'[d][l] = inbox[d][l] /\ link'[d][l] = link[d][l]
               \/ /\ inbox'[d][l] = <<>> /\ link'[d][l] # "open"
                  /\ link[d][l] = "broken" => link'[d][l] = "broken"
    <3>1. CASE l = k
      BY <1>1, <3>1, Shapes
    <3>2. CASE l # k
      BY <1>1, <3>2, Shapes
    <3> QED
      BY <3>1, <3>2
  <2>3. pc[d] = "loading" =>
          /\ call[d].set \in value'[call[d].name]
          /\ \A e \in Client : Loading(e, call[d].name)' => call'[e].set \in since'[d]
          /\ \A l \in Node : OneOf(sets[l][call[d].name], since[d], l) =>
                               OneOf(sets'[l][call[d].name], since'[d], l)
    <3> SUFFICES ASSUME pc[d] = "loading"
                 PROVE  /\ call[d].set \in value'[call[d].name]
                        /\ \A e \in Client : Loading(e, call[d].name)' => call'[e].set \in since'[d]
                        /\ \A l \in Node : OneOf(sets[l][call[d].name], since[d], l) =>
                              OneOf(sets'[l][call[d].name], since'[d], l)
      OBVIOUS
    <3>1. Loads(d) /\ call[d].name \in Name /\ since'[d] = since[d] \cup {Empty}
      BY <1>1, <2>1, Busy DEF Good
    <3>2. call[d].set \in value'[call[d].name]
      BY <1>1, <3>1 DEF Loads
    <3>3. \A e \in Client : Loading(e, call[d].name)' => call'[e].set \in since'[d]
      BY <1>1, <3>1 DEF Loads, Loading
    <3>4. \A l \in Node : OneOf(sets[l][call[d].name], since[d], l) =>
                           OneOf(sets'[l][call[d].name], since'[d], l)
      BY <1>3, <3>1
    <3> QED
      BY <3>2, <3>3, <3>4
  <2>4. pc[d] = "gathering" /\ Sees(d) =>
          /\ \A l \in Node, y \in Operands(call[d]) :
               link[d][l] = "open" /\ link'[d][l] = "open" /\ OneOf(sets[l][y], seen[d][y], l)
                 => OneOf(sets'[l][y], seen'[d][y], l)
          /\ \A e \in Client : pc'[e] = "loading" /\ call'[e].name \in Operands(call[d]) =>
               call'[e].set \in seen'[d][call'[e].name]
    <3> SUFFICES ASSUME pc[d] = "gathering", Sees(d)
                 PROVE  /\ \A l \in Node, y \in Operands(call[d]) :
                             link[d][l] = "open" /\ link'[d][l] = "open" /\ OneOf(sets[l][y], seen[d][y], l)
                               => OneOf(sets'[l][y], seen'[d][y], l)
                        /\ \A e \in Client : pc'[e] = "loading" /\ call'[e].name \in Operands(call[d]) =>
                              call'[e].set \in seen'[d][call'[e].name]
      OBVIOUS
    <3>1. Gathers(d) /\ Operands(call[d]) \subseteq Name
      BY <2>1, Busy DEF Good, Operands
    <3>2. \A l \in Node : link'[d][l] = "open" => l # k
      BY <1>1, Shapes
    <3> QED
      BY <1>1, <1>2, <3>1, <3>2 DEF Gathers
  <2> QED
    BY <1>1, <2>1, <2>2, <2>3, <2>4, ClientKept
<1>5. Stores'
  <2> SUFFICES ASSUME NEW l \in Node, NEW y \in Name PROVE OneOf(sets'[l][y], value'[y], l)
    BY DEF Stores
  <2>1. OneOf(sets[l][y], value[y], l)
    BY DEF AInv, Stores
  <2> QED
    BY <1>1, <1>3, <2>1
<1> QED
  BY <1>4, <1>5 DEF AInv

\* The rest of a reply on a broken connection is a prefix of it still.
LEMMA LoseAnswers ==
  ASSUME AInv, RInv', Views', NEW c \in Client, NEW k \in Node, Lose(c, k),
         UNCHANGED <<pc, callVars, todo, tasks, results, out, historyVars>>
  PROVE  AInv'
<1> DEFINE o == outbox[c][k]
           left == IF Len(o) > Piece THEN Len(o) - Piece ELSE 0
<1>1. /\ link[c][k] = "broken" /\ o # <<>>
      /\ outbox' = [outbox EXCEPT ![c][k] = SubSeq(o, 1, left)]
      /\ UNCHANGED <<sets, link, inbox, pc, call, todo, tasks, results, out, value, since, seen>>
  BY DEF Lose, callVars, historyVars
<1>2. o \in Seq(Bytes)
  BY Shapes
<1>10. PICK w : w = SubSeq(o, 1, left)
  OBVIOUS
<1> HIDE DEF o
<1>3. /\ w \in Seq(Bytes) /\ Len(w) \in Nat /\ Len(w) <= Len(o) /\ Len(o) \in Nat
      /\ \A q \in 1..Len(w) : w[q] = o[q]
  <2>1. left \in Nat /\ left <= Len(o)
    BY <1>2, NodeAssumption
  <2> HIDE DEF left
  <2> QED
    BY <1>2, <1>10, <2>1
<1>4. \A g, s \in Seq(Bytes) : Prefix(g \o o, s) => Prefix(g \o w, s)
  <2> TAKE g, s \in Seq(Bytes)
  <2> SUFFICES ASSUME Prefix(g \o o, s) PROVE Prefix(g \o w, s)
    OBVIOUS
  <2>1. /\ Len(g \o o) = Len(g) + Len(o) /\ Len(g \o w) = Len(g) + Len(w)
        /\ Len(s) \in Nat /\ Len(g) \in Nat
    BY <1>2, <1>3
  <2>2. \A q \in 1..Len(g \o w) : (g \o w)[q] = (g \o o)[q] /\ q \in 1..Len(g \o o)
    BY <1>2, <1>3
  <2>3. Len(g \o w) <= Len(s)
    BY <1>3, <2>1 DEF Prefix
  <2> QED
    BY <2>2, <2>3 DEF Prefix
<1>5. /\ outbox'[c][k] = w
      /\ \A l \in Node \ {k} : outbox'[c][l] = outbox[c][l]
      /\ \A d \in Client \ {c} : outbox'[d] = outbox[d]
  BY <1>1, <1>10, Shapes
<1>6. \A l \in Node : \A m : IsAnswer(c, l, m) => IsAnswer(c, l, m)'
  BY <1>1 DEF IsAnswer, Sees
<1>7. ASSUME NEW t \in tasks[c], NEW from \in {1, 5},
             Answering(c, t.node, t.got \o outbox[c][t.node], from)
      PROVE  Answering(c, t.node, t.got \o outbox[c][t.node], from)'
  <2>1. t.node \in Node /\ t.got \in Seq(Bytes)
    BY Shapes DEF Goroutine
  <2>2. \A m \in Nat : SubSeq(Reply(m), from, 12) \in Seq(Bytes)
    BY ReplyParts
  <2>3. CASE t.node = k
    <3>1. t.got \o o # <<>>
      BY <1>1, <1>2, <2>1
    <3>2. PICK m \in Nat : IsAnswer(c, k, m) /\ Prefix(t.got \o o, SubSeq(Reply(m), from, 12))
      BY <1>7, <2>3, <3>1 DEF Answering, o
    <3>3. Prefix(t.got \o w, SubSeq(Reply(m), from, 12)) /\ IsAnswer(c, k, m)'
      BY <1>4, <1>6, <2>1, <2>2, <3>2
    <3> QED
      BY <1>5, <2>3, <3>3 DEF Answering
  <2>4. CASE t.node # k
    BY <1>5, <1>6, <1>7, <2>1, <2>4 DEF Answering
  <2> QED
    BY <2>3, <2>4
<1>8. Talks(c)'
  <2>1. ASSUME NEW t \in tasks[c] PROVE Exchange(c, t)'
    <3>1. Exchange(c, t) /\ t.node \in Node
      BY Shapes DEF AInv, Good, Talks, Goroutine
    <3>2. t.msg = Request(c, t.node)'
      BY <1>1, <3>1 DEF Exchange, Request
    <3>3. outbox[c][t.node] = <<>> => outbox'[c][t.node] = <<>>
      BY <1>1, <1>5, <3>1 DEF o
    <3>4. /\ t.at = "header" => Answering(c, t.node, t.got \o outbox[c][t.node], 1)'
          /\ t.at = "body" => Answering(c, t.node, t.got \o outbox[c][t.node], 5)'
      BY <1>7, <3>1 DEF Exchange
    <3> QED
      BY <1>1, <3>1, <3>2, <3>3, <3>4 DEF Exchange
  <2>2. ASSUME NEW l \in Node, \A u \in tasks[c] : u.node # l
        PROVE  inbox'[c][l] = <<>> /\ outbox'[c][l] = <<>>
    BY <1>1, <1>5, <2>2 DEF AInv, Good, Talks, o
  <2>3. ASSUME NEW q \in 1..Len(results[c])
        PROVE  /\ \A u \in tasks[c] : u.node # results[c][q].node
               /\ pc[c] \in {"loading", "gathering"} /\ results[c][q].ok =>
                    IsAnswer(c, results[c][q].node, results[c][q].count)'
    <3>1. results[c][q].node \in Node
      <4>1. results[c][q] \in Result
        BY Shapes, ElementOfSeq
      <4> QED
        BY <4>1 DEF Result
    <3> QED
      BY <1>1, <1>6, <3>1 DEF AInv, Good, Talks
  <2> QED
    BY <1>1, <2>1, <2>2, <2>3 DEF Talks
<1>9. Good(c)'
  <2>1. Loads(c)'
    BY <1>1 DEF AInv, Good, Loads, Loading
  <2>2. Gathers(c)'
    <3> SUFFICES ASSUME pc[c] = "gathering" PROVE Gathers(c)'
      BY <1>1 DEF Gathers
    <3>1. Gathers(c)
      BY DEF AInv, Good
    <3>2. \A l \in Node : outbox[c][l] = <<>> => outbox'[c][l] = <<>>
      BY <1>1, <1>5 DEF o
    <3> QED
      BY <1>1, <3>1, <3>2 DEF Gathers, Sees
  <2> QED
    BY <1>1, <1>8, <2>1, <2>2 DEF AInv, Good, Exact
<1> QED
  BY <1>1, <1>5, <1>9, OthersKept

LEMMA RestartAnswers ==
  ASSUME AInv, RInv', Views', NEW k \in Node, Restart(k),
         UNCHANGED <<pc, callVars, todo, tasks, results, out, historyVars>>
  PROVE  AInv'
<1>1. UNCHANGED <<sets, link, inbox, outbox, pc, call, todo, tasks, results, out, value, since, seen>>
  BY DEF Restart, callVars, historyVars
<1>2. ASSUME NEW d \in Client PROVE Good(d)'
  <2>1. Good(d)
    BY DEF AInv
  <2>2. pc[d] = "loading" =>
          /\ call[d].set \in value'[call[d].name]
          /\ \A e \in Client : Loading(e, call[d].name)' => call'[e].set \in since'[d]
    BY <1>1, <2>1 DEF Good, Loads, Loading
  <2>3. pc[d] = "gathering" /\ Sees(d) =>
          \A e \in Client : pc'[e] = "loading" /\ call'[e].name \in Operands(call[d]) =>
               call'[e].set \in seen'[d][call'[e].name]
    BY <1>1, <2>1 DEF Good, Gathers
  <2> QED
    BY <1>1, <2>2, <2>3, ClientKept
<1>3. Stores'
  BY <1>1 DEF AInv, Stores
<1> QED
  BY <1>2, <1>3 DEF AInv

\* What goes on at one connection leaves the client's others alone.
LEMMA Elsewhere ==
  ASSUME AInv, NEW c \in Client, NEW k \in Node,
         UNCHANGED <<sets, link, pc, call, since, seen>>,
         \A l \in Node \ {k} : inbox'[c][l] = inbox[c][l] /\ outbox'[c][l] = outbox[c][l]
  PROVE  /\ \A l, m : IsAnswer(c, l, m) => IsAnswer(c, l, m)'
         /\ \A u \in tasks[c] : u.node # k => Exchange(c, u)'
<1>1. \A l, m : IsAnswer(c, l, m) => IsAnswer(c, l, m)'
  BY DEF IsAnswer, Sees
<1>2. ASSUME NEW u \in tasks[c], u.node # k PROVE Exchange(c, u)'
  <2>1. u.node \in Node \ {k} /\ Exchange(c, u)
    BY <1>2, Shapes DEF AInv, Good, Talks, Goroutine
  <2> DEFINE l == u.node
             o == u.got \o outbox[c][l]
  <2>2. \A from : Answering(c, l, o, from) => Answering(c, l, o, from)'
    BY <1>1, <2>1 DEF Answering
  <2>3. u.msg = Request(c, l)'
    BY <2>1 DEF Exchange, Request
  <2> QED
    BY <2>1, <2>2, <2>3 DEF Exchange
<1> QED
  BY <1>1, <1>2

LEMMA AdvanceAnswers ==
  ASSUME AInv, RInv', Views', NEW c \in Client, NEW t \in tasks[c],
         NEW u, u.node = t.node, Exchange(c, u)',
         outbox[c][t.node] = <<>> /\ t.at # "body" /\ t.got = <<>> =>
           outbox'[c][t.node] = <<>> /\ u.at # "body" /\ u.got = <<>>,
         tasks' = [tasks EXCEPT ![c] = (tasks[c] \ {t}) \cup {u}], results' = results,
         \A l \in Node : l # t.node =>
            inbox'[c][l] = inbox[c][l] /\ outbox'[c][l] = outbox[c][l],
         \A d \in Client \ {c} : inbox'[d] = inbox[d] /\ outbox'[d] = outbox[d],
         UNCHANGED <<sets, link, pc, callVars, todo, out, historyVars>>
  PROVE  AInv'
<1>0. PICK k \in Node : k = t.node
  BY Shapes DEF Goroutine
<1>1. UNCHANGED <<sets, link, pc, call, todo, results, out, value, since, seen>>
  BY DEF callVars, historyVars
<1>2. /\ t \in Goroutine /\ u.node = k
      /\ \A v \in tasks[c] : v.node = k => v = t
  BY <1>0, Shapes DEF AInv, RInv, Readers
<1>3. tasks'[c] = (tasks[c] \ {t}) \cup {u}
  BY <1>1, Shapes
<1>4. \A l \in Node \ {k} : inbox'[c][l] = inbox[c][l] /\ outbox'[c][l] = outbox[c][l]
  BY <1>0
<1>5. /\ \A l, m : IsAnswer(c, l, m) => IsAnswer(c, l, m)'
      /\ \A v \in tasks[c] : v.node # k => Exchange(c, v)'
  BY <1>1, <1>4, Elsewhere
<1>6. \A l : (\A v \in tasks[c] : v.node # l) <=> (\A v \in tasks'[c] : v.node # l)
  BY <1>2, <1>3
<1>7. Talks(c)'
  <2>1. \A v \in tasks'[c] : Exchange(c, v)'
    BY <1>2, <1>3, <1>5
  <2>2. ASSUME NEW l \in Node, \A v \in tasks'[c] : v.node # l
        PROVE  inbox'[c][l] = <<>> /\ outbox'[c][l] = <<>>
    <3>1. l # k /\ \A v \in tasks[c] : v.node # l
      BY <1>2, <1>3, <1>6, <2>2
    <3> QED
      BY <1>4, <3>1 DEF AInv, Good, Talks
  <2>3. ASSUME NEW q \in 1..Len(results[c])
        PROVE  /\ \A v \in tasks'[c] : v.node # results[c][q].node
               /\ pc[c] \in {"loading", "gathering"} /\ results[c][q].ok =>
                    IsAnswer(c, results[c][q].node, results[c][q].count)'
    <3>1. PICK l, v : l = results[c][q].node /\ v = results[c][q].count
      OBVIOUS
    <3>2. \A y \in tasks'[c] : y.node # l
      <4>1. \A y \in tasks[c] : y.node # l
        BY <3>1 DEF AInv, Good, Talks
      <4> QED
        BY <1>6, <4>1
    <3>3. pc[c] \in {"loading", "gathering"} /\ results[c][q].ok => IsAnswer(c, l, v)'
      BY <1>5, <3>1 DEF AInv, Good, Talks
    <3> QED
      BY <1>1, <3>1, <3>2, <3>3
  <2> QED
    BY <1>1, <2>1, <2>2, <2>3 DEF Talks
<1>8. Gathers(c)'
  <2> SUFFICES ASSUME pc[c] = "gathering" PROVE Gathers(c)'
    BY <1>1 DEF Gathers
  <2>1. Gathers(c)
    BY DEF AInv, Good
  <2>2. \A l \in Node : (\E v \in tasks[c] : v.node = l) => \E v \in tasks'[c] : v.node = l
    BY <1>6
  <2>3. ASSUME NEW l \in Node, link[c][l] = "broken", outbox[c][l] = <<>>,
               \A v \in tasks[c] : v.node = l => v.at # "body" /\ v.got = <<>>
        PROVE  link'[c][l] = "broken" /\ outbox'[c][l] = <<>>
               /\ \A v \in tasks'[c] : v.node = l => v.at # "body" /\ v.got = <<>>
    <3>1. CASE l = k
      BY <1>0, <1>1, <1>2, <1>3, <2>3, <3>1
    <3>2. CASE l # k
      <4>1. outbox'[c][l] = <<>> /\ link'[c][l] = "broken"
        BY <1>1, <1>4, <2>3, <3>2
      <4>2. \A v \in tasks'[c] : v.node = l => v \in tasks[c]
        BY <1>2, <1>3, <3>2
      <4> QED
        BY <2>3, <4>1, <4>2
    <3> QED
      BY <3>1, <3>2
  <2>4. Sees(c)' <=> Sees(c)
    BY <1>1 DEF Sees
  <2>5. ~Sees(c) => \E l \in Node : /\ link'[c][l] = "broken" /\ outbox'[c][l] = <<>>
                                    /\ \A v \in tasks'[c] : v.node = l => v.at # "body" /\ v.got = <<>>
                                    /\ \A q \in 1..Len(results[c]) :
                                         results[c][q].node = l => ~results[c][q].ok
    BY <2>1, <2>3 DEF Gathers
  <2>6. Sees(c)' =>
         /\ \A l \in Node, y \in Operands(call[c])' :
              link'[c][l] = "open" => OneOf(sets'[l][y], seen'[c][y], l)
         /\ \A d \in Client : pc'[d] = "loading" /\ call'[d].name \in Operands(call[c])' =>
              call'[d].set \in seen'[c][call'[d].name]
    BY <1>1, <2>1, <2>4 DEF Gathers, Operands
  <2>7. /\ call'[c].op \in {"stored", "query"} /\ (~Sees(c)' => seen'[c] = Nothing)
        /\ \A p, q \in 1..Len(results'[c]) : results'[c][p].node = results'[c][q].node => p = q
    BY <1>1, <2>1, <2>4 DEF Gathers
  <2>8. \A l \in Node : \/ \E v \in tasks'[c] : v.node = l
                       \/ \E q \in 1..Len(results'[c]) : results'[c][q].node = l
    BY <1>1, <2>1, <2>2 DEF Gathers
  <2>9. ~Sees(c)' => \E l \in Node : /\ link'[c][l] = "broken" /\ outbox'[c][l] = <<>>
                                     /\ \A v \in tasks'[c] : v.node = l => v.at # "body" /\ v.got = <<>>
                                     /\ \A q \in 1..Len(results'[c]) :
                                          results'[c][q].node = l => ~results'[c][q].ok
    BY <1>1, <2>4, <2>5
  <2> QED
    BY <2>6, <2>7, <2>8, <2>9 DEF Gathers
<1>9. Good(c)'
  <2>1. Loads(c)'
    BY <1>1 DEF AInv, Good, Loads, Loading
  <2> QED
    BY <1>1, <1>7, <1>8, <2>1 DEF AInv, Good, Exact
<1>10. \A d \in Client \ {c} : tasks'[d] = tasks[d] /\ inbox'[d] = inbox[d] /\ outbox'[d] = outbox[d]
  BY <1>1, Shapes
<1> QED
  BY <1>1, <1>9, <1>10, OthersKept

LEMMA DeliverAnswers ==
  ASSUME AInv, RInv', Views', NEW c \in Client, NEW t \in tasks[c],
         NEW k \in Node, k = t.node, NEW ok \in BOOLEAN, NEW m \in Nat,
         Deliver(c, t, ok, m), ok => IsAnswer(c, k, m),
         ok => t.at = "body",
         inbox[c][k] = <<>>, inbox' = inbox, outbox' = [outbox EXCEPT ![c][k] = <<>>],
         UNCHANGED <<sets, link, pc, callVars, todo, out, historyVars>>
  PROVE  AInv'
<1> DEFINE r == [node |-> k, ok |-> ok, count |-> m]
           rs == results'[c]
<1>1. /\ tasks' = [tasks EXCEPT ![c] = tasks[c] \ {t}]
      /\ t.serial = serial[c] /\ pc[c] \in {"loading", "gathering"}
      /\ results' = [results EXCEPT ![c] = Append(results[c], r)]
      /\ UNCHANGED <<sets, link, pc, call, todo, out, value, since, seen>>
  <2>1. t.serial = serial[c]
    BY DEF AInv, RInv, Readers
  <2>2. pc[c] \in {"loading", "gathering"}
    BY Busy
  <2> QED
    BY <2>1, <2>2 DEF Deliver, callVars, historyVars
<1>2. /\ tasks'[c] = tasks[c] \ {t} /\ \A v \in tasks'[c] : v.node # k
  BY <1>1, Shapes DEF AInv, RInv, Readers
<1>3. /\ Len(rs) = Len(results[c]) + 1 /\ Len(results[c]) \in Nat
      /\ rs[Len(results[c]) + 1] = r
      /\ \A q \in 1..Len(results[c]) : rs[q] = results[c][q]
  <2> HIDE DEF r
  <2>1. rs = Append(results[c], r) /\ results[c] \in Seq(Result)
    BY <1>1, Shapes
  <2> HIDE DEF rs
  <2> QED
    BY <2>1
<1>4. \A q \in 1..Len(rs) : \/ q \in 1..Len(results[c]) /\ rs[q] = results[c][q]
                            \/ q = Len(results[c]) + 1 /\ rs[q] = r
  <2> HIDE DEF r, rs
  <2> QED
    BY <1>3
<1>5. r.node = k /\ r.ok = ok /\ r.count = m
  OBVIOUS
<1> HIDE DEF r, rs
<1>6. /\ outbox'[c][k] = <<>>
      /\ \A l \in Node \ {k} : inbox'[c][l] = inbox[c][l] /\ outbox'[c][l] = outbox[c][l]
  BY Shapes
<1>7. /\ \A l, v : IsAnswer(c, l, v) => IsAnswer(c, l, v)'
      /\ \A v \in tasks[c] : v.node # k => Exchange(c, v)'
  BY <1>1, <1>6, Elsewhere
<1>8. \A q \in 1..Len(results[c]) : results[c][q].node # k
  BY DEF AInv, Good, Talks
<1>9. Talks(c)'
  <2>1. \A v \in tasks'[c] : Exchange(c, v)'
    BY <1>2, <1>7
  <2>2. ASSUME NEW l \in Node, \A v \in tasks'[c] : v.node # l
        PROVE  inbox'[c][l] = <<>> /\ outbox'[c][l] = <<>>
    <3>1. CASE l = k
      BY <1>6, <3>1
    <3>2. CASE l # k
      <4>1. \A v \in tasks[c] : v.node # l
        BY <1>2, <2>2, <3>2
      <4> QED
        BY <1>6, <3>2, <4>1 DEF AInv, Good, Talks
    <3> QED
      BY <3>1, <3>2
  <2>3. ASSUME NEW q \in 1..Len(rs)
        PROVE  /\ \A v \in tasks'[c] : v.node # rs[q].node
               /\ rs[q].ok => IsAnswer(c, rs[q].node, rs[q].count)
    <3>1. CASE q \in 1..Len(results[c]) /\ rs[q] = results[c][q]
      BY <1>1, <1>2, <3>1 DEF AInv, Good, Talks
    <3>2. CASE rs[q] = r
      BY <1>2, <1>5, <3>2
    <3> QED
      BY <1>4, <3>1, <3>2
  <2>4. ASSUME NEW q \in 1..Len(rs), rs[q].ok
        PROVE  IsAnswer(c, results[c][q].node, results[c][q].count)'
    <3>1. PICK l, v : l = rs[q].node /\ v = rs[q].count
      OBVIOUS
    <3>2. IsAnswer(c, l, v)'
      BY <1>7, <2>3, <2>4, <3>1
    <3> QED
      BY <3>1, <3>2 DEF rs
  <2> QED
    BY <2>1, <2>2, <2>3, <2>4 DEF Talks, rs
<1>10. Gathers(c)'
  <2> SUFFICES ASSUME pc[c] = "gathering" PROVE Gathers(c)'
    BY <1>1 DEF Gathers
  <2>1. Gathers(c)
    BY DEF AInv, Good
  <2>2. ASSUME NEW l \in Node
        PROVE  (\E v \in tasks'[c] : v.node = l) \/ \E q \in 1..Len(rs) : rs[q].node = l
    <3>1. CASE l = k
      BY <1>3, <1>5, <3>1
    <3>2. CASE \E v \in tasks[c] : v.node = l /\ l # k
      BY <1>2, <3>2
    <3>3. CASE \E q \in 1..Len(results[c]) : results[c][q].node = l
      BY <1>3, <3>3
    <3> QED
      BY <2>1, <3>1, <3>2, <3>3 DEF Gathers
  <2>3. \A p, q \in 1..Len(rs) : rs[p].node = rs[q].node => p = q
    BY <1>4, <1>5, <1>8, <2>1, SMTT(30) DEF Gathers
  <2>4. Sees(c)' <=> Sees(c)
    BY <1>1 DEF Sees
  <2>5. ~Sees(c) => \E l \in Node : /\ link'[c][l] = "broken" /\ outbox'[c][l] = <<>>
                                    /\ \A v \in tasks'[c] : v.node = l => v.at # "body" /\ v.got = <<>>
                                    /\ \A q \in 1..Len(rs) : rs[q].node = l => ~rs[q].ok
    <3> SUFFICES ASSUME ~Sees(c)
                 PROVE  \E l \in Node : /\ link'[c][l] = "broken" /\ outbox'[c][l] = <<>>
                                        /\ \A v \in tasks'[c] : v.node = l => v.at # "body" /\ v.got = <<>>
                                        /\ \A q \in 1..Len(rs) : rs[q].node = l => ~rs[q].ok
      OBVIOUS
    <3>1. PICK l \in Node : /\ link[c][l] = "broken" /\ outbox[c][l] = <<>>
                            /\ \A v \in tasks[c] : v.node = l => v.at # "body" /\ v.got = <<>>
                            /\ \A q \in 1..Len(results[c]) :
                                 results[c][q].node = l => ~results[c][q].ok
      BY <2>1 DEF Gathers
    <3>2. link'[c][l] = "broken" /\ outbox'[c][l] = <<>>
      BY <1>1, <1>6, <3>1
    <3>3. \A v \in tasks'[c] : v.node = l => v.at # "body" /\ v.got = <<>>
      BY <1>2, <3>1
    <3>4. \A q \in 1..Len(rs) : rs[q].node = l => ~rs[q].ok
      BY <1>4, <1>5, <3>1
    <3> QED
      BY <3>2, <3>3, <3>4
  <2>6. Sees(c)' =>
         /\ \A l \in Node, y \in Operands(call[c])' :
              link'[c][l] = "open" => OneOf(sets'[l][y], seen'[c][y], l)
         /\ \A d \in Client : pc'[d] = "loading" /\ call'[d].name \in Operands(call[c])' =>
              call'[d].set \in seen'[c][call'[d].name]
    BY <1>1, <2>1, <2>4 DEF Gathers, Operands
  <2>7. call'[c].op \in {"stored", "query"} /\ (~Sees(c)' => seen'[c] = Nothing)
    BY <1>1, <2>1, <2>4 DEF Gathers
  <2>8. results'[c] = rs
    BY DEF rs
  <2> QED
    BY <2>2, <2>3, <2>4, <2>5, <2>6, <2>7, <2>8 DEF Gathers
<1>11. Good(c)'
  <2>1. Loads(c)'
    BY <1>1 DEF AInv, Good, Loads, Loading
  <2> QED
    BY <1>1, <1>9, <1>10, <2>1 DEF AInv, Good, Exact
<1>12. \A d \in Client \ {c} : tasks'[d] = tasks[d] /\ results'[d] = results[d]
                               /\ inbox'[d] = inbox[d] /\ outbox'[d] = outbox[d]
  BY <1>1, Shapes
<1> QED
  BY <1>1, <1>11, <1>12, OthersKept

\* Concatenation of bytes.
LEMMA ConcatBytes ==
  ASSUME NEW x \in Seq(Bytes), NEW y \in Seq(Bytes), NEW z \in Seq(Bytes)
  PROVE  (x \o y) \o z = x \o (y \o z)
BY ConcatAssociative

\* What a Read leaves of the bytes of a connection.
Rest(c, t) ==
  LET all == outbox[c][t.node]
  IN  SubSeq(all, Len(Arrived(c, t)) + 1, Len(all))

\* A Read splits the bytes of a connection, and loses none of them.
LEMMA ReadSplits ==
  ASSUME NEW c \in Client, NEW t \in Goroutine, outbox[c][t.node] \in Seq(Bytes)
  PROVE  /\ t.got \in Seq(Bytes) /\ Arrived(c, t) \in Seq(Bytes) /\ Rest(c, t) \in Seq(Bytes)
         /\ (t.got \o Arrived(c, t)) \o Rest(c, t) = t.got \o outbox[c][t.node]
         /\ outbox[c][t.node] = <<>> => Arrived(c, t) = <<>> /\ Rest(c, t) = <<>>
         /\ Arrived(c, t) = <<>> /\ Missing(t) > 0 => outbox[c][t.node] = <<>>
<1> DEFINE m == Missing(t)
<1>0. PICK o, a, w, g : o = outbox[c][t.node] /\ a = Arrived(c, t) /\ w = Rest(c, t) /\ g = t.got
  OBVIOUS
<1>1. m \in Nat /\ g \in Seq(Bytes) /\ o \in Seq(Bytes) /\ Len(o) \in Nat
  BY <1>0, MaxMsgType DEF Missing, Goroutine
<1>2. a = IF Len(o) < m THEN o ELSE SubSeq(o, 1, m)
  BY <1>0 DEF Arrived
<1>6. w = SubSeq(o, Len(a) + 1, Len(o))
  BY <1>0 DEF Rest
<1> HIDE DEF m
<1>3. a \in Seq(Bytes) /\ w \in Seq(Bytes) /\ a \o w = o /\ (a = <<>> /\ m > 0 => o = <<>>)
  <2>1. CASE Len(o) < m
    <3>1. a = o /\ w = <<>>
      BY <1>1, <1>2, <1>6, <2>1, SubSeqEmpty
    <3>2. o \o <<>> = o
      BY <1>1, ConcatEmptySeq
    <3> QED
      BY <1>1, <3>1, <3>2
  <2>2. CASE Len(o) >= m
    <3>1. a = SubSeq(o, 1, m)
      BY <1>1, <1>2, <2>2
    <3>2. \A q \in 1..m : o[q] \in Bytes
      BY <1>1, <2>2, ElementOfSeq
    <3>3. a \in Seq(Bytes) /\ Len(a) = IF 1 <= m THEN m - 1 + 1 ELSE 0
      BY <1>1, <3>1, <3>2, SubSeqProperties
    <3>10. Len(a) = m
      BY <1>1, <3>3
    <3>4. Len(a) = m /\ w = SubSeq(o, m + 1, Len(o))
      BY <1>6, <3>10, Zenon
    <3>5. \A q \in m + 1..Len(o) : o[q] \in Bytes
      BY <1>1, <2>2, ElementOfSeq
    <3>6. w \in Seq(Bytes)
      BY <1>1, <3>4, <3>5, SubSeqProperties
    <3>7. 1 \in 1..Len(o) + 1 /\ m \in 1 - 1..Len(o) /\ Len(o) \in m..Len(o)
      BY <1>1, <2>2
    <3>8. a \o w = SubSeq(o, 1, Len(o))
      BY <1>1, <3>1, <3>4, <3>7, ConcatAdjacentSubSeq
    <3>9. a = <<>> => m = 0
      BY <1>1, <3>3
    <3>11. SubSeq(o, 1, Len(o)) = o
      BY <1>1, SubSeqFull
    <3>12. ~(a = <<>> /\ m > 0)
      BY <1>1, <3>9
    <3> QED
      BY <3>3, <3>6, <3>8, <3>11, <3>12, Zenon
  <2>3. Len(o) < m \/ Len(o) >= m
    BY <1>1
  <2> QED
    BY <2>1, <2>2, <2>3, Zenon
<1>4. o = <<>> => a = <<>> /\ w = <<>>
  BY <1>3, ConcatEqualIffEmpty
<1>5. (g \o a) \o w = g \o (a \o w)
  <2>1. g \in Seq(Bytes) /\ a \in Seq(Bytes) /\ w \in Seq(Bytes)
    BY <1>1, <1>3
  <2> QED
    BY <2>1, ConcatBytes, SMT
<1>7. (g \o a) \o w = g \o o
  BY <1>3, <1>5, Zenon
<1> QED
  BY <1>0, <1>1, <1>3, <1>4, <1>7, Zenon DEF m

\* What comes first of a part of a sequence, and what comes after it.
LEMMA PrefixSplits ==
  ASSUME NEW x \in Seq(Bytes), NEW y \in Seq(Bytes), NEW s \in Seq(Bytes), Prefix(x \o y, s)
  PROVE  /\ \A q \in 1..Len(x) : q \in 1..Len(s) /\ x[q] = s[q]
         /\ \A q \in 1..Len(y) : Len(x) + q \in 1..Len(s) /\ y[q] = s[Len(x) + q]
         /\ Len(x) + Len(y) <= Len(s) /\ Len(x) \in Nat /\ Len(y) \in Nat
<1>1. /\ Len(x \o y) = Len(x) + Len(y) /\ Len(x) \in Nat /\ Len(y) \in Nat /\ Len(s) \in Nat
      /\ \A q \in 1..Len(x) : (x \o y)[q] = x[q]
      /\ \A q \in 1..Len(y) : (x \o y)[Len(x) + q] = y[q]
  <2>1. Len(x) \in Nat /\ Len(y) \in Nat /\ Len(s) \in Nat
    BY LenProperties
  <2>2. \A q \in 1..Len(y) : Len(x) + q \in 1..Len(x) + Len(y) /\ ~(Len(x) + q <= Len(x))
                              /\ Len(x) + q - Len(x) = q
    BY <2>1
  <2>3. \A q \in 1..Len(x) : q \in 1..Len(x) + Len(y) /\ q <= Len(x)
    BY <2>1
  <2>4. /\ Len(x \o y) = Len(x) + Len(y)
        /\ \A q \in 1..Len(x) + Len(y) :
             (x \o y)[q] = IF q <= Len(x) THEN x[q] ELSE y[q - Len(x)]
    BY ConcatProperties
  <2> QED
    BY <2>1, <2>2, <2>3, <2>4
<1>2. /\ Len(x) + Len(y) <= Len(s)
      /\ \A q \in 1..Len(x) + Len(y) : (x \o y)[q] = s[q] /\ q \in 1..Len(s)
  BY <1>1 DEF Prefix
<1>3. /\ \A q \in 1..Len(y) : Len(x) + q \in 1..Len(x) + Len(y)
      /\ \A q \in 1..Len(x) : q \in 1..Len(x) + Len(y)
  BY <1>1
<1> QED
  BY <1>1, <1>2, <1>3, Zenon

\* A part of a header or body is read.
LEMMA PartAnswers ==
  ASSUME AInv, RInv', Views', NEW c \in Client, NEW t \in tasks[c], ReadPart(c, t)
  PROVE  AInv'
<1>1. PICK k \in Node : k = t.node
  BY Shapes DEF Goroutine
<1>0. PICK a, w : a = Arrived(c, t) /\ w = Rest(c, t)
  OBVIOUS
<1>2. PICK u : u = [t EXCEPT !.at = t.at, !.len = t.len, !.got = t.got \o a]
  OBVIOUS
<1>3. /\ t.at \in {"header", "body"} /\ a # <<>>
      /\ tasks' = [tasks EXCEPT ![c] = (tasks[c] \ {t}) \cup {u}] /\ results' = results
      /\ outbox' = [outbox EXCEPT ![c][k] = w]
      /\ UNCHANGED <<sets, link, inbox, pc, callVars, todo, out, historyVars>>
  BY <1>0, <1>1, <1>2 DEF ReadPart, Read, Rest, Advance
<1>4. /\ t \in Goroutine /\ outbox[c][k] \in Seq(Bytes) /\ u.node = k /\ u.msg = t.msg
      /\ u.at = t.at /\ u.len = t.len /\ u.got = t.got \o a
  BY <1>1, <1>2, Shapes DEF Goroutine
<1>5. /\ outbox[c][k] # <<>>
      /\ u.got \o w = t.got \o outbox[c][k]
  <2>1. (t.got \o a) \o w = t.got \o outbox[c][k] /\ (outbox[c][k] = <<>> => a = <<>>)
    BY <1>0, <1>1, <1>4, ReadSplits, Zenon
  <2> QED
    BY <1>3, <1>4, <2>1, Zenon
<1>6. outbox'[c][k] = w
  BY <1>3, Shapes
<1>7. Exchange(c, u)'
  <2>2. \A m : IsAnswer(c, k, m) => IsAnswer(c, k, m)'
    BY <1>3 DEF IsAnswer, Sees, callVars, historyVars
  <2>3. /\ u.at = "header" => u.len = 4 /\ Answering(c, k, t.got \o outbox[c][k], 1)
        /\ u.at = "body" => u.len = 8 /\ Answering(c, k, t.got \o outbox[c][k], 5)
        /\ inbox[c][k] = <<>>
    BY <1>1, <1>4, <1>5, Talking
  <2>4. /\ u.at = "header" => u.len = 4 /\ Answering(c, k, u.got \o outbox[c][k], 1)'
        /\ u.at = "body" => u.len = 8 /\ Answering(c, k, u.got \o outbox[c][k], 5)'
    BY <1>5, <1>6, <2>2, <2>3 DEF Answering
  <2>5. u.msg = Request(c, k)'
    BY <1>1, <1>3, <1>4, Talking DEF Request, callVars
  <2>6. inbox'[c][k] = <<>> /\ u.at # "write"
    BY <1>3, <1>4, <2>3
  <2> QED
    BY <1>4, <2>4, <2>5, <2>6 DEF Exchange
<1>8. /\ \A l \in Node : l # t.node => inbox'[c][l] = inbox[c][l] /\ outbox'[c][l] = outbox[c][l]
      /\ \A d \in Client \ {c} : inbox'[d] = inbox[d] /\ outbox'[d] = outbox[d]
  BY <1>1, <1>3, Shapes
<1>9. u.node = t.node /\ ~(outbox[c][t.node] = <<>>)
  BY <1>1, <1>4, <1>5
<1> QED
  BY <1>3, <1>7, <1>8, <1>9, AdvanceAnswers

\* The reader of a header finds the length of an eight-byte body first.
LEMMA HeaderAnswers ==
  ASSUME AInv, RInv', Views', NEW c \in Client, NEW t \in tasks[c], ReadHeader(c, t)
  PROVE  AInv'
<1>1. PICK k \in Node : k = t.node
  BY Shapes DEF Goroutine
<1>2. PICK a, w, h : a = Arrived(c, t) /\ w = Rest(c, t) /\ h = t.got \o a
  OBVIOUS
<1>3. /\ t.at = "header" /\ Len(a) = t.len - Len(t.got)
      /\ outbox' = [outbox EXCEPT ![c][k] = w]
      /\ UNCHANGED <<sets, link, inbox, callVars, todo, out, historyVars>>
  BY <1>1, <1>2 DEF ReadHeader, Read, Rest, Missing
<1>4. /\ t \in Goroutine /\ outbox[c][k] \in Seq(Bytes)
      /\ t.len = 4 /\ Answering(c, k, t.got \o outbox[c][k], 1)
  BY <1>1, <1>3, Talking
<1>5. /\ t.got \in Seq(Bytes) /\ a \in Seq(Bytes) /\ w \in Seq(Bytes)
      /\ h \o w = t.got \o outbox[c][k] /\ (outbox[c][k] = <<>> => a = <<>>)
  BY <1>1, <1>2, <1>4, ReadSplits, Zenon
<1>6. h \in Seq(Bytes) /\ Len(h) = 4 /\ h \o w # <<>> /\ (outbox[c][k] = <<>> => t.got # <<>>)
  <2>1. h \in Seq(Bytes) /\ Len(h) = Len(t.got) + Len(a)
    BY <1>2, <1>5, ConcatProperties
  <2>2. Len(t.got) \in Nat /\ Len(a) \in Nat
    BY <1>5, LenProperties
  <2>3. Len(h) = 4
    BY <1>3, <1>4, <2>1, <2>2
  <2>4. h # <<>>
    <3>1. h = <<>> => Len(h) = 0
      OBVIOUS
    <3> QED
      BY <2>3, <3>1
  <2>5. t.got = <<>> /\ a = <<>> => h = <<>>
    BY <1>2, ConcatEqualIffEmpty
  <2>6. h \o w # <<>>
    BY <1>5, <2>1, <2>4, ConcatEqualIffEmpty
  <2> QED
    BY <1>5, <2>1, <2>3, <2>4, <2>5, <2>6
<1>7. PICK m \in Nat : IsAnswer(c, k, m) /\ Prefix(h \o w, Reply(m))
  <2>1. Answering(c, k, h \o w, 1)
    BY <1>4, <1>5, Zenon
  <2>2. PICK m \in Nat : IsAnswer(c, k, m) /\ Prefix(h \o w, SubSeq(Reply(m), 1, 12))
    BY <1>6, <2>1, Zenon DEF Answering
  <2> QED
    BY <2>2, ReplyParts
<1>8. /\ \A q \in 1..4 : h[q] = [at |-> q, count |-> m]
      /\ Len(w) <= 8 /\ Len(w) \in Nat /\ \A q \in 1..Len(w) : w[q] = Reply(m)[q + 4]
  <2>0. PICK R : R = Reply(m)
    OBVIOUS
  <2>1. R \in Seq(Bytes) /\ Len(R) = 12 /\ \A q \in 1..12 : R[q] = [at |-> q, count |-> m]
    BY <2>0, ReplyParts
  <2>2. /\ \A q \in 1..Len(h) : q \in 1..Len(R) /\ h[q] = R[q]
        /\ \A q \in 1..Len(w) : w[q] = R[Len(h) + q]
        /\ Len(h) + Len(w) <= Len(R) /\ Len(w) \in Nat
    <3>1. Prefix(h \o w, R)
      BY <1>7, <2>0
    <3>2. h \in Seq(Bytes) /\ w \in Seq(Bytes) /\ R \in Seq(Bytes)
      BY <1>5, <1>6, <2>1
    <3> QED
      BY <3>1, <3>2, PrefixSplits, SMT
  <2>3. \A q \in 1..Len(w) : w[q] = R[q + 4]
    BY <1>6, <2>2
  <2>4. \A q \in 1..4 : h[q] = [at |-> q, count |-> m]
    BY <1>6, <2>1, <2>2
  <2> QED
    BY <1>6, <2>0, <2>1, <2>2, <2>3, <2>4
<1>9. Length(h) = 8
  <2>1. Byte(h[1]) = 0 /\ Byte(h[2]) = 0 /\ Byte(h[3]) = 0 /\ Byte(h[4]) = 8
    BY <1>8 DEF Byte
  <2> QED
    BY <2>1 DEF Length
<1>10. Prefix(w, SubSeq(Reply(m), 5, 12))
  <2>1. \A q \in 1..Len(w) : q \in 1..8
    BY <1>8
  <2>2. PICK s, R : R = Reply(m) /\ s = SubSeq(R, 5, 12)
    OBVIOUS
  <2>3. Len(s) = 8 /\ \A q \in 1..8 : s[q] = R[q + 4]
    BY <2>2, ReplyParts
  <2>4. Len(w) <= Len(s) /\ \A q \in 1..Len(w) : w[q] = s[q]
    BY <1>8, <2>1, <2>2, <2>3
  <2> QED
    BY <2>2, <2>4 DEF Prefix
<1>11. Advance(c, t, "body", 8, <<>>) /\ pc' = pc
  <2>1. ~(8 > MaxMsg) /\ 8 # 0
    BY MaxMsgType
  <2>2. PICK length : length = Length(t.got \o Arrived(c, t))
    OBVIOUS
  <2>3. \/ length > MaxMsg /\ Deliver(c, t, FALSE, 0) /\ UNCHANGED pc
        \/ length = 0 /\ Finish(c, t, <<>>)
        \/ length \in 1..MaxMsg /\ Advance(c, t, "body", length, <<>>) /\ UNCHANGED pc
    BY <2>2, Zenon DEF ReadHeader
  <2>4. length = 8
    BY <1>2, <1>9, <2>2
  <2> QED
    BY <2>1, <2>3, <2>4
<1>12. PICK u : u = [t EXCEPT !.at = "body", !.len = 8, !.got = <<>>]
  OBVIOUS
<1>13. /\ u.node = k /\ u.msg = t.msg /\ u.at = "body" /\ u.len = 8
       /\ u.got = <<>> /\ u.got \o w = w
  BY <1>1, <1>4, <1>5, <1>12 DEF Goroutine
<1>14. outbox'[c][k] = w /\ inbox'[c][k] = <<>> /\ ~(outbox[c][k] = <<>> /\ t.got = <<>>)
  <2>1. inbox[c][k] = <<>>
    BY <1>1, <1>6, Talking
  <2>2. ~(outbox[c][k] = <<>> /\ t.got = <<>>)
    BY <1>6
  <2> QED
    BY <1>3, <2>1, <2>2, Shapes
<1>15. Exchange(c, u)'
  <2>1. IsAnswer(c, k, m)'
    BY <1>3, <1>7, <1>11 DEF IsAnswer, Sees, callVars, historyVars
  <2>2. Answering(c, k, w, 5)'
    BY <1>10, <2>1 DEF Answering
  <2>3. u.msg = Request(c, k)'
    BY <1>1, <1>3, <1>13, Talking DEF Request, callVars
  <2> QED
    BY <1>13, <1>14, <2>2, <2>3 DEF Exchange
<1>16. tasks' = [tasks EXCEPT ![c] = (tasks[c] \ {t}) \cup {u}] /\ results' = results
  BY <1>11, <1>12 DEF Advance
<1>17. /\ \A l \in Node : l # t.node => inbox'[c][l] = inbox[c][l] /\ outbox'[c][l] = outbox[c][l]
       /\ \A d \in Client \ {c} : inbox'[d] = inbox[d] /\ outbox'[d] = outbox[d]
  BY <1>1, <1>3, Shapes
<1>18. u.node = t.node /\ ~(outbox[c][t.node] = <<>> /\ t.got = <<>>)
  BY <1>1, <1>13, <1>14
<1> QED
  BY <1>3, <1>11, <1>15, <1>16, <1>17, <1>18, AdvanceAnswers

\* The reader of a body finds the count that its node sent.
LEMMA BodyAnswers ==
  ASSUME AInv, RInv', Views', NEW c \in Client, NEW t \in tasks[c], ReadBody(c, t)
  PROVE  AInv'
<1>1. PICK k \in Node : k = t.node
  BY Shapes DEF Goroutine
<1>2. PICK a, w, b : a = Arrived(c, t) /\ w = Rest(c, t) /\ b = t.got \o a
  OBVIOUS
<1>3. /\ t.at = "body" /\ Len(a) = t.len - Len(t.got) /\ Finish(c, t, b)
      /\ outbox' = [outbox EXCEPT ![c][k] = w]
      /\ UNCHANGED <<sets, link, inbox, callVars, todo, out, historyVars>>
  BY <1>1, <1>2 DEF ReadBody, Read, Rest, Missing
<1>4. /\ t \in Goroutine /\ outbox[c][k] \in Seq(Bytes) /\ t.msg = Request(c, k)
      /\ t.len = 8 /\ Answering(c, k, t.got \o outbox[c][k], 5)
  BY <1>1, <1>3, Talking
<1>5. /\ t.got \in Seq(Bytes) /\ a \in Seq(Bytes) /\ w \in Seq(Bytes)
      /\ b \o w = t.got \o outbox[c][k]
  BY <1>1, <1>2, <1>4, ReadSplits, Zenon
<1>6. b \in Seq(Bytes) /\ Len(b) = 8 /\ b \o w # <<>>
  <2>1. b \in Seq(Bytes) /\ Len(b) = Len(t.got) + Len(a)
    BY <1>2, <1>5, ConcatProperties
  <2>2. Len(t.got) \in Nat /\ Len(a) \in Nat
    BY <1>5, LenProperties
  <2>3. Len(b) = 8
    BY <1>3, <1>4, <2>1, <2>2
  <2>4. b # <<>>
    <3>1. b = <<>> => Len(b) = 0
      OBVIOUS
    <3> QED
      BY <2>3, <3>1
  <2>5. b \o w # <<>>
    <3>1. b \in Seq(Bytes) /\ w \in Seq(Bytes)
      BY <1>5, <2>1
    <3>2. b \o w = <<>> => b = <<>>
      BY <3>1, ConcatEqualIffEmpty, SMT
    <3> QED
      BY <2>4, <3>2
  <2> QED
    BY <2>1, <2>3, <2>5
<1>7. PICK m \in Nat : IsAnswer(c, k, m) /\ Prefix(b \o w, SubSeq(Reply(m), 5, 12))
  <2>1. Answering(c, k, b \o w, 5)
    BY <1>4, <1>5, Zenon
  <2> QED
    BY <1>6, <2>1, Zenon DEF Answering
<1>8. b = SubSeq(Reply(m), 5, 12) /\ w = <<>> /\ b[1] = [at |-> 5, count |-> m]
  <2>0. PICK s, R : R = Reply(m) /\ s = SubSeq(R, 5, 12)
    OBVIOUS
  <2>1. /\ s \in Seq(Bytes) /\ Len(s) = 8 /\ \A q \in 1..8 : s[q] = R[q + 4]
        /\ \A q \in 1..12 : R[q] = [at |-> q, count |-> m]
    BY <2>0, ReplyParts
  <2>2. /\ \A q \in 1..Len(b) : b[q] = s[q]
        /\ Len(b) + Len(w) <= Len(s) /\ Len(w) \in Nat
    <3>1. Prefix(b \o w, s)
      BY <1>7, <2>0
    <3>2. b \in Seq(Bytes) /\ w \in Seq(Bytes) /\ s \in Seq(Bytes)
      BY <1>5, <1>6, <2>1
    <3> QED
      BY <3>1, <3>2, PrefixSplits, SMT
  <2>3. b = s
    BY <1>6, <2>1, <2>2, SeqEqual
  <2>4. w = <<>>
    <3>1. Len(w) = 0
      BY <1>6, <2>1, <2>2
    <3> QED
      BY <1>5, <3>1, EmptySeq
  <2>5. 1 \in 1..8 /\ 5 \in 1..12 /\ 1 + 4 = 5
    OBVIOUS
  <2>6. b[1] = [at |-> 5, count |-> m]
    BY <2>1, <2>3, <2>5
  <2> QED
    BY <2>0, <2>3, <2>4, <2>6
<1>9. \E n \in Nat : Deliver(c, t, TRUE, n) /\ IsAnswer(c, k, n) /\ pc' = pc
  <2>1. t.msg.op = call[c].op
    BY <1>4 DEF Request, Message
  <2>2. CASE t.msg.op = "load"
    <3>1. Deliver(c, t, TRUE, 0) /\ pc' = pc
      BY <1>3, <2>2 DEF Finish
    <3>2. IsAnswer(c, k, 0)
      BY <1>7, <2>1, <2>2 DEF IsAnswer
    <3> QED
      BY <3>1, <3>2
  <2>3. CASE t.msg.op # "load"
    <3>1. SubSeq(b, 1, 8) = b
      BY <1>6
    <3>3. PICK s : s = SubSeq(Reply(m), 5, 12)
      OBVIOUS
    <3>4. b = s /\ b[1].count = m /\ ~(Len(b) < 8)
      BY <1>6, <1>8, <3>3
    <3>2. Deliver(c, t, TRUE, m) /\ pc' = pc
      <4>1. \/ /\ Len(b) < 8
               /\ pc' = [pc EXCEPT ![c] = "panicked"]
               /\ tasks' = [tasks EXCEPT ![c] = {}] /\ UNCHANGED results
            \/ /\ \E n \in IF SubSeq(b, 1, 8) = SubSeq(Reply(SubSeq(b, 1, 8)[1].count), 5, 12)
                            THEN {SubSeq(b, 1, 8)[1].count} ELSE Misread :
                     Deliver(c, t, TRUE, n)
               /\ UNCHANGED pc
        BY <1>3, <2>3 DEF Finish
      <4>2. SubSeq(b, 1, 8)[1].count = m /\ SubSeq(b, 1, 8) = SubSeq(Reply(m), 5, 12)
        BY <3>1, <3>3, <3>4, Zenon
      <4>3. PICK n \in {m} : Deliver(c, t, TRUE, n) /\ pc' = pc
        BY <3>4, <4>1, <4>2, Zenon
      <4> QED
        BY <4>3
    <3> QED
      BY <1>7, <3>2
  <2> QED
    BY <2>2, <2>3
<1>10. inbox[c][k] = <<>>
  BY <1>1, <1>3, Talking
<1>11. PICK n \in Nat : Deliver(c, t, TRUE, n) /\ IsAnswer(c, k, n) /\ pc' = pc
  BY <1>9
<1>12. outbox' = [outbox EXCEPT ![c][k] = <<>>] /\ inbox' = inbox
  BY <1>3, <1>8
<1> QED
  BY <1>1, <1>3, <1>10, <1>11, <1>12, DeliverAnswers

\* A connection that ends leaves nothing behind.
LEMMA FailAnswers ==
  ASSUME AInv, RInv', Views', NEW c \in Client, NEW t \in tasks[c], ReadFails(c, t)
  PROVE  AInv'
<1>1. PICK k \in Node : k = t.node
  BY Shapes DEF Goroutine
<1>2. PICK a, w : a = Arrived(c, t) /\ w = Rest(c, t)
  OBVIOUS
<1>3. /\ link[c][k] = "broken" /\ a = <<>> /\ Missing(t) > 0
      /\ Deliver(c, t, FALSE, 0) /\ outbox' = [outbox EXCEPT ![c][k] = w]
      /\ UNCHANGED <<sets, link, inbox, pc, callVars, todo, out, historyVars>>
  BY <1>1, <1>2 DEF ReadFails, Read, Rest
<1>4. t \in Goroutine /\ outbox[c][k] \in Seq(Bytes)
  BY <1>1, Talking
<1>5. w = <<>>
  <2>1. /\ (a = <<>> /\ Missing(t) > 0 => outbox[c][k] = <<>>)
        /\ (outbox[c][k] = <<>> => w = <<>>)
    BY <1>1, <1>2, <1>4, ReadSplits, Zenon
  <2> QED
    BY <1>3, <2>1
<1>6. inbox[c][k] = <<>>
  BY <1>1, <1>3, Talking
<1> QED
  BY <1>1, <1>3, <1>5, <1>6, DeliverAnswers

LEMMA WriteAnswers ==
  ASSUME AInv, RInv', Views', NEW c \in Client, NEW t \in tasks[c], Write(c, t)
  PROVE  AInv'
<1>1. PICK k \in Node : k = t.node
  BY Shapes DEF Goroutine
<1>2. /\ t.at = "write"
      /\ UNCHANGED <<sets, link, outbox, pc, callVars, todo, out, historyVars>>
  BY DEF Write
<1>3. Exchange(c, t) /\ inbox[c][k] = <<>> /\ outbox[c][k] = <<>>
  BY <1>1, <1>2 DEF AInv, Good, Talks, Exchange
<1>4. outbox' = [outbox EXCEPT ![c][k] = <<>>]
  BY <1>2, <1>3, Shapes
<1>5. PICK u : u = [t EXCEPT !.at = "header", !.len = 4, !.got = <<>>]
  OBVIOUS
<1>6. /\ t \in Goroutine /\ u.node = k /\ u.msg = t.msg
      /\ u.at = "header" /\ u.len = 4 /\ u.got = <<>> /\ u.got \o <<>> = <<>>
  BY <1>1, <1>5, Shapes DEF Goroutine
<1>7. u.msg = Request(c, k)'
  BY <1>1, <1>2, <1>3, <1>6 DEF Exchange, Request, callVars
<1>8. outbox'[c][k] = <<>>
  BY <1>2, <1>3
<1>9. CASE link[c][k] = "open" /\ Advance(c, t, "header", 4, <<>>)
           /\ inbox' = [inbox EXCEPT ![c][k] = Append(@, t.msg)]
  <2>0. PICK i : i = <<t.msg>>
    OBVIOUS
  <2>1. inbox' = [inbox EXCEPT ![c][k] = i]
    BY <1>3, <1>9, <2>0
  <2>2. inbox'[c][k] = i /\ link'[c][k] = "open"
    BY <1>2, <1>9, <2>1, Shapes
  <2>3. Exchange(c, u)'
    BY <1>6, <1>7, <1>8, <2>0, <2>2 DEF Exchange, Answering
  <2>4. /\ tasks' = [tasks EXCEPT ![c] = (tasks[c] \ {t}) \cup {u}] /\ results' = results
        /\ \A l \in Node : l # t.node => inbox'[c][l] = inbox[c][l]
        /\ \A d \in Client \ {c} : inbox'[d] = inbox[d]
    BY <1>1, <1>5, <1>9, <2>1, Shapes DEF Advance
  <2> QED
    BY <1>1, <1>2, <1>6, <1>8, <2>3, <2>4, AdvanceAnswers
<1>10. CASE inbox' = inbox /\ Advance(c, t, "header", 4, <<>>)
  <2>1. inbox'[c][k] = <<>> /\ inbox' = [inbox EXCEPT ![c][k] = <<>>]
    BY <1>3, <1>10, Shapes
  <2>2. Exchange(c, u)'
    BY <1>6, <1>7, <1>8, <2>1 DEF Exchange, Answering
  <2>3. tasks' = [tasks EXCEPT ![c] = (tasks[c] \ {t}) \cup {u}] /\ results' = results
    BY <1>5, <1>10 DEF Advance
  <2> QED
    BY <1>1, <1>2, <1>6, <1>8, <1>10, <2>2, <2>3, AdvanceAnswers
<1>11. CASE inbox' = inbox /\ Deliver(c, t, FALSE, 0)
  BY <1>1, <1>2, <1>3, <1>4, <1>11, DeliverAnswers
<1> QED
  BY <1>1, <1>9, <1>10, <1>11 DEF Write

LEMMA RunAnswers ==
  ASSUME AInv, RInv', Views', NEW c \in Client, Run(c)
  PROVE  AInv'
<1>1. PICK t \in tasks[c] :
        Write(c, t) \/ ReadPart(c, t) \/ ReadHeader(c, t) \/ ReadBody(c, t) \/ ReadFails(c, t)
  BY DEF Run
<1> QED
  BY <1>1, PartAnswers, HeaderAnswers, BodyAnswers, FailAnswers, WriteAnswers

LEMMA StepAnswers == AInv /\ [Next]_vars => AInv'
<1> SUFFICES ASSUME AInv, [Next]_vars PROVE AInv'
  OBVIOUS
<1>1. RInv' /\ Views'
  BY StepReaders, StepViews DEF AInv
<1>2. ASSUME NEW c \in Client, Step(c) PROVE AInv'
  BY <1>1, <1>2, LoadNextAnswers, LoadAckAnswers, CollectAnswers, RunAnswers, TakenAnswers DEF Step
<1>3. ASSUME NEW c \in Client, NEW r \in Call, BeginLoad(c, r) \/ Gather(c, r) PROVE AInv'
  BY <1>1, <1>3, BeginLoadAnswers, GatherAnswers
<1>4. CASE Network
  BY <1>1, <1>4, LoseAnswers, RestartAnswers DEF Network
<1>5. CASE UNCHANGED vars
  <2>1. UNCHANGED <<sets, link, inbox, outbox, pc, call, todo, tasks, results, out, value,
                    since, seen>>
    BY <1>5 DEF vars, nodeVars, callVars, historyVars
  <2>2. ASSUME NEW d \in Client PROVE Good(d)'
    <3>1. Good(d)
      BY DEF AInv
    <3>2. pc[d] = "loading" =>
            /\ call[d].set \in value'[call[d].name]
            /\ \A e \in Client : Loading(e, call[d].name)' => call'[e].set \in since'[d]
      BY <2>1, <3>1 DEF Good, Loads, Loading
    <3>3. pc[d] = "gathering" /\ Sees(d) =>
            \A e \in Client : pc'[e] = "loading" /\ call'[e].name \in Operands(call[d]) =>
                 call'[e].set \in seen'[d][call'[e].name]
      BY <2>1, <3>1 DEF Good, Gathers
    <3> QED
      BY <2>1, <3>2, <3>3, ClientKept
  <2>3. Stores'
    BY <2>1 DEF AInv, Stores
  <2> QED
    BY <1>1, <2>2, <2>3 DEF AInv
<1>6. \A k \in Node : ~ServeLate(k)
  BY DEF AInv, Views, ServeLate
<1> QED
  BY <1>1, <1>2, <1>3, <1>4, <1>5, <1>6, DialAnswers, ServeAnswers, DeathAnswers DEF Next

\* A count that a query returns without an error is put together of whole versions,
\* one per node and name, none older than the last load that ended well: whatever
\* loads it overlaps with and whatever nodes die (cluster.go:220-270).
THEOREM AnswersAreExact == Spec => []AnswersExact
<1>1. AInv => AnswersExact
  BY DEF AInv, Good, Exact, AnswersExact
<1> QED
  BY InitAnswers, StepAnswers, <1>1, PTL DEF Spec

\* No goroutine decodes a count from a body of fewer than eight bytes, which would end the client's
\* process (cluster.go:256-258).
THEOREM NoClientPanics == Spec => [](\A c \in Client : pc[c] # "panicked")
<1>1. AInv => \A c \in Client : pc[c] # "panicked"
  BY DEF AInv, Good
<1> QED
  BY InitAnswers, StepAnswers, <1>1, PTL DEF Spec
=============================================================================
