------------------------------ MODULE SetStore ------------------------------
(***************************************************************************)
(* What the HTTP server promises its clients: a store of named sets of ids *)
(* in which every request takes effect at one instant between its arrival  *)
(* and its reply, and is answered with exact set theory on the contents of *)
(* that instant.  How sets are represented, locked and written to disk is  *)
(* not visible here.  A crash loses the contents and the requests in       *)
(* service; what a restart brings back is left open (SetServer states it). *)
(***************************************************************************)
EXTENDS Integers, Sequences, FiniteSets

CONSTANTS
  Name,       \* names of sets
  Id,         \* the ids a set may hold
  Worker,     \* the requests that may be in service at once
  Request,    \* what a client may send: [op, names, val, id]
  NoSet,      \* the name is not in the store
  NoReq,      \* the worker serves no request
  NoReply     \* the worker has given no reply

VARIABLES
  up,         \* the server accepts requests
  store,      \* the set each name holds, or NoSet
  phase,      \* per worker: idle, pending, done (effect taken), replied
  call,       \* per worker: the request in service
  result,     \* per worker: the answer fixed when the request took effect
  out         \* per worker: the reply the client sees

vars == <<up, store, phase, call, result, out>>

Init ==
  /\ up = FALSE
  /\ store = [n \in Name |-> NoSet]
  /\ phase = [w \in Worker |-> "idle"]
  /\ call = [w \in Worker |-> NoReq]
  /\ result = [w \in Worker |-> NoReply]
  /\ out = [w \in Worker |-> NoReply]

Reply(code, count, ids) == [code |-> code, count |-> count, ids |-> ids]

Missing(r) == {n \in {r.names[i] : i \in 1..Len(r.names)} : store[n] = NoSet}

\* The answer r must get when it takes effect on the present store.
Answer(r) ==
  LET n == r.names[1]
      parts == {store[r.names[i]] : i \in 1..Len(r.names)}
      all == {x \in UNION parts : \A p \in parts : x \in p}
      present == {m \in Name : store[m] # NoSet}
  IN  IF r.op = "bad" \/ (r.op \in {"intersect", "union"} /\ Len(r.names) < 2)
        THEN Reply(400, 0, {})
      ELSE IF r.op = "put" THEN Reply(201, Cardinality({r.val[i] : i \in 1..Len(r.val)}), {})
      ELSE IF r.op = "list" THEN Reply(200, Cardinality(present), present)
      ELSE IF Missing(r) # {} THEN Reply(404, 0, {})
      ELSE CASE r.op = "del" -> Reply(200, 0, {})
             [] r.op = "has" -> Reply(200, 0, {r.id} \cap store[n])
             [] r.op = "info" -> Reply(200, Cardinality(store[n]), {})
             [] r.op = "intersect" -> Reply(200, Cardinality(all), all)
             [] r.op = "union" -> Reply(200, Cardinality(UNION parts), UNION parts)

\* The store after r has taken effect.
Effect(r) ==
  CASE r.op = "put" -> [store EXCEPT ![r.names[1]] = {r.val[i] : i \in 1..Len(r.val)}]
    [] r.op = "del" -> [store EXCEPT ![r.names[1]] = NoSet]
    [] OTHER -> store

Invoke(w, r) ==
  /\ up /\ phase[w] = "idle"
  /\ phase' = [phase EXCEPT ![w] = "pending"]
  /\ call' = [call EXCEPT ![w] = r]
  /\ UNCHANGED <<up, store, result, out>>

TakeEffect(w) ==
  /\ phase[w] = "pending"
  /\ result' = [result EXCEPT ![w] = Answer(call[w])]
  /\ store' = Effect(call[w])
  /\ phase' = [phase EXCEPT ![w] = "done"]
  /\ UNCHANGED <<up, call, out>>

Respond(w) ==
  /\ phase[w] = "done"
  /\ out' = [out EXCEPT ![w] = result[w]]
  /\ phase' = [phase EXCEPT ![w] = "replied"]
  /\ result' = [result EXCEPT ![w] = NoReply]
  /\ UNCHANGED <<up, store, call>>

Finish(w) ==
  /\ phase[w] = "replied"
  /\ out' = [out EXCEPT ![w] = NoReply]
  /\ call' = [call EXCEPT ![w] = NoReq]
  /\ phase' = [phase EXCEPT ![w] = "idle"]
  /\ UNCHANGED <<up, store, result>>

Crash ==
  /\ up
  /\ up' = FALSE
  /\ store' = [n \in Name |-> NoSet]
  /\ phase' = [w \in Worker |-> "idle"]
  /\ call' = [w \in Worker |-> NoReq]
  /\ result' = [w \in Worker |-> NoReply]
  /\ out' = [w \in Worker |-> NoReply]

Start ==
  /\ ~up
  /\ up' = TRUE
  /\ store' \in [Name -> (SUBSET Id) \cup {NoSet}]
  /\ UNCHANGED <<phase, call, result, out>>

Next ==
  \/ \E w \in Worker :
       \/ \E r \in Request : Invoke(w, r)
       \/ TakeEffect(w)
       \/ Respond(w)
       \/ Finish(w)
  \/ Crash
  \/ Start

Spec == Init /\ [][Next]_vars
=============================================================================
