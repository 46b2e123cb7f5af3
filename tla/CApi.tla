-------------------------------- MODULE CApi --------------------------------
(***************************************************************************)
(* The C ABI of cmd/setrixdb-capi over the sets of LazySet.  A caller holds*)
(* integers; a map guarded by a mutex takes them to sets.  Every call looks*)
(* its handles up under the mutex and works on the sets after it released  *)
(* it, so that another thread may free a handle in between.                *)
(*                                                                         *)
(* The owner makes two sets: the one LazySet models, to which it adds ids, *)
(* and a second one it fills and finalizes before anybody else knows it.   *)
(* Publish is the owner handing its handles to the other threads.          *)
(***************************************************************************)
EXTENDS LazySet

CONSTANTS
  Other,       \* the ids of the second set, in order
  Query,       \* the handles a query may name: one (len, has) or two (intersect)
  Missing,     \* -1, or 0 of sx_intersect_ids: a handle without a set
  None

ASSUME HandleAssumption ==
  /\ Other \in Seq(Nat) /\ Increasing(Other)
  /\ Query \subseteq {<<1>>, <<2>>, <<1, 2>>, <<2, 1>>}
  /\ Missing # None

VARIABLES
  reg,         \* the registry: handle -> the set it stands for
  next,        \* the handle the next set gets
  stage,       \* per thread: "out" of a call, "called", or "inside" a set
  asked,       \* per thread: the handles of its last query
  out,         \* per thread: what that query returned, or None
  freed,       \* history: the handles that were freed
  stale        \* history, per thread: one was freed before the query began

handles == <<reg, next, stage, asked, out, freed, stale>>
cvars == <<vars, handles>>

CInit ==
  /\ Init
  /\ reg = <<>> /\ next = 1 /\ freed = {}
  /\ stage = [t \in Thread |-> "out"]
  /\ asked = [t \in Thread |-> <<>>]
  /\ out = [t \in Thread |-> None]
  /\ stale = [t \in Thread |-> FALSE]

\* The sets in the order they are made.
Made == <<"shared", "other">>
IdsOf(set, copied) == IF set = "shared" THEN copied ELSE Other

\* A thread that may start a call: it is out of any other and has handles.
Free(t) == stage[t] = "out" /\ (published \/ t = Owner)

\* sx_set_new
SetNew ==
  /\ Free(Owner) /\ next <= Len(Made)
  /\ reg' = [h \in DOMAIN reg \cup {next} |-> IF h = next THEN Made[h] ELSE reg[h]]
  /\ next' = next + 1
  /\ UNCHANGED <<vars, stage, asked, out, freed, stale>>

\* sx_set_add_many: the owner is alone with the set, so that the lookup and the
\* append are one step; no ids, or a handle that was freed, add nothing.
SetAddMany(s) ==
  /\ Free(Owner) /\ 1 \in DOMAIN reg
  /\ Add(s)
  /\ out' = [out EXCEPT ![Owner] = None]
  /\ UNCHANGED <<reg, next, stage, asked, freed, stale>>

HandOut == Free(Owner) /\ Publish /\ UNCHANGED handles

\* A bug for the checks to find: the handle stays in the map.
SetFreeKeeps(t, h) ==
  /\ Free(t) /\ h \in DOMAIN reg
  /\ freed' = freed \cup {h}
  /\ UNCHANGED <<vars, reg, next, stage, asked, out, stale>>

\* sx_set_free, whoever is inside a call on the same set.
SetFree(t, h) ==
  /\ Free(t) /\ h \in DOMAIN reg
  /\ reg' = [k \in DOMAIN reg \ {h} |-> reg[k]]
  /\ freed' = freed \cup {h}
  /\ UNCHANGED <<vars, next, stage, asked, out, stale>>

\* A thread calls sx_set_len, sx_set_has, sx_intersect_many or sx_intersect_ids.
Call(t, hs) ==
  /\ Free(t) /\ \A h \in Elems(hs) : h < next
  /\ stage' = [stage EXCEPT ![t] = "called"]
  /\ asked' = [asked EXCEPT ![t] = hs]
  /\ out' = [out EXCEPT ![t] = None]
  /\ stale' = [stale EXCEPT ![t] = Elems(hs) \cap freed # {}]
  /\ UNCHANGED <<vars, reg, next, freed>>

\* The lookups under the mutex: they find no set, or only the finalized one, or
\* take the shared set's pointer along.
Lookup(t) ==
  /\ stage[t] = "called"
  /\ LET found == Elems(asked[t]) \cap DOMAIN reg IN
       \/ /\ found # Elems(asked[t])
          /\ stage' = [stage EXCEPT ![t] = "out"]
          /\ out' = [out EXCEPT ![t] = Missing]
          /\ UNCHANGED vars
       \/ /\ found = Elems(asked[t]) /\ \A h \in found : reg[h] = "other"
          /\ stage' = [stage EXCEPT ![t] = "out"]
          /\ out' = [out EXCEPT ![t] = Elems(Other)]
          /\ UNCHANGED vars
       \/ /\ found = Elems(asked[t]) /\ \E h \in found : reg[h] = "shared"
          /\ stage' = [stage EXCEPT ![t] = "inside"]
          /\ Ask(t)
          /\ UNCHANGED out
  /\ UNCHANGED <<reg, next, asked, freed, stale>>

\* The set's own steps, and the result of the copy that was taken.
Inside(t) == stage[t] = "inside" /\ Work(t) /\ UNCHANGED handles

Leave(t) ==
  /\ stage[t] = "inside" /\ Done(t)
  /\ stage' = [stage EXCEPT ![t] = "out"]
  /\ out' = [out EXCEPT ![t] =
               Elems(Intersect([k \in DOMAIN asked[t] |-> IdsOf(Made[asked[t][k]], got[t])]))]
  /\ UNCHANGED <<reg, next, asked, freed, stale>>

Proceed(t) == Lookup(t) \/ Inside(t) \/ Leave(t)

CNext ==
  \/ SetNew \/ HandOut
  \/ \E s \in Batch : SetAddMany(s)
  \/ \E t \in Thread :
       \/ \E h \in DOMAIN reg : SetFree(t, h)
       \/ \E hs \in Query : Call(t, hs)
       \/ Proceed(t)

CSpec == CInit /\ [][CNext]_cvars

\* Every thread that is in a call keeps running; the mutex is never held longer
\* than a lookup.
FairCSpec == CSpec /\ \A t \in Thread : WF_cvars(Proceed(t))

-----------------------------------------------------------------------------
(* Properties *)

\* What the sets of the handles asked for have in common.
Common(hs) ==
  LET of(h) == IF Made[h] = "shared" THEN added ELSE Elems(Other)
  IN  {x \in UNION {of(h) : h \in Elems(hs)} : \A h \in Elems(hs) : x \in of(h)}

\* A handle stands for one set for ever.  A query that began after a free of one
\* of its handles finds none; any other answers with the ids of the sets its
\* handles were made for, even when they were freed while it was inside them,
\* unless it too was given a handle that is freed by now (main.go:64-71).
HandlesKeepTheirSets ==
  \A t \in Thread : stage[t] = "out" /\ out[t] # None =>
    /\ stale[t] => out[t] = Missing
    /\ \/ out[t] = Common(asked[t])
       \/ out[t] = Missing /\ Elems(asked[t]) \cap freed # {}
=============================================================================
