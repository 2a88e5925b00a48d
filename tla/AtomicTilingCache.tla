------------------------- MODULE AtomicTilingCache -------------------------
(***************************************************************************)
(* What TilingCache (common/inc/op_host/tiling_cache.h) promises to the    *)
(* threads that share it: each call takes effect at one instant between    *)
(* its start and its return, on a bounded map from 32-bit hash keys to     *)
(* items that remember the input they were computed from.                  *)
(***************************************************************************)
EXTENDS Integers, FiniteSets

CONSTANTS Threads,
          Keys,        \* values of the 32-bit hash
          Inputs,      \* what is hashed; several may share a key
          Items,       \* HashItem values; each has a field "input"
          HashOf,      \* [Inputs -> Keys]
          MaxEntries   \* kMaxTilingCacheEntryNum

VARIABLES entries,  \* the map, a function from a subset of Keys to Items
          pending,  \* the call each thread has started, or NoCall
          answer    \* what that call returned, once it took effect

cacheVars == <<entries, pending, answer>>

NoCall   == [op |-> "none"]
NoAnswer == [kind |-> "none"]
Returned == [kind |-> "returned"]        \* Add and Replace return nothing
Miss     == [kind |-> "miss"]
Hit(item) == [kind |-> "hit", item |-> item]

Calls == [op : {"Add", "Replace"}, input : Inputs, item : Items]
           \cup [op : {"Get"}, input : Inputs]

Answers == {NoAnswer, Returned, Miss} \cup {Hit(item) : item \in Items}

(* The map f with item v under key k, whatever was there. *)
Put(f, k, v) == [x \in DOMAIN f \cup {k} |-> IF x = k THEN v ELSE f[x]]

HasRoom == Cardinality(DOMAIN entries) < MaxEntries

AbsInit ==
  /\ entries = <<>>
  /\ pending = [t \in Threads |-> NoCall]
  /\ answer = [t \in Threads |-> NoAnswer]

Start(t, call) ==
  /\ pending[t] = NoCall
  /\ pending' = [pending EXCEPT ![t] = call]
  /\ UNCHANGED <<entries, answer>>

(* Add never displaces an entry; Replace does, but only below the limit. *)
Changes(call) ==
  /\ HasRoom
  /\ call.op = "Add" => HashOf[call.input] \notin DOMAIN entries

TakeEffectOnMap(t) ==
  LET call == pending[t]
  IN /\ call.op \in {"Add", "Replace"}
     /\ answer[t] = NoAnswer
     /\ answer' = [answer EXCEPT ![t] = Returned]
     /\ \/ Changes(call) /\ entries' = Put(entries, HashOf[call.input], call.item)
        \/ ~Changes(call) /\ UNCHANGED entries
     /\ UNCHANGED pending

(* A key collision is a miss: the stored item must be of the same input. *)
Lookup(input) ==
  IF HashOf[input] \in DOMAIN entries /\ entries[HashOf[input]].input = input
  THEN Hit(entries[HashOf[input]]) ELSE Miss

TakeEffectAsLookup(t) ==
  /\ pending[t].op = "Get"
  /\ answer[t] = NoAnswer
  /\ answer' = [answer EXCEPT ![t] = Lookup(pending[t].input)]
  /\ UNCHANGED <<entries, pending>>

Finish(t) ==
  /\ answer[t] # NoAnswer
  /\ pending' = [pending EXCEPT ![t] = NoCall]
  /\ answer' = [answer EXCEPT ![t] = NoAnswer]
  /\ UNCHANGED entries

AbsNext ==
  \E t \in Threads :
    \/ \E call \in Calls : Start(t, call)
    \/ TakeEffectOnMap(t)
    \/ TakeEffectAsLookup(t)
    \/ Finish(t)

AbsSpec == AbsInit /\ [][AbsNext]_cacheVars
=============================================================================
