---------------------------- MODULE TilingCache ----------------------------
(***************************************************************************)
(* TilingCache<HashInput, HashItem> of common/inc/op_host/tiling_cache.h:  *)
(* a std::map guarded by an RWLock.  The lock is the module RWLock itself  *)
(* (its variables are this module's), and the statements between taking    *)
(* and leaving it are separate steps, so that what the lock forbids would  *)
(* show: a lookup that runs between the erase and the emplace of a         *)
(* Replace, or keeps an iterator to an entry that is erased.               *)
(***************************************************************************)
EXTENDS RWLock

CONSTANTS Keys,        \* values of the 32-bit hash (MurmurHash, op_host/hash.cpp)
          Inputs,      \* HashInput values; two of them may hash to one key
          Vals,        \* what an item caches (a saved tiling context)
          HashOf,      \* the hash as a function of the input
          MaxEntries   \* kMaxTilingCacheEntryNum

ASSUME HashAssumption == HashOf \in [Inputs -> Keys]
ASSUME MaxEntriesAssumption == MaxEntries \in Nat \ {0}

VARIABLES map,   \* map_
          size,  \* size_
          step,  \* the next statement of the call each thread is in
          call,  \* its arguments
          found  \* the value and flag Get hands back

vars == <<lockVars, map, size, step, call, found>>
bodyVars == <<map, size, step, call, found>>

(* An item knows the input it was built for: item.input() in the code. *)
Items == [input : Inputs, val : Vals]

Atomic == INSTANCE AtomicTilingCache
            WITH entries <- map, pending <- call, answer <- found

NoCall == Atomic!NoCall
KeyOf(t) == HashOf[call[t].input]

Init ==
  /\ LockInit
  /\ map = <<>>
  /\ size = 0
  /\ step = [t \in Threads |-> "idle"]
  /\ call = [t \in Threads |-> NoCall]
  /\ found = [t \in Threads |-> Atomic!NoAnswer]

Goto(t, label) == step' = [step EXCEPT ![t] = label]

(* A caller hashes the input and enters Add, Replace or Get, whose first    *)
(* statement is the wrlock() or the rdlock().                               *)
Enter(t, c, label) ==
  /\ step[t] = "idle"
  /\ call' = [call EXCEPT ![t] = c]
  /\ Goto(t, label)
  /\ UNCHANGED <<map, size, found>>

BeginAdd(t) ==
  \E i \in Inputs, v \in Vals :
    /\ Enter(t, [op |-> "Add", input |-> i, item |-> [input |-> i, val |-> v]], "addTest")
    /\ WrLock(t)

BeginReplace(t) ==
  \E i \in Inputs, v \in Vals :
    /\ Enter(t, [op |-> "Replace", input |-> i, item |-> [input |-> i, val |-> v]], "replaceTest")
    /\ WrLock(t)

BeginGet(t) ==
  \E i \in Inputs :
    /\ Enter(t, [op |-> "Get", input |-> i], "find")
    /\ RdLock(t)

(* Inside the lock, one statement of the body per step. *)
Body(t, label, mode) == at[t] = mode /\ step[t] = label /\ UNCHANGED lockVars

AddTest_ReturningLocked(t) ==
  /\ Body(t, "addTest", "writing")
  /\ \/ /\ size >= MaxEntries \/ KeyOf(t) \in DOMAIN map
        /\ Goto(t, "idle")
        /\ call' = [call EXCEPT ![t] = NoCall]
     \/ /\ size < MaxEntries /\ KeyOf(t) \notin DOMAIN map
        /\ Goto(t, "addEmplace")
        /\ UNCHANGED call
  /\ UNCHANGED <<map, size, found>>

(* Add: the two early returns, then emplace, then size_++. *)
AddTest(t) ==
  /\ Body(t, "addTest", "writing")
  /\ \/ (size >= MaxEntries \/ KeyOf(t) \in DOMAIN map) /\ Goto(t, "unlock")
     \/ size < MaxEntries /\ KeyOf(t) \notin DOMAIN map /\ Goto(t, "addEmplace")
  /\ UNCHANGED <<map, size, call, found>>

(* std::map::emplace leaves an existing entry alone. *)
Emplace(t) ==
  map' = IF KeyOf(t) \in DOMAIN map THEN map ELSE Atomic!Put(map, KeyOf(t), call[t].item)

AddEmplace(t) ==
  /\ Body(t, "addEmplace", "writing")
  /\ Emplace(t)
  /\ Goto(t, "addCount")
  /\ UNCHANGED <<size, call, found>>

AddCount(t) ==
  /\ Body(t, "addCount", "writing")
  /\ size' = size + 1
  /\ Goto(t, "unlock")
  /\ UNCHANGED <<map, call, found>>

ReplaceTest_RefreshingWhenFull(t) ==
  /\ Body(t, "replaceTest", "writing")
  /\ \/ /\ KeyOf(t) \in DOMAIN map
        /\ Goto(t, "erase")
        /\ UNCHANGED size
     \/ /\ KeyOf(t) \notin DOMAIN map /\ size < MaxEntries
        /\ Goto(t, "erase")
        /\ size' = size + 1
     \/ /\ KeyOf(t) \notin DOMAIN map /\ size >= MaxEntries
        /\ Goto(t, "unlock")
        /\ UNCHANGED size
  /\ UNCHANGED <<map, call, found>>

(* Replace: the early return also refuses a key that is already cached. *)
ReplaceTest(t) ==
  /\ Body(t, "replaceTest", "writing")
  /\ \/ size >= MaxEntries /\ Goto(t, "unlock") /\ UNCHANGED size
     \/ /\ size < MaxEntries
        /\ Goto(t, "erase")
        /\ size' = IF KeyOf(t) \in DOMAIN map THEN size ELSE size + 1
  /\ UNCHANGED <<map, call, found>>

Erase(t) ==
  /\ Body(t, "erase", "writing")
  /\ map' = [k \in DOMAIN map \ {KeyOf(t)} |-> map[k]]
  /\ Goto(t, "replaceEmplace")
  /\ UNCHANGED <<size, call, found>>

ReplaceEmplace(t) ==
  /\ Body(t, "replaceEmplace", "writing")
  /\ Emplace(t)
  /\ Goto(t, "unlock")
  /\ UNCHANGED <<size, call, found>>

(* Get: find keeps an iterator; the comparison and the copy go through it. *)
Find(t) ==
  /\ Body(t, "find", "reading")
  /\ \/ /\ KeyOf(t) \notin DOMAIN map
        /\ found' = [found EXCEPT ![t] = Atomic!Miss]
        /\ Goto(t, "unlock")
     \/ KeyOf(t) \in DOMAIN map /\ Goto(t, "compare") /\ UNCHANGED found
  /\ UNCHANGED <<map, size, call>>

Compare_TrustingTheHash(t) ==
  /\ Body(t, "compare", "reading")
  /\ Goto(t, "copy")
  /\ UNCHANGED <<map, size, call, found>>

Compare(t) ==
  /\ Body(t, "compare", "reading")
  /\ \/ map[KeyOf(t)].input = call[t].input /\ Goto(t, "copy") /\ UNCHANGED found
     \/ /\ map[KeyOf(t)].input # call[t].input
        /\ found' = [found EXCEPT ![t] = Atomic!Miss]
        /\ Goto(t, "unlock")
  /\ UNCHANGED <<map, size, call>>

Copy(t) ==
  /\ Body(t, "copy", "reading")
  /\ found' = [found EXCEPT ![t] = Atomic!Hit(map[KeyOf(t)])]
  /\ Goto(t, "unlock")
  /\ UNCHANGED <<map, size, call>>

(* Every path ends in unlock() and the return. *)
Leave(t) ==
  /\ step[t] = "unlock"
  /\ Unlock(t)
  /\ Goto(t, "idle")
  /\ call' = [call EXCEPT ![t] = NoCall]
  /\ found' = [found EXCEPT ![t] = Atomic!NoAnswer]
  /\ UNCHANGED <<map, size>>

InLock(t) == (RdRecheck(t) \/ WrRecheck(t)) /\ UNCHANGED bodyVars

InBody(t) ==
  \/ AddTest(t)
  \/ AddEmplace(t)
  \/ AddCount(t)
  \/ ReplaceTest(t)
  \/ Erase(t)
  \/ ReplaceEmplace(t)
  \/ Find(t)
  \/ Compare(t)
  \/ Copy(t)
  \/ Leave(t)

Next ==
  \E t \in Threads :
    \/ t \in Writers /\ BeginAdd(t)
    \/ t \in Writers /\ BeginReplace(t)
    \/ t \in Readers /\ BeginGet(t)
    \/ InLock(t)
    \/ InBody(t)
    \/ SpuriousWakeup(t) /\ UNCHANGED bodyVars

Spec == Init /\ [][Next]_vars

(* A thread inside a call keeps running whenever it is not blocked. *)
FairSpec == Spec /\ \A t \in Threads : WF_vars(InLock(t)) /\ WF_vars(InBody(t))
-----------------------------------------------------------------------------
Labels == {"idle", "addTest", "addEmplace", "addCount", "replaceTest", "erase",
           "replaceEmplace", "find", "compare", "copy", "unlock"}

TypeOK ==
  /\ LockTypeOK
  /\ DOMAIN map \subseteq Keys
  /\ \A k \in DOMAIN map : map[k] \in Items
  /\ size \in Nat
  /\ step \in [Threads -> Labels]
  /\ call \in [Threads -> {NoCall} \cup Atomic!Calls]
  /\ found \in [Threads -> Atomic!Answers]

(* The iterator Get holds between find and copy stays valid: no Replace     *)
(* erases the entry in the meantime (tiling_cache.h:66-77).                 *)
IteratorStaysValid ==
  \A t \in Threads : step[t] \in {"compare", "copy"} => KeyOf(t) \in DOMAIN map

(* A hit carries the item of the very input that was asked for, also when   *)
(* another input with the same hash owns the slot (tiling_cache.h:71).      *)
HitIsForTheInput ==
  \A t \in Threads :
    found[t].kind = "hit" => found[t].item.input = call[t].input

(* The calls take effect atomically.  An Add or a Replace takes effect at   *)
(* its test, so the map another thread would see is the concrete one with   *)
(* the entry the writer is about to emplace.                                *)
Committed == {t \in Threads : step[t] \in {"addEmplace", "erase", "replaceEmplace"}}

VisibleMap ==
  IF Committed = {} THEN map
  ELSE LET w == CHOOSE t \in Committed : TRUE IN Atomic!Put(map, KeyOf(w), call[w].item)

VisibleAnswer ==
  [t \in Threads |->
     IF \/ step[t] \in {"addEmplace", "addCount", "erase", "replaceEmplace"}
        \/ (step[t] = "unlock" /\ call[t].op # "Get")
     THEN Atomic!Returned ELSE found[t]]

Linear == INSTANCE AtomicTilingCache
            WITH entries <- VisibleMap, pending <- call, answer <- VisibleAnswer

(* Once the limit is reached the cache is frozen for the rest of the run:   *)
(* no entry is added, removed or refreshed, not even by Replace on a key    *)
(* that is cached (tiling_cache.h:50).                                      *)
FullCacheIsFrozen ==
  [][Cardinality(DOMAIN VisibleMap) = MaxEntries => VisibleMap' = VisibleMap]_vars

(* The cache implements the atomic one.                                     *)
ImplementsAtomicCache == Linear!AbsSpec

(* Every call returns once the other threads stop calling Add and Replace   *)
(* (an endless supply of writers may starve it, see RWLock): no path        *)
(* through the three bodies returns with the lock taken.                    *)
CallsReturn ==
  \A t \in Threads :
    <>[](\A u \in Threads \ {t} : call[u].op \in {"none", "Get"})
      => (step[t] # "idle" ~> step[t] = "idle")
=============================================================================
