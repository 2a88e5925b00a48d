-------------------------- MODULE HostTiling_proofs -------------------------
(***************************************************************************)
(* Proofs about the tiling on the host: its cache and the cache's lock,    *)
(* for any threads, hash function and limit, and the tiling templates of   *)
(* an operator, for any priorities, registrations and lists.               *)
(*                                                                         *)
(* The lock.  The inductive invariant is the conjunction of the invariants *)
(* the runs check: that _status counts the holders needs the types only,   *)
(* that no wake-up is lost needs in addition that the counters count the   *)
(* waiters.                                                                *)
(*                                                                         *)
(* The cache.  What makes the statements of a call act as one is that a    *)
(* thread past its test holds the lock for writing, so that nobody else is *)
(* inside: the invariant says, for each place in a call, which arguments   *)
(* it has, how the lock is held and what it knows of the map, and counts   *)
(* the entries.                                                            *)
(*                                                                         *)
(* The templates.  The invariant follows one walk: what is left to try     *)
(* together with what has been tried is the whole registry, and every      *)
(* class tried so far was passed over.                                     *)
(***************************************************************************)
EXTENDS TilingCache, TilingTemplates, FiniteSetTheorems, TLAPS

(***************************************************************************)
(* The reader/writer lock.                                                 *)
(***************************************************************************)
(* The threads that f puts in one of the places S. *)
Occupants(f, S) == {u \in Threads : f[u] \in S}

(* 1 when place p counts for the population of S. *)
Counts(p, S) == IF p \in S THEN 1 ELSE 0

(* g is f after thread t has moved to p. *)
Moves(f, g, t, p) == \A u \in Threads : g[u] = IF u = t THEN p ELSE f[u]

(* The four populations the counters are about. *)
nReading == Cardinality(In({"reading"}))
nWriting == Cardinality(In({"writing"}))
nRdWait  == Cardinality(In({"rdSleep", "rdAwake"}))
nWrWait  == Cardinality(In({"wrSleep", "wrAwake"}))

(* Types and counting in one arithmetic statement. *)
CountInv ==
  /\ at \in [Threads -> Places]
  /\ \/ status = -1 /\ nWriting = 1 /\ nReading = 0
     \/ status = nReading /\ nWriting = 0
  /\ waitingReaders = nRdWait
  /\ waitingWriters = nWrWait

LEMMA OccupantsFinite ==
  ASSUME NEW f, NEW S
  PROVE  IsFiniteSet(Occupants(f, S)) /\ Cardinality(Occupants(f, S)) \in Nat
<1>1. IsFiniteSet(Threads)
  BY ThreadsFinite, FS_Union DEF Threads
<1>2. IsFiniteSet(Occupants(f, S))
  BY <1>1, FS_Subset DEF Occupants
<1>. QED  BY <1>2, FS_CardinalityType

LEMMA CountsAreNaturals ==
  /\ nReading \in Nat
  /\ nWriting \in Nat
  /\ nRdWait \in Nat
  /\ nWrWait \in Nat
BY OccupantsFinite DEF In, Occupants, nReading, nWriting, nRdWait, nWrWait

(* When one thread moves, the population of a set of places grows by one,   *)
(* shrinks by one or stays the same.                                        *)
LEMMA MoveOne ==
  ASSUME NEW f, NEW g, NEW t \in Threads, NEW p, NEW S,
         Moves(f, g, t, p)
  PROVE  Cardinality(Occupants(g, S))
           = Cardinality(Occupants(f, S)) + Counts(p, S) - Counts(f[t], S)
<1>. USE DEF Counts, Moves
<1>. DEFINE old == Occupants(f, S)
            new == Occupants(g, S)
<1>1. IsFiniteSet(old) /\ Cardinality(old) \in Nat
  BY OccupantsFinite
<1>2. CASE f[t] \in S <=> p \in S
  <2>1. new = old
    BY <1>2 DEF Occupants
  <2>. QED  BY <1>1, <1>2, <2>1
<1>3. CASE f[t] \notin S /\ p \in S
  <2>1. new = old \cup {t} /\ t \notin old
    BY <1>3 DEF Occupants
  <2>2. Cardinality(new) = Cardinality(old) + 1
    BY <1>1, <2>1, FS_AddElement
  <2>. QED  BY <1>1, <1>3, <2>2
<1>4. CASE f[t] \in S /\ p \notin S
  <2>1. new = old \ {t} /\ t \in old
    BY <1>4 DEF Occupants
  <2>2. Cardinality(new) = Cardinality(old) - 1
    BY <1>1, <2>1, FS_RemoveElement
  <2>. QED  BY <1>1, <1>4, <2>2
<1>. QED  BY <1>2, <1>3, <1>4

LEMMA MoveIn ==
  ASSUME NEW t \in Threads, NEW p, NEW S,
         Moves(at, at', t, p)
  PROVE  Cardinality(In(S))' = Cardinality(In(S)) + Counts(p, S) - Counts(at[t], S)
<1>1. In(S)' = Occupants(at', S) /\ In(S) = Occupants(at, S)
  BY DEF In, Occupants
<1>2. Cardinality(Occupants(at', S))
        = Cardinality(Occupants(at, S)) + Counts(p, S) - Counts(at[t], S)
  BY MoveOne
<1>. QED  BY <1>1, <1>2

(* The same for the four populations at once. *)
LEMMA MoveCounts ==
  ASSUME at \in [Threads -> Places], NEW t \in Threads, NEW p \in Places,
         at' = [at EXCEPT ![t] = p]
  PROVE  /\ at' \in [Threads -> Places]
         /\ nReading' = nReading + (IF p = "reading" THEN 1 ELSE 0)
                                 - (IF at[t] = "reading" THEN 1 ELSE 0)
         /\ nWriting' = nWriting + (IF p = "writing" THEN 1 ELSE 0)
                                 - (IF at[t] = "writing" THEN 1 ELSE 0)
         /\ nRdWait' = nRdWait + (IF p \in {"rdSleep", "rdAwake"} THEN 1 ELSE 0)
                               - (IF at[t] \in {"rdSleep", "rdAwake"} THEN 1 ELSE 0)
         /\ nWrWait' = nWrWait + (IF p \in {"wrSleep", "wrAwake"} THEN 1 ELSE 0)
                               - (IF at[t] \in {"wrSleep", "wrAwake"} THEN 1 ELSE 0)
<1>1. ASSUME NEW S
      PROVE  Cardinality(In(S))' = Cardinality(In(S)) + Counts(p, S) - Counts(at[t], S)
  <2>1. Moves(at, at', t, p)
    BY DEF Moves
  <2>. QED  BY <2>1, MoveIn
<1>2. at' \in [Threads -> Places]
  OBVIOUS
<1>. QED  BY <1>1, <1>2 DEF Counts, nReading, nWriting, nRdWait, nWrWait

(* The notification moves sleepers to "awake" only, which no population     *)
(* tells apart.                                                             *)
LEMMA NotifyKeepsCounts ==
  ASSUME NEW f \in [Threads -> Places], Notify(f), NEW S,
         "rdSleep" \in S <=> "rdAwake" \in S, "wrSleep" \in S <=> "wrAwake" \in S
  PROVE  at' \in [Threads -> Places] /\ In(S)' = Occupants(f, S)
<1>1. CASE \E w \in Threads : f[w] = "wrSleep" /\ at' = [f EXCEPT ![w] = "wrAwake"]
  BY <1>1 DEF In, Occupants, Places
<1>2. CASE at' = f
  BY <1>2 DEF In, Occupants
<1>3. CASE at' = [u \in Threads |-> IF f[u] = "rdSleep" THEN "rdAwake" ELSE f[u]]
  BY <1>3 DEF In, Occupants, Places
<1>. QED  BY <1>1, <1>2, <1>3 DEF Notify

(* unlock() removes the caller and leaves every other population alone.     *)
LEMMA UnlockCounts ==
  ASSUME at \in [Threads -> Places], NEW t \in Threads, Unlock(t)
  PROVE  /\ at' \in [Threads -> Places]
         /\ nReading' = nReading - (IF at[t] = "reading" THEN 1 ELSE 0)
         /\ nWriting' = nWriting - (IF at[t] = "writing" THEN 1 ELSE 0)
         /\ nRdWait' = nRdWait
         /\ nWrWait' = nWrWait
<1>. DEFINE f == [at EXCEPT ![t] = "out"]
<1>1. f \in [Threads -> Places] /\ Notify(f)
  BY DEF Unlock, Places
<1>2. \A S : In(S) = Occupants(at, S)
  BY DEF In, Occupants
<1>3. at' \in [Threads -> Places]
  BY <1>1 DEF Notify, Places
<1>4. nReading' = Cardinality(Occupants(f, {"reading"}))
  BY <1>1, NotifyKeepsCounts DEF nReading
<1>5. nWriting' = Cardinality(Occupants(f, {"writing"}))
  BY <1>1, NotifyKeepsCounts DEF nWriting
<1>6. nRdWait' = Cardinality(Occupants(f, {"rdSleep", "rdAwake"}))
  BY <1>1, NotifyKeepsCounts DEF nRdWait
<1>7. nWrWait' = Cardinality(Occupants(f, {"wrSleep", "wrAwake"}))
  BY <1>1, NotifyKeepsCounts DEF nWrWait
<1>8. ASSUME NEW S
      PROVE  Cardinality(Occupants(f, S))
               = Cardinality(In(S)) + Counts("out", S) - Counts(at[t], S)
  <2>1. Cardinality(Occupants(f, S))
          = Cardinality(Occupants(at, S)) + Counts("out", S) - Counts(at[t], S)
    <3>1. Moves(at, f, t, "out")
      BY DEF Moves
    <3>. HIDE DEF f
    <3>. QED  BY <3>1, MoveOne
  <2>. QED  BY <1>2, <2>1
<1>. HIDE DEF f
<1>9. at[t] \in {"reading", "writing"}
  BY DEF Unlock
<1>10. nReading' = nReading - (IF at[t] = "reading" THEN 1 ELSE 0)
  BY <1>2, <1>4, <1>8, CountsAreNaturals DEF nReading, Counts
<1>11. nWriting' = nWriting - (IF at[t] = "writing" THEN 1 ELSE 0)
  BY <1>2, <1>5, <1>8, CountsAreNaturals DEF nWriting, Counts
<1>12. nRdWait' = nRdWait
  BY <1>2, <1>6, <1>8, <1>9, CountsAreNaturals DEF nRdWait, Counts
<1>13. nWrWait' = nWrWait
  BY <1>2, <1>7, <1>8, <1>9, CountsAreNaturals DEF nWrWait, Counts
<1>. QED  BY <1>3, <1>10, <1>11, <1>12, <1>13

(* A thread that is somewhere makes that population non-empty.              *)
LEMMA Present ==
  ASSUME NEW t \in Threads
  PROVE  /\ at[t] = "reading" => nReading > 0
         /\ at[t] = "writing" => nWriting > 0
         /\ at[t] \in {"rdSleep", "rdAwake"} => nRdWait > 0
         /\ at[t] \in {"wrSleep", "wrAwake"} => nWrWait > 0
<1>1. ASSUME NEW S, at[t] \in S
      PROVE  Cardinality(In(S)) > 0
  <2>1. IsFiniteSet(In(S)) /\ Cardinality(In(S)) \in Nat
    BY OccupantsFinite DEF In, Occupants
  <2>2. In(S) # {}
    BY <1>1 DEF In
  <2>. QED  BY <2>1, <2>2, FS_EmptySet
<1>. QED  BY <1>1 DEF nReading, nWriting, nRdWait, nWrWait

LEMMA CountInvInductive ==
  /\ LockInit => CountInv
  /\ CountInv /\ [LockNext]_lockVars => CountInv'
<1>1. ASSUME LockInit
      PROVE  CountInv
  <2>1. at \in [Threads -> Places]
    BY <1>1 DEF LockInit, Places
  <2>2. \A S : "out" \notin S => In(S) = {}
    BY <1>1 DEF LockInit, In
  <2>3. nReading = 0 /\ nWriting = 0 /\ nRdWait = 0 /\ nWrWait = 0
    BY <2>2, FS_EmptySet DEF nReading, nWriting, nRdWait, nWrWait
  <2>. QED  BY <1>1, <2>1, <2>3 DEF LockInit, CountInv
<1>2. ASSUME CountInv, [LockNext]_lockVars
      PROVE  CountInv'
  <2>. USE <1>2, CountsAreNaturals DEF CountInv
  <2>1. ASSUME NEW t \in Threads, RdLock(t)
        PROVE  CountInv'
    <3>1. CASE MayRead
      BY <2>1, <3>1, MoveCounts DEF RdLock, MayRead, Places
    <3>2. CASE ~MayRead
      BY <2>1, <3>2, MoveCounts DEF RdLock, Places
    <3>. QED  BY <3>1, <3>2
  <2>2. ASSUME NEW t \in Threads, WrLock(t)
        PROVE  CountInv'
    <3>1. CASE MayWrite
      BY <2>2, <3>1, MoveCounts DEF WrLock, MayWrite, Places
    <3>2. CASE ~MayWrite
      BY <2>2, <3>2, MoveCounts DEF WrLock, Places
    <3>. QED  BY <3>1, <3>2
  <2>3. ASSUME NEW t \in Threads, RdRecheck(t)
        PROVE  CountInv'
    <3>1. CASE MayRead
      BY <2>3, <3>1, MoveCounts DEF RdRecheck, MayRead, Places
    <3>2. CASE ~MayRead
      BY <2>3, <3>2, MoveCounts DEF RdRecheck, Places
    <3>. QED  BY <3>1, <3>2
  <2>4. ASSUME NEW t \in Threads, WrRecheck(t)
        PROVE  CountInv'
    <3>1. CASE MayWrite
      BY <2>4, <3>1, MoveCounts DEF WrRecheck, MayWrite, Places
    <3>2. CASE ~MayWrite
      BY <2>4, <3>2, MoveCounts DEF WrRecheck, Places
    <3>. QED  BY <3>1, <3>2
  <2>5. ASSUME NEW t \in Threads, Unlock(t)
        PROVE  CountInv'
    <3>1. /\ status' = IF status = -1 THEN 0 ELSE status - 1
          /\ UNCHANGED <<waitingReaders, waitingWriters>>
          /\ at[t] \in {"reading", "writing"}
      BY <2>5 DEF Unlock, AfterRelease
    <3>. QED  BY <2>5, <3>1, UnlockCounts, Present
  <2>6. ASSUME NEW t \in Threads, SpuriousWakeup(t)
        PROVE  CountInv'
    <3>1. CASE at[t] = "rdSleep"
      BY <2>6, <3>1, MoveCounts DEF SpuriousWakeup, Places
    <3>2. CASE at[t] = "wrSleep"
      BY <2>6, <3>2, MoveCounts DEF SpuriousWakeup, Places
    <3>. QED  BY <2>6, <3>1, <3>2 DEF SpuriousWakeup
  <2>7. CASE UNCHANGED lockVars
    BY <2>7 DEF lockVars, In, nReading, nWriting, nRdWait, nWrWait
  <2>. QED  BY <2>1, <2>2, <2>3, <2>4, <2>5, <2>6, <2>7 DEF LockNext, Threads
<1>. QED  BY <1>1, <1>2

(* What the counts say about the threads themselves.                        *)
LEMMA CountsToThreads ==
  CountInv => /\ LockTypeOK
              /\ StatusCountsHolders
              /\ CountersCountWaiters
              /\ MutualExclusion
<1>. SUFFICES ASSUME CountInv
              PROVE  /\ LockTypeOK /\ StatusCountsHolders
                     /\ CountersCountWaiters /\ MutualExclusion
  OBVIOUS
<1>. USE CountsAreNaturals
<1>1. \A S : IsFiniteSet(In(S))
  BY OccupantsFinite DEF In, Occupants
<1>2. LockTypeOK
  BY DEF CountInv, LockTypeOK
<1>3. /\ nWriting = 0 => In({"writing"}) = {}
      /\ nReading = 0 => In({"reading"}) = {}
  BY <1>1, FS_EmptySet DEF nReading, nWriting
<1>4. StatusCountsHolders
  BY <1>3 DEF CountInv, StatusCountsHolders, nReading, nWriting
<1>5. CountersCountWaiters
  BY DEF CountInv, CountersCountWaiters, nRdWait, nWrWait
<1>6. MutualExclusion
  <2>. SUFFICES ASSUME NEW t \in Threads, NEW u \in Threads, t # u, at[t] = "writing",
                       at[u] \in {"reading", "writing"}
                PROVE  FALSE
    BY DEF MutualExclusion
  <2>1. nWriting = 1 /\ nReading = 0
    BY Present DEF CountInv
  <2>2. at[u] = "writing"
    BY <2>1, Present
  <2>3. PICK w : In({"writing"}) = {w}
    BY <1>1, <2>1, FS_Singleton DEF nWriting
  <2>4. t \in In({"writing"}) /\ u \in In({"writing"})
    BY <2>2 DEF In
  <2>. QED  BY <2>3, <2>4
<1>. QED  BY <1>2, <1>4, <1>5, <1>6

LEMMA CountInvariant == LockSpec => []CountInv
BY CountInvInductive, PTL DEF LockSpec

(* The lock's fields stay within their types.                               *)
THEOREM LockTypeCorrect == LockSpec => []LockTypeOK
BY CountInvariant, CountsToThreads, PTL

(* A thread that got wrlock() is alone inside (lock.cpp:20-36).             *)
THEOREM LockExcludes == LockSpec => []MutualExclusion
BY CountInvariant, CountsToThreads, PTL

(* The sign and the size of _status identify the holders, so that the one   *)
(* unlock() for both modes releases what its caller holds.                  *)
THEOREM LockStatusCountsHolders == LockSpec => []StatusCountsHolders
BY CountInvariant, CountsToThreads, PTL

LEMMA NoLostWakeupStep ==
  CountInv /\ NoLostWakeup /\ [LockNext]_lockVars => NoLostWakeup'
<1>. SUFFICES ASSUME CountInv, NoLostWakeup, [LockNext]_lockVars
              PROVE  NoLostWakeup'
  OBVIOUS
<1>. USE CountsAreNaturals DEF CountInv, NoLostWakeup, In
<1>1. ASSUME NEW t \in Threads, RdLock(t)
      PROVE  NoLostWakeup'
  BY <1>1 DEF RdLock, MayRead
<1>2. ASSUME NEW t \in Threads, WrLock(t)
      PROVE  NoLostWakeup'
  BY <1>2 DEF WrLock, MayWrite, MayRead
<1>3. ASSUME NEW t \in Threads, RdRecheck(t)
      PROVE  NoLostWakeup'
  BY <1>3 DEF RdRecheck, MayRead
<1>4. ASSUME NEW t \in Threads, WrRecheck(t)
      PROVE  NoLostWakeup'
  BY <1>4 DEF WrRecheck, MayWrite, MayRead
<1>5. ASSUME NEW t \in Threads, Unlock(t)
      PROVE  NoLostWakeup'
  <2>. DEFINE f == [at EXCEPT ![t] = "out"]
  <2>1. /\ status' = AfterRelease
        /\ UNCHANGED <<waitingReaders, waitingWriters>>
        /\ Notify(f)
        /\ at[t] \in {"reading", "writing"}
    BY <1>5 DEF Unlock
  <2>2. CASE waitingWriters > 0 /\ AfterRelease = 0 /\ \E w \in Threads : f[w] = "wrSleep"
    <3>1. PICK w \in Threads : at' = [f EXCEPT ![w] = "wrAwake"]
      BY <2>1, <2>2 DEF Notify
    <3>. QED  BY <2>1, <2>2, <3>1 DEF MayRead
  <2>3. CASE waitingWriters > 0 /\ AfterRelease = 0 /\ ~ \E w \in Threads : f[w] = "wrSleep"
    <3>1. at' = f
      BY <2>1, <2>3 DEF Notify
    <3>2. nWrWait > 0
      BY <2>3
    <3>3. In({"wrSleep", "wrAwake"}) # {}
      BY <3>2, FS_EmptySet DEF nWrWait
    <3>4. PICK w \in Threads : at[w] \in {"wrSleep", "wrAwake"}
      BY <3>3
    <3>5. f[w] = "wrAwake"
      BY <2>1, <2>3, <3>4
    <3>. QED  BY <2>1, <2>3, <3>1, <3>5 DEF MayRead
  <2>4. CASE waitingWriters > 0 /\ AfterRelease # 0
    BY <2>1, <2>4 DEF MayRead
  <2>5. CASE waitingWriters = 0
    BY <2>1, <2>5 DEF Notify, MayRead
  <2>. QED  BY <2>2, <2>3, <2>4, <2>5
<1>6. ASSUME NEW t \in Threads, SpuriousWakeup(t)
      PROVE  NoLostWakeup'
  BY <1>6 DEF SpuriousWakeup, MayRead
<1>7. CASE UNCHANGED lockVars
  BY <1>7 DEF lockVars, MayRead
<1>. QED  BY <1>1, <1>2, <1>3, <1>4, <1>5, <1>6, <1>7 DEF LockNext, Threads

(* Nobody sleeps on a lock that is free for it, whatever the number of      *)
(* threads, the order in which they win _mtx and the spurious wake-ups.     *)
THEOREM LockLosesNoWakeup == LockSpec => []NoLostWakeup
<1>1. LockInit => NoLostWakeup
  BY DEF LockInit, NoLostWakeup, In, MayRead
<1>. QED  BY <1>1, NoLostWakeupStep, CountInvariant, PTL DEF LockSpec

(***************************************************************************)
(* The cache.                                                              *)
(***************************************************************************)
Adds     == [op : {"Add"}, input : Inputs, item : Items]
Replaces == [op : {"Replace"}, input : Inputs, item : Items]
Gets     == [op : {"Get"}, input : Inputs]

(* The arguments that go with each statement. *)
CallFits(t) ==
  /\ step[t] = "idle" => call[t] = NoCall
  /\ step[t] \in {"addTest", "addEmplace", "addCount"} => call[t] \in Adds
  /\ step[t] \in {"replaceTest", "erase", "replaceEmplace"} => call[t] \in Replaces
  /\ step[t] \in {"find", "compare", "copy"} => call[t] \in Gets
  /\ step[t] = "unlock" => call[t] \in Adds \cup Replaces \cup Gets

(* How the lock is held, or waited for, at each statement. *)
LockFits(t) ==
  /\ step[t] = "idle" => at[t] = "out"
  /\ step[t] \in {"addTest", "replaceTest"} => at[t] \in {"wrSleep", "wrAwake", "writing"}
  /\ step[t] = "find" => at[t] \in {"rdSleep", "rdAwake", "reading"}
  /\ step[t] \in {"addEmplace", "addCount", "erase", "replaceEmplace"} => at[t] = "writing"
  /\ step[t] \in {"compare", "copy"} => at[t] = "reading"
  /\ step[t] = "unlock" => at[t] = IF call[t] \in Gets THEN "reading" ELSE "writing"

(* What the call knows of the map from its earlier statements. *)
MapFits(t) ==
  /\ step[t] \in {"addEmplace", "replaceEmplace"} => KeyOf(t) \notin DOMAIN map
  /\ step[t] \in {"compare", "copy"} => KeyOf(t) \in DOMAIN map
  /\ step[t] = "copy" => map[KeyOf(t)].input = call[t].input

(* Only a lookup on its way out has an answer. *)
FoundFits(t) ==
  IF step[t] = "unlock" /\ call[t] \in Gets
  THEN \/ found[t] = Atomic!Miss
       \/ \E item \in Items : found[t] = Atomic!Hit(item) /\ item.input = call[t].input
  ELSE found[t] = Atomic!NoAnswer

ThreadInv(t) == CallFits(t) /\ LockFits(t) /\ MapFits(t) /\ FoundFits(t)

(* The number of cached entries, and by how much size_ differs from it at   *)
(* each statement of the one call that may be changing the map.             *)
nEntries == Cardinality(DOMAIN map)
MidChange == {"addEmplace", "addCount", "erase", "replaceEmplace"}

SizeFits(t) ==
  /\ step[t] = "addEmplace" => size = nEntries /\ size < MaxEntries
  /\ step[t] = "addCount" => size + 1 = nEntries /\ size < MaxEntries
  /\ step[t] = "erase" => size = IF KeyOf(t) \in DOMAIN map THEN nEntries ELSE nEntries + 1
  /\ step[t] = "replaceEmplace" => size = nEntries + 1

SizeInv ==
  /\ size \in 0 .. MaxEntries
  /\ (\A t \in Threads : step[t] \notin MidChange) => size = nEntries
  /\ \A t \in Threads : SizeFits(t)

CacheInv ==
  /\ CountInv
  /\ TypeOK
  /\ IsFiniteSet(DOMAIN map)
  /\ SizeInv
  /\ \A t \in Threads : ThreadInv(t)
-----------------------------------------------------------------------------
(* What the lock's actions do to the thread that takes them, and to others. *)
Woken(u) ==
  \/ at'[u] = at[u]
  \/ at[u] = "rdSleep" /\ at'[u] = "rdAwake"
  \/ at[u] = "wrSleep" /\ at'[u] = "wrAwake"

OthersWoken(t) == \A u \in Threads \ {t} : Woken(u)

LEMMA LockMoves ==
  ASSUME at \in [Threads -> Places], NEW t \in Threads
  PROVE  /\ RdLock(t) => at'[t] \in {"reading", "rdSleep"} /\ OthersWoken(t)
         /\ WrLock(t) => at'[t] \in {"writing", "wrSleep"} /\ OthersWoken(t)
         /\ RdRecheck(t) => /\ at[t] = "rdAwake" /\ at'[t] \in {"reading", "rdSleep"}
                            /\ OthersWoken(t)
         /\ WrRecheck(t) => /\ at[t] = "wrAwake" /\ at'[t] \in {"writing", "wrSleep"}
                            /\ OthersWoken(t)
         /\ Unlock(t) => at'[t] = "out" /\ OthersWoken(t)
         /\ SpuriousWakeup(t) => Woken(t) /\ OthersWoken(t)
<1>. USE DEF OthersWoken, Woken
<1>1. RdLock(t) => at'[t] \in {"reading", "rdSleep"} /\ OthersWoken(t)
  BY DEF RdLock
<1>2. WrLock(t) => at'[t] \in {"writing", "wrSleep"} /\ OthersWoken(t)
  BY DEF WrLock
<1>3. RdRecheck(t) => /\ at[t] = "rdAwake" /\ at'[t] \in {"reading", "rdSleep"}
                      /\ OthersWoken(t)
  BY DEF RdRecheck
<1>4. WrRecheck(t) => /\ at[t] = "wrAwake" /\ at'[t] \in {"writing", "wrSleep"}
                      /\ OthersWoken(t)
  BY DEF WrRecheck
<1>5. SpuriousWakeup(t) => Woken(t) /\ OthersWoken(t)
  BY DEF SpuriousWakeup
<1>6. ASSUME Unlock(t)
      PROVE  at'[t] = "out" /\ OthersWoken(t)
  <2>. DEFINE f == [at EXCEPT ![t] = "out"]
  <2>1. f[t] = "out" /\ \A u \in Threads \ {t} : f[u] = at[u]
    OBVIOUS
  <2>2. Notify(f)
    BY <1>6 DEF Unlock
  <2>. HIDE DEF f
  <2>3. CASE \E w \in Threads : f[w] = "wrSleep" /\ at' = [f EXCEPT ![w] = "wrAwake"]
    <3>1. f \in [Threads -> Places]
      BY DEF f, Places
    <3>. QED  BY <2>1, <2>3, <3>1
  <2>4. CASE at' = f
    BY <2>1, <2>4
  <2>5. CASE at' = [u \in Threads |-> IF f[u] = "rdSleep" THEN "rdAwake" ELSE f[u]]
    BY <2>1, <2>5
  <2>. QED  BY <2>2, <2>3, <2>4, <2>5 DEF Notify
<1>. QED  BY <1>1, <1>2, <1>3, <1>4, <1>5, <1>6

(* Every step of the cache is a step of the lock, or leaves the lock alone. *)
LEMMA CacheStepIsLockStep == [Next]_vars => [LockNext]_lockVars
<1>1. Next => [LockNext]_lockVars
  BY DEF Next, LockNext, BeginAdd, BeginReplace, BeginGet, InLock, InBody, AddTest, AddEmplace,
         AddCount, ReplaceTest, Erase, ReplaceEmplace, Find, Compare, Copy, Leave, Body
<1>2. UNCHANGED vars => UNCHANGED lockVars
  BY DEF vars, lockVars
<1>. QED  BY <1>1, <1>2

(* While one thread writes, every other one is outside or at its first      *)
(* statement, waiting for the lock.                                         *)
Outside == {"idle", "addTest", "replaceTest", "find"}

LEMMA WriterIsAlone ==
  ASSUME CacheInv, NEW t \in Threads, at[t] = "writing",
         NEW u \in Threads \ {t}
  PROVE  step[u] \in Outside
<1>1. at[u] \notin {"reading", "writing"}
  BY CountsToThreads DEF CacheInv, MutualExclusion
<1>. QED  BY <1>1 DEF CacheInv, TypeOK, Labels, ThreadInv, LockFits, Outside

(* A thread that takes no step keeps its part of the invariant.             *)
LEMMA BystanderKeeps ==
  ASSUME NEW u \in Threads, ThreadInv(u), Woken(u),
         step'[u] = step[u], call'[u] = call[u], found'[u] = found[u],
         map' = map \/ step[u] \in Outside
  PROVE  ThreadInv(u)'
<1>1. CallFits(u)' /\ FoundFits(u)'
  BY DEF ThreadInv, CallFits, FoundFits
<1>2. LockFits(u)'
  BY DEF ThreadInv, LockFits, Woken
<1>3. MapFits(u)'
  BY DEF ThreadInv, MapFits, KeyOf, Outside
<1>. QED  BY <1>1, <1>2, <1>3 DEF ThreadInv

(* A step of t's: the others are woken at most.                             *)
StepOf(t) ==
  /\ OthersWoken(t)
  /\ \A u \in Threads \ {t} :
       step'[u] = step[u] /\ call'[u] = call[u] /\ found'[u] = found[u]

(* Steps that leave the map alone, by a thread that has decided nothing     *)
(* about it yet or any more.                                                *)
LEMMA QuietStep ==
  ASSUME CacheInv, NEW t \in Threads, StepOf(t), CountInv', TypeOK', ThreadInv(t)',
         UNCHANGED <<map, size>>, step[t] \notin MidChange, step'[t] \notin MidChange
  PROVE  CacheInv'
<1>1. \A u \in Threads : step[u] \in MidChange \/ step'[u] \in MidChange =>
        u # t /\ step'[u] = step[u] /\ KeyOf(u)' = KeyOf(u)
  BY DEF StepOf, KeyOf
<1>2. nEntries' = nEntries
  BY DEF nEntries
<1>3. SizeInv'
  <2>1. (\A u \in Threads : step'[u] \notin MidChange) => size' = nEntries'
    BY <1>1, <1>2 DEF CacheInv, SizeInv
  <2>2. ASSUME NEW u \in Threads
        PROVE  SizeFits(u)'
    BY <1>1, <1>2 DEF CacheInv, SizeInv, SizeFits, MidChange
  <2>. QED  BY <2>1, <2>2 DEF CacheInv, SizeInv
<1>4. ASSUME NEW u \in Threads
      PROVE  ThreadInv(u)'
  BY BystanderKeeps DEF CacheInv, StepOf, OthersWoken
<1>. QED  BY <1>3, <1>4 DEF CacheInv

(* Steps of the thread that writes: only its own place in the call matters. *)
LEMMA WriterStep ==
  ASSUME CacheInv, NEW t \in Threads, at[t] = "writing", StepOf(t),
         CountInv', TypeOK', ThreadInv(t)', IsFiniteSet(DOMAIN map'),
         size' \in 0 .. MaxEntries, SizeFits(t)',
         step'[t] \notin MidChange => size' = nEntries'
  PROVE  CacheInv'
<1>1. ASSUME NEW u \in Threads \ {t}
      PROVE  step'[u] \in Outside /\ step[u] \in Outside
  BY WriterIsAlone DEF StepOf
<1>2. SizeInv'
  <2>1. ASSUME NEW u \in Threads \ {t}
        PROVE  SizeFits(u)'
    BY <1>1 DEF SizeFits, Outside
  <2>. QED  BY <2>1 DEF SizeInv
<1>3. ASSUME NEW u \in Threads \ {t}
      PROVE  ThreadInv(u)'
  BY <1>1, BystanderKeeps DEF CacheInv, StepOf, OthersWoken
<1>. QED  BY <1>2, <1>3 DEF CacheInv

LEMMA LockTypeAfterStep == CountInv' => LockTypeOK'
<1>1. CountInv => LockTypeOK
  BY CountsToThreads
<1>. QED  BY <1>1, PTL

(* One lemma per kind of step.  The calls start outside the lock.           *)
LEMMA BeginKeeps ==
  ASSUME CacheInv, CountInv', NEW t \in Threads,
         BeginAdd(t) \/ BeginReplace(t) \/ BeginGet(t)
  PROVE  CacheInv'
<1>. USE DEF Enter, Goto
<1>. SUFFICES /\ StepOf(t)
              /\ step[t] = "idle"
              /\ step'[t] \in {"addTest", "replaceTest", "find"}
              /\ UNCHANGED <<map, size>>
              /\ TypeOK'
              /\ ThreadInv(t)'
  BY QuietStep DEF MidChange
<1>0. at \in [Threads -> Places]
  BY DEF CacheInv, CountInv
<1>. USE DEF CacheInv, TypeOK
<1>1. CASE BeginAdd(t)
  <2>1. PICK i \in Inputs, v \in Vals :
          /\ Enter(t, [op |-> "Add", input |-> i, item |-> [input |-> i, val |-> v]], "addTest")
          /\ WrLock(t)
    BY <1>1 DEF BeginAdd
  <2>2. call'[t] \in Adds
    BY <2>1 DEF Adds, Items
  <2>3. StepOf(t) /\ at'[t] \in {"writing", "wrSleep"}
    BY <1>0, <2>1, LockMoves DEF StepOf
  <2>4. TypeOK'
    BY <2>1, <2>2, LockTypeAfterStep DEF Labels, Adds, Atomic!Calls
  <2>5. ThreadInv(t)'
    BY <2>1, <2>2, <2>3 DEF ThreadInv, CallFits, LockFits, MapFits, FoundFits
  <2>. QED  BY <2>1, <2>3, <2>4, <2>5
<1>2. CASE BeginReplace(t)
  <2>1. PICK i \in Inputs, v \in Vals :
          /\ Enter(t, [op |-> "Replace", input |-> i, item |-> [input |-> i, val |-> v]],
                   "replaceTest")
          /\ WrLock(t)
    BY <1>2 DEF BeginReplace
  <2>2. call'[t] \in Replaces
    BY <2>1 DEF Replaces, Items
  <2>3. StepOf(t) /\ at'[t] \in {"writing", "wrSleep"}
    BY <1>0, <2>1, LockMoves DEF StepOf
  <2>4. TypeOK'
    BY <2>1, <2>2, LockTypeAfterStep DEF Labels, Replaces, Atomic!Calls
  <2>5. ThreadInv(t)'
    BY <2>1, <2>2, <2>3 DEF ThreadInv, CallFits, LockFits, MapFits, FoundFits
  <2>. QED  BY <2>1, <2>3, <2>4, <2>5
<1>3. CASE BeginGet(t)
  <2>1. PICK i \in Inputs : Enter(t, [op |-> "Get", input |-> i], "find") /\ RdLock(t)
    BY <1>3 DEF BeginGet
  <2>2. call'[t] \in Gets
    BY <2>1 DEF Gets
  <2>3. StepOf(t) /\ at'[t] \in {"reading", "rdSleep"}
    BY <1>0, <2>1, LockMoves DEF StepOf
  <2>4. TypeOK'
    BY <2>1, <2>2, LockTypeAfterStep DEF Labels, Gets, Atomic!Calls
  <2>5. ThreadInv(t)'
    BY <2>1, <2>2, <2>3 DEF ThreadInv, CallFits, LockFits, MapFits, FoundFits
  <2>. QED  BY <2>1, <2>3, <2>4, <2>5
<1>. QED  BY <1>1, <1>2, <1>3

(* Waiting for the lock changes nothing of the call.                        *)
LEMMA WaitKeeps ==
  ASSUME CacheInv, CountInv', NEW t \in Threads,
         InLock(t) \/ (SpuriousWakeup(t) /\ UNCHANGED bodyVars)
  PROVE  CacheInv'
<1>1. UNCHANGED bodyVars
  BY DEF InLock
<1>2. OthersWoken(t) /\ (Woken(t) \/ (at[t] = "rdAwake" /\ at'[t] = "reading")
        \/ (at[t] = "wrAwake" /\ at'[t] = "writing")
        \/ (at[t] = "rdAwake" /\ at'[t] = "rdSleep")
        \/ (at[t] = "wrAwake" /\ at'[t] = "wrSleep"))
  BY LockMoves DEF InLock, CacheInv, CountInv
<1>. USE DEF bodyVars
<1>3. \A u \in Threads : /\ step'[u] = step[u] /\ call'[u] = call[u] /\ found'[u] = found[u]
                         /\ KeyOf(u)' = KeyOf(u)
  BY <1>1 DEF KeyOf
<1>4. ASSUME NEW u \in Threads
      PROVE  ThreadInv(u)'
  <2>1. ThreadInv(u)
    BY DEF CacheInv
  <2>2. CASE Woken(u)
    BY <1>1, <1>3, <2>1, <2>2, BystanderKeeps
  <2>3. CASE ~Woken(u)
    <3>1. u = t /\ at[u] \in {"rdAwake", "wrAwake"}
      BY <1>2, <2>3 DEF OthersWoken
    <3>2. CallFits(u)' /\ FoundFits(u)' /\ MapFits(u)'
      BY <1>1, <1>3, <2>1 DEF ThreadInv, CallFits, FoundFits, MapFits
    <3>3. LockFits(u)'
      BY <1>2, <1>3, <2>1, <2>3, <3>1 DEF ThreadInv, LockFits
    <3>. QED  BY <3>2, <3>3 DEF ThreadInv
  <2>. QED  BY <2>2, <2>3
<1>5. SizeInv'
  BY <1>1, <1>3 DEF CacheInv, SizeInv, SizeFits, nEntries
<1>6. TypeOK'
  BY <1>1, LockTypeAfterStep DEF CacheInv, TypeOK
<1>. QED  BY <1>1, <1>4, <1>5, <1>6 DEF CacheInv

(* The lookup only reads.                                                   *)
LEMMA LookupKeeps ==
  ASSUME CacheInv, CountInv', NEW t \in Threads, Find(t) \/ Compare(t) \/ Copy(t)
  PROVE  CacheInv'
<1>. USE DEF Body, Goto
<1>1. /\ UNCHANGED <<map, size, call, lockVars>>
      /\ step[t] \in {"find", "compare", "copy"}
      /\ at[t] = "reading"
  BY DEF Find, Compare, Copy
<1>2. ThreadInv(t) /\ call[t] \in Gets /\ TypeOK
  BY <1>1 DEF CacheInv, ThreadInv, CallFits
<1>3. /\ StepOf(t) /\ at'[t] = "reading"
      /\ step' \in [Threads -> Labels] /\ step'[t] \in {"compare", "copy", "unlock"}
  BY <1>1, <1>2 DEF Find, Compare, Copy, StepOf, OthersWoken, Woken, lockVars, TypeOK, Labels
<1>4. /\ call'[t] = call[t]
      /\ KeyOf(t)' = KeyOf(t)
  BY <1>1 DEF KeyOf
<1>5. MapFits(t)'
  BY <1>1, <1>2, <1>4 DEF MapFits, Find, Compare, Copy, TypeOK, ThreadInv
<1>6. FoundFits(t)' /\ found' \in [Threads -> Atomic!Answers]
  <2>1. CASE Find(t) \/ Compare(t)
    <3>1. /\ step'[t] = "unlock" => found'[t] = Atomic!Miss
          /\ step'[t] # "unlock" => found'[t] = Atomic!NoAnswer
      BY <1>2, <2>1 DEF Find, Compare, TypeOK, ThreadInv, FoundFits
    <3>2. found' \in [Threads -> Atomic!Answers]
      BY <1>2, <2>1 DEF Find, Compare, TypeOK, Atomic!Answers
    <3>. QED  BY <1>2, <1>4, <3>1, <3>2 DEF FoundFits
  <2>2. CASE Copy(t)
    <3>1. map[KeyOf(t)] \in Items /\ map[KeyOf(t)].input = call[t].input
      BY <1>2, <2>2 DEF Copy, ThreadInv, MapFits, TypeOK
    <3>2. found' = [found EXCEPT ![t] = Atomic!Hit(map[KeyOf(t)])] /\ step'[t] = "unlock"
      BY <1>2, <2>2 DEF Copy, TypeOK
    <3>3. found'[t] = Atomic!Hit(map[KeyOf(t)])
      BY <1>2, <3>2 DEF TypeOK
    <3>4. Atomic!Hit(map[KeyOf(t)]) \in Atomic!Answers
      BY <3>1 DEF Atomic!Answers
    <3>5. found' \in [Threads -> Atomic!Answers]
      BY <1>2, <3>2, <3>4 DEF TypeOK
    <3>6. FoundFits(t)'
      BY <1>2, <1>4, <3>1, <3>2, <3>3 DEF FoundFits
    <3>. QED  BY <3>5, <3>6
  <2>. QED  BY <2>1, <2>2
<1>7. ThreadInv(t)'
  BY <1>2, <1>3, <1>4, <1>5, <1>6 DEF ThreadInv, CallFits, LockFits
<1>8. TypeOK'
  BY <1>1, <1>2, <1>3, <1>6, LockTypeAfterStep DEF TypeOK
<1>. QED  BY <1>1, <1>3, <1>7, <1>8, QuietStep DEF MidChange

(* The return.                                                              *)
LEMMA LeaveKeeps ==
  ASSUME CacheInv, CountInv', NEW t \in Threads, Leave(t)
  PROVE  CacheInv'
<1>. USE DEF Goto
<1>1. TypeOK /\ at \in [Threads -> Places]
  BY DEF CacheInv, CountInv
<1>2. /\ StepOf(t) /\ at'[t] = "out" /\ step[t] = "unlock" /\ step'[t] = "idle"
      /\ call'[t] = NoCall /\ found'[t] = Atomic!NoAnswer
  BY <1>1, LockMoves DEF Leave, StepOf, TypeOK
<1>3. ThreadInv(t)'
  BY <1>2 DEF ThreadInv, CallFits, LockFits, MapFits, FoundFits
<1>4. TypeOK'
  BY <1>1, LockTypeAfterStep DEF Leave, TypeOK, Labels, Atomic!Answers
<1>. QED  BY <1>2, <1>3, <1>4, QuietStep DEF MidChange, Leave

(* The statements between wrlock() and unlock().                            *)
WriterBody(t) ==
  AddTest(t) \/ AddEmplace(t) \/ AddCount(t) \/ ReplaceTest(t) \/ Erase(t) \/ ReplaceEmplace(t)

LEMMA WriterContext ==
  ASSUME CacheInv, NEW t \in Threads, WriterBody(t)
  PROVE  /\ at[t] = "writing"
         /\ UNCHANGED <<lockVars, call, found>>
         /\ StepOf(t)
         /\ KeyOf(t)' = KeyOf(t)
         /\ KeyOf(t) \in Keys
         /\ call[t] \in Adds \cup Replaces
         /\ call[t].item \in Items
         /\ found[t] = Atomic!NoAnswer
         /\ ThreadInv(t)
         /\ SizeFits(t)
         /\ size \in 0 .. MaxEntries
         /\ nEntries \in Nat
<1>. USE DEF Body, Goto
<1>1. /\ at[t] = "writing"
      /\ UNCHANGED <<lockVars, call, found>>
      /\ step[t] \in {"addTest", "addEmplace", "addCount", "replaceTest", "erase", "replaceEmplace"}
  BY DEF WriterBody, AddTest, AddEmplace, AddCount, ReplaceTest, Erase, ReplaceEmplace
<1>2. \A u \in Threads \ {t} : step'[u] = step[u]
  BY DEF WriterBody, AddTest, AddEmplace, AddCount, ReplaceTest, Erase, ReplaceEmplace, CacheInv, TypeOK
<1>3. StepOf(t)
  BY <1>1, <1>2 DEF StepOf, OthersWoken, Woken, lockVars
<1>4. ThreadInv(t) /\ call[t] \in Adds \cup Replaces /\ found[t] = Atomic!NoAnswer
  BY <1>1 DEF CacheInv, ThreadInv, CallFits, FoundFits
<1>5. KeyOf(t) \in Keys /\ call[t].item \in Items
  BY <1>4, HashAssumption DEF KeyOf, Adds, Replaces
<1>6. KeyOf(t)' = KeyOf(t)
  BY <1>1 DEF KeyOf
<1>7. SizeFits(t) /\ size \in 0 .. MaxEntries /\ nEntries \in Nat
  BY FS_CardinalityType DEF CacheInv, SizeInv, nEntries
<1>. QED  BY <1>1, <1>3, <1>4, <1>5, <1>6, <1>7

(* The writer is the only one that can be in the middle of a change.        *)
LEMMA WriterCounts ==
  ASSUME CacheInv, NEW t \in Threads, at[t] = "writing", step[t] \notin MidChange
  PROVE  size = nEntries
BY WriterIsAlone DEF CacheInv, SizeInv, MidChange, Outside

LEMMA AfterPut ==
  ASSUME NEW f, IsFiniteSet(DOMAIN f), NEW k, NEW v
  PROVE  /\ IsFiniteSet(DOMAIN Atomic!Put(f, k, v))
         /\ DOMAIN Atomic!Put(f, k, v) = DOMAIN f \cup {k}
         /\ Cardinality(DOMAIN Atomic!Put(f, k, v))
              = IF k \in DOMAIN f THEN Cardinality(DOMAIN f) ELSE Cardinality(DOMAIN f) + 1
<1>1. DOMAIN Atomic!Put(f, k, v) = DOMAIN f \cup {k}
  BY DEF Atomic!Put
<1>. QED  BY <1>1, FS_AddElement

LEMMA AddTestKeeps ==
  ASSUME CacheInv, CountInv', NEW t \in Threads, AddTest(t)
  PROVE  CacheInv'
<1>. USE WriterContext DEF WriterBody, Goto
<1>1. /\ step[t] = "addTest" /\ size = nEntries /\ UNCHANGED <<map, size>>
      /\ step'[t] \in {"unlock", "addEmplace"}
      /\ step'[t] = "addEmplace" => size < MaxEntries /\ KeyOf(t) \notin DOMAIN map
      /\ TypeOK'
  BY WriterCounts, LockTypeAfterStep DEF AddTest, Body, CacheInv, TypeOK, MidChange, Labels
<1>2. /\ call'[t] = call[t] /\ found'[t] = Atomic!NoAnswer /\ at'[t] = "writing"
      /\ call[t] \in Adds /\ call[t] \notin Gets
  BY <1>1 DEF AddTest, lockVars, ThreadInv, CallFits, Adds, Gets
<1>3. ThreadInv(t)'
  BY <1>1, <1>2 DEF AddTest, ThreadInv, CallFits, LockFits, MapFits, FoundFits
<1>4. SizeFits(t)' /\ nEntries' = nEntries
  BY <1>1 DEF SizeFits, nEntries
<1>. QED  BY <1>1, <1>3, <1>4, WriterStep DEF AddTest, CacheInv

LEMMA ReplaceTestKeeps ==
  ASSUME CacheInv, CountInv', NEW t \in Threads, ReplaceTest(t)
  PROVE  CacheInv'
<1>. USE WriterContext DEF WriterBody, Goto
<1>1. /\ step[t] = "replaceTest" /\ size = nEntries /\ UNCHANGED map
      /\ \/ step'[t] = "unlock" /\ size' = size
         \/ /\ step'[t] = "erase" /\ size < MaxEntries
            /\ size' = IF KeyOf(t) \in DOMAIN map THEN size ELSE size + 1
      /\ TypeOK'
  BY WriterCounts, LockTypeAfterStep DEF ReplaceTest, Body, CacheInv, TypeOK, MidChange, Labels
<1>2. /\ call'[t] = call[t] /\ found'[t] = Atomic!NoAnswer /\ at'[t] = "writing"
      /\ call[t] \in Replaces /\ call[t] \notin Gets
  BY <1>1 DEF ReplaceTest, lockVars, ThreadInv, CallFits, Replaces, Gets
<1>3. ThreadInv(t)'
  BY <1>1, <1>2 DEF ReplaceTest, ThreadInv, CallFits, LockFits, MapFits, FoundFits
<1>4. SizeFits(t)' /\ nEntries' = nEntries /\ size' \in 0 .. MaxEntries
  BY <1>1, MaxEntriesAssumption DEF SizeFits, nEntries
<1>. QED  BY <1>1, <1>3, <1>4, WriterStep DEF MidChange, CacheInv

LEMMA AddCountKeeps ==
  ASSUME CacheInv, CountInv', NEW t \in Threads, AddCount(t)
  PROVE  CacheInv'
<1>. USE WriterContext DEF WriterBody, Goto
<1>1. /\ step[t] = "addCount" /\ UNCHANGED map /\ size' = size + 1 /\ step'[t] = "unlock"
      /\ TypeOK'
  BY LockTypeAfterStep DEF AddCount, Body, CacheInv, TypeOK, Labels
<1>2. /\ call'[t] = call[t] /\ found'[t] = Atomic!NoAnswer /\ at'[t] = "writing"
      /\ call[t] \in Adds /\ call[t] \notin Gets
  BY <1>1 DEF AddCount, lockVars, ThreadInv, CallFits, Adds, Gets
<1>3. ThreadInv(t)'
  BY <1>1, <1>2 DEF AddCount, ThreadInv, CallFits, LockFits, MapFits, FoundFits
<1>4. SizeFits(t)' /\ size' = nEntries' /\ size' \in 0 .. MaxEntries
  BY <1>1, MaxEntriesAssumption DEF SizeFits, nEntries
<1>. QED  BY <1>1, <1>3, <1>4, WriterStep DEF AddCount, CacheInv

LEMMA EraseKeeps ==
  ASSUME CacheInv, CountInv', NEW t \in Threads, Erase(t)
  PROVE  CacheInv'
<1>. USE WriterContext DEF WriterBody, Goto
<1>1. /\ step[t] = "erase" /\ step'[t] = "replaceEmplace" /\ UNCHANGED <<call, size>>
      /\ DOMAIN map' = DOMAIN map \ {KeyOf(t)}
      /\ \A k \in DOMAIN map' : map'[k] = map[k]
  BY DEF Erase, Body, CacheInv, TypeOK
<1>2. TypeOK'
  BY <1>1, LockTypeAfterStep DEF Erase, CacheInv, TypeOK, Labels
<1>3. /\ call'[t] = call[t] /\ found'[t] = Atomic!NoAnswer /\ at'[t] = "writing"
      /\ call[t] \in Replaces /\ call[t] \notin Gets
  BY <1>1 DEF Erase, lockVars, ThreadInv, CallFits, Replaces, Gets
<1>4. ThreadInv(t)'
  BY <1>1, <1>3 DEF Erase, ThreadInv, CallFits, LockFits, MapFits, FoundFits
<1>5. /\ IsFiniteSet(DOMAIN map')
      /\ nEntries' = IF KeyOf(t) \in DOMAIN map THEN nEntries - 1 ELSE nEntries
  BY <1>1, FS_RemoveElement DEF nEntries, CacheInv
<1>6. SizeFits(t)' /\ size' \in 0 .. MaxEntries
  BY <1>1, <1>5 DEF SizeFits
<1>. QED  BY <1>1, <1>2, <1>4, <1>5, <1>6, WriterStep DEF MidChange

LEMMA EmplaceKeeps ==
  ASSUME CacheInv, CountInv', NEW t \in Threads, AddEmplace(t) \/ ReplaceEmplace(t)
  PROVE  CacheInv'
<1>0. WriterBody(t)
  BY DEF WriterBody
<1>. USE DEF Goto
<1>1. /\ \/ step[t] = "addEmplace" /\ step'[t] = "addCount" /\ call[t] \in Adds
         \/ step[t] = "replaceEmplace" /\ step'[t] = "unlock" /\ call[t] \in Replaces
      /\ UNCHANGED <<call, size>>
      /\ step' \in [Threads -> Labels]
  BY <1>0, WriterContext DEF AddEmplace, ReplaceEmplace, Body, CacheInv, TypeOK, Labels, ThreadInv, CallFits
<1>2. KeyOf(t) \notin DOMAIN map
  BY <1>0, <1>1, WriterContext DEF ThreadInv, MapFits
<1>3. map' = Atomic!Put(map, KeyOf(t), call[t].item)
  BY <1>2 DEF AddEmplace, ReplaceEmplace, Emplace
<1>4. /\ IsFiniteSet(DOMAIN map')
      /\ DOMAIN map' = DOMAIN map \cup {KeyOf(t)}
      /\ \A k \in DOMAIN map' : map'[k] = IF k = KeyOf(t) THEN call[t].item ELSE map[k]
      /\ nEntries' = nEntries + 1
  <2>1. ASSUME NEW K, NEW v, K \notin DOMAIN map, map' = Atomic!Put(map, K, v)
        PROVE  /\ IsFiniteSet(DOMAIN map')
               /\ DOMAIN map' = DOMAIN map \cup {K}
               /\ \A k \in DOMAIN map' : map'[k] = IF k = K THEN v ELSE map[k]
               /\ nEntries' = nEntries + 1
    <3>1. IsFiniteSet(DOMAIN map)
      BY DEF CacheInv
    <3>2. \A k \in DOMAIN map' : map'[k] = IF k = K THEN v ELSE map[k]
      BY <2>1 DEF Atomic!Put
    <3>. QED  BY <2>1, <3>1, <3>2, AfterPut DEF nEntries
  <2>. QED  BY <1>2, <1>3, <2>1
<1>5. TypeOK'
  BY <1>0, <1>1, <1>4, WriterContext, LockTypeAfterStep DEF CacheInv, TypeOK
<1>6. /\ call'[t] = call[t] /\ found'[t] = Atomic!NoAnswer /\ at'[t] = "writing"
      /\ call[t] \notin Gets
  BY <1>0, <1>1, WriterContext DEF lockVars, Adds, Replaces, Gets
<1>7. ThreadInv(t)'
  BY <1>0, <1>1, <1>6, WriterContext DEF ThreadInv, CallFits, LockFits, MapFits, FoundFits
<1>8. SizeFits(t)' /\ (step'[t] \notin MidChange => size' = nEntries') /\ size' \in 0 .. MaxEntries
  BY <1>0, <1>1, <1>4, WriterContext DEF SizeFits, MidChange
<1>. QED  BY <1>0, <1>4, <1>5, <1>7, <1>8, WriterContext, WriterStep

LEMMA CacheInvInductive ==
  /\ Init => CacheInv
  /\ CacheInv /\ [Next]_vars => CacheInv'
<1>1. ASSUME Init
      PROVE  CacheInv
  <2>1. CountInv /\ LockTypeOK
    BY <1>1, CountInvInductive, CountsToThreads DEF Init
  <2>2. DOMAIN map = {}
    BY <1>1 DEF Init
  <2>3. IsFiniteSet(DOMAIN map) /\ nEntries = 0
    BY <2>2, FS_EmptySet DEF nEntries
  <2>4. TypeOK
    BY <1>1, <2>1, <2>2 DEF Init, TypeOK, Labels, Atomic!Answers
  <2>5. ASSUME NEW t \in Threads
        PROVE  ThreadInv(t) /\ SizeFits(t)
    BY <1>1 DEF Init, LockInit, ThreadInv, CallFits, LockFits, MapFits, FoundFits, SizeFits
  <2>. QED
    BY <1>1, <2>1, <2>3, <2>4, <2>5, MaxEntriesAssumption DEF Init, CacheInv, SizeInv
<1>2. ASSUME CacheInv, [Next]_vars
      PROVE  CacheInv'
  <2>1. CountInv'
    BY <1>2, CacheStepIsLockStep, CountInvInductive DEF CacheInv
  <2>2. CASE UNCHANGED vars
    <3>1. \A t \in Threads : ThreadInv(t)' /\ SizeFits(t)'
      BY <1>2, <2>2 DEF vars, lockVars, CacheInv, ThreadInv, CallFits, LockFits, MapFits,
                        FoundFits, SizeInv, SizeFits, nEntries, KeyOf
    <3>. QED
      BY <1>2, <2>1, <2>2, <3>1, LockTypeAfterStep DEF vars, CacheInv, TypeOK, SizeInv, nEntries
  <2>3. CASE Next
    BY <1>2, <2>1, <2>3, BeginKeeps, WaitKeeps, LookupKeeps, LeaveKeeps, AddTestKeeps,
       ReplaceTestKeeps, AddCountKeeps, EraseKeeps, EmplaceKeeps DEF Next, InBody
  <2>. QED  BY <1>2, <2>2, <2>3
<1>. QED  BY <1>1, <1>2

LEMMA CacheInvariant == Spec => []CacheInv
BY CacheInvInductive, PTL DEF Spec

(* The types of the map, its size and the calls in progress.                *)
THEOREM CacheTypeCorrect == Spec => []TypeOK
<1>1. CacheInv => TypeOK
  BY DEF CacheInv
<1>. QED  BY <1>1, CacheInvariant, PTL

(* The cache uses the lock as its proofs expect, so that what is proved of  *)
(* RWLock alone holds of the cache: while one thread writes no other is in. *)
THEOREM CacheExcludes == Spec => []MutualExclusion
<1>1. CacheInv => MutualExclusion
  BY CountsToThreads DEF CacheInv
<1>. QED  BY <1>1, CacheInvariant, PTL

(* Nobody sleeps on a lock that is free for it while the cache is in use.   *)
THEOREM CacheLosesNoWakeup == Spec => []NoLostWakeup
<1>1. Spec => LockSpec
  <2>1. Init => LockInit
    BY DEF Init
  <2>. QED  BY <2>1, CacheStepIsLockStep, PTL DEF Spec, LockSpec
<1>. QED  BY <1>1, LockLosesNoWakeup, PTL

(* The entry that Get found is still there when it is compared and copied:  *)
(* no Replace erases it in between (tiling_cache.h:66-77).                  *)
THEOREM CacheIteratorStaysValid == Spec => []IteratorStaysValid
<1>1. CacheInv => IteratorStaysValid
  BY DEF CacheInv, IteratorStaysValid, ThreadInv, MapFits
<1>. QED  BY <1>1, CacheInvariant, PTL

(* Get answers with an item of the input it was asked for, whichever inputs *)
(* share a hash (tiling_cache.h:71).                                        *)
THEOREM CacheHitIsForTheInput == Spec => []HitIsForTheInput
<1>1. ASSUME CacheInv, NEW t \in Threads, found[t].kind = "hit"
      PROVE  found[t].item.input = call[t].input
  <2>1. Atomic!NoAnswer.kind # "hit" /\ Atomic!Miss.kind # "hit"
    BY DEF Atomic!NoAnswer, Atomic!Miss
  <2>2. FoundFits(t)
    BY <1>1 DEF CacheInv, ThreadInv
  <2>3. PICK item \in Items : found[t] = Atomic!Hit(item) /\ item.input = call[t].input
    BY <1>1, <2>1, <2>2 DEF FoundFits
  <2>. QED  BY <2>3 DEF Atomic!Hit
<1>2. CacheInv => HitIsForTheInput
  BY <1>1 DEF HitIsForTheInput
<1>. QED  BY <1>2, CacheInvariant, PTL
-----------------------------------------------------------------------------
(***************************************************************************)
(* The refinement.  An Add or a Replace takes effect at its test, a lookup *)
(* at its last look at the map.                                            *)
(***************************************************************************)
Decided == {"addEmplace", "erase", "replaceEmplace"}

LEMMA NobodyCommitted ==
  ASSUME CacheInv, NEW t \in Threads, at[t] \in {"reading", "writing"}, step[t] \notin Decided
  PROVE  Committed = {} /\ VisibleMap = map
<1>1. ASSUME NEW u \in Committed
      PROVE  FALSE
  <2>1. u # t /\ at[u] = "writing"
    BY <1>1 DEF Committed, Decided, CacheInv, ThreadInv, LockFits
  <2>. QED  BY <1>1, <2>1, CountsToThreads DEF CacheInv, MutualExclusion, Committed
<1>. QED  BY <1>1 DEF VisibleMap

LEMMA OneCommitted ==
  ASSUME CacheInv, NEW t \in Threads, step[t] \in Decided
  PROVE  Committed = {t} /\ VisibleMap = Atomic!Put(map, KeyOf(t), call[t].item)
<1>1. at[t] = "writing"
  BY DEF CacheInv, ThreadInv, LockFits, Decided
<1>2. Committed = {t}
  BY <1>1, WriterIsAlone DEF Committed, Decided, Outside
<1>3. (CHOOSE w \in Committed : TRUE) = t
  BY <1>2
<1>. QED  BY <1>2, <1>3 DEF VisibleMap

(* What others see of the map does not depend on a step that neither        *)
(* touches it nor decides to.                                               *)
LEMMA SameVisibleMap ==
  ASSUME NEW t \in Threads, StepOf(t), map' = map, step[t] \notin Decided, step'[t] \notin Decided
  PROVE  VisibleMap' = VisibleMap
<1>1. Committed' = Committed /\ t \notin Committed
  BY DEF Committed, Decided, StepOf
<1>2. CASE Committed = {}
  BY <1>1, <1>2 DEF VisibleMap
<1>3. CASE Committed # {}
  <2>. DEFINE w == CHOOSE u \in Committed : TRUE
  <2>1. w \in Committed
    BY <1>3
  <2>2. w \in Threads \ {t}
    BY <1>1, <2>1 DEF Committed
  <2>. HIDE DEF w
  <2>3. call'[w] = call[w]
    BY <2>2 DEF StepOf
  <2>4. VisibleMap = Atomic!Put(map, KeyOf(w), call[w].item)
    BY <1>3 DEF VisibleMap, w
  <2>5. VisibleMap' = Atomic!Put(map', HashOf[call'[w].input], call'[w].item)
    BY <1>1, <1>3 DEF VisibleMap, w, KeyOf
  <2>. QED  BY <2>3, <2>4, <2>5 DEF KeyOf
<1>. QED  BY <1>2, <1>3

(* One thread's answer at a time. *)
LEMMA AnswerStep ==
  ASSUME NEW t \in Threads, StepOf(t)
  PROVE  /\ VisibleAnswer' = [VisibleAnswer EXCEPT ![t] = VisibleAnswer'[t]]
         /\ VisibleAnswer'[t] = VisibleAnswer[t] => VisibleAnswer' = VisibleAnswer
<1>1. \A u \in Threads \ {t} : VisibleAnswer'[u] = VisibleAnswer[u]
  BY DEF VisibleAnswer, StepOf
<1>2. /\ VisibleAnswer = [u \in Threads |-> VisibleAnswer[u]]
      /\ VisibleAnswer' = [u \in Threads |-> VisibleAnswer'[u]]
  BY DEF VisibleAnswer
<1>. QED  BY <1>1, <1>2

AbsStep == [Linear!AbsNext]_(Linear!cacheVars)

LEMMA BeginStarts ==
  ASSUME CacheInv, NEW t \in Threads, BeginAdd(t) \/ BeginReplace(t) \/ BeginGet(t)
  PROVE  VisibleMap' = VisibleMap /\ \E c \in Linear!Calls : Linear!Start(t, c)
<1>. USE DEF Enter, Goto
<1>1. PICK c \in Linear!Calls, label \in {"addTest", "replaceTest", "find"} :
        Enter(t, c, label) /\ (RdLock(t) \/ WrLock(t))
  BY DEF BeginAdd, BeginReplace, BeginGet, Linear!Calls, Items
<1>2. /\ StepOf(t) /\ map' = map /\ step[t] = "idle" /\ step'[t] = label
      /\ call[t] = NoCall /\ call' = [call EXCEPT ![t] = c] /\ found' = found
  BY <1>1, LockMoves DEF StepOf, CacheInv, CountInv, TypeOK, ThreadInv, CallFits
<1>3. VisibleMap' = VisibleMap
  BY <1>2, SameVisibleMap DEF Decided
<1>4. VisibleAnswer' = VisibleAnswer
  BY <1>2 DEF VisibleAnswer, StepOf
<1>. QED
  BY <1>2, <1>3, <1>4 DEF Linear!Start, Linear!NoCall, NoCall, Atomic!NoCall

LEMMA WaitStutters ==
  ASSUME UNCHANGED bodyVars
  PROVE  UNCHANGED <<VisibleMap, call, VisibleAnswer>>
BY DEF bodyVars, VisibleMap, VisibleAnswer, Committed, KeyOf

(* A test decides at once what the call does to the map. *)
LEMMA TestTakesEffect ==
  ASSUME CacheInv, CacheInv', NEW t \in Threads, AddTest(t) \/ ReplaceTest(t)
  PROVE  Linear!TakeEffectOnMap(t)
<1>0. WriterBody(t)
  BY DEF WriterBody
<1>1. /\ at[t] = "writing" /\ StepOf(t) /\ call' = call /\ found' = found /\ map' = map
      /\ at' = at /\ size \in 0 .. MaxEntries
      /\ found[t] = Atomic!NoAnswer /\ KeyOf(t)' = KeyOf(t)
  BY <1>0, WriterContext DEF AddTest, ReplaceTest, lockVars
<1>2. \/ step[t] = "addTest" /\ call[t] \in Adds
      \/ step[t] = "replaceTest" /\ call[t] \in Replaces
  BY DEF AddTest, ReplaceTest, Body, CacheInv, ThreadInv, CallFits
<1>3. VisibleMap = map /\ size = nEntries
  BY <1>1, <1>2, NobodyCommitted, WriterCounts DEF Decided, MidChange
<1>4. Linear!Changes(call[t]) <=> step'[t] \in Decided
  <2>1. Linear!HasRoom <=> size < MaxEntries
    <3>1. ASSUME NEW S
          PROVE  Linear!Cardinality(S) = Cardinality(S)
      BY DEF Linear!Cardinality, Cardinality
    <3>. QED  BY <1>3, <3>1 DEF Linear!HasRoom, nEntries
  <2>2. CASE AddTest(t)
    <3>1. /\ step[t] = "addTest"
          /\ \/ (size >= MaxEntries \/ KeyOf(t) \in DOMAIN map) /\ step'[t] = "unlock"
             \/ size < MaxEntries /\ KeyOf(t) \notin DOMAIN map /\ step'[t] = "addEmplace"
      BY <2>2 DEF AddTest, Body, Goto, CacheInv, TypeOK
    <3>. QED
      BY <1>1, <1>2, <1>3, <2>1, <3>1, MaxEntriesAssumption
         DEF Linear!Changes, Decided, Adds, KeyOf
  <2>3. CASE ReplaceTest(t)
    <3>1. /\ step[t] = "replaceTest"
          /\ \/ size >= MaxEntries /\ step'[t] = "unlock"
             \/ size < MaxEntries /\ step'[t] = "erase"
      BY <2>3 DEF ReplaceTest, Body, Goto, CacheInv, TypeOK
    <3>. QED
      BY <1>1, <1>2, <1>3, <2>1, <3>1, MaxEntriesAssumption
         DEF Linear!Changes, Decided, Replaces, KeyOf
  <2>. QED  BY <2>2, <2>3
<1>5. step'[t] \in Decided => VisibleMap' = Linear!Put(VisibleMap, KeyOf(t), call[t].item)
  <2>. SUFFICES ASSUME step'[t] \in Decided
                PROVE  VisibleMap' = Linear!Put(VisibleMap, KeyOf(t), call[t].item)
    OBVIOUS
  <2>1. Committed' = {t}
    BY <1>1, WriterIsAlone DEF Committed, Decided, Outside, StepOf
  <2>2. VisibleMap' = Atomic!Put(map', KeyOf(t)', call'[t].item)
    BY <2>1 DEF VisibleMap
  <2>. QED  BY <1>1, <1>3, <2>2 DEF Linear!Put, Atomic!Put
<1>6. step'[t] \notin Decided => VisibleMap' = VisibleMap
  BY <1>1, <1>2, SameVisibleMap DEF Decided
<1>7. step'[t] \in {"unlock"} \cup Decided
  BY DEF AddTest, ReplaceTest, Goto, CacheInv, TypeOK, Decided
<1>8. /\ VisibleAnswer[t] = Linear!NoAnswer
      /\ VisibleAnswer' = [VisibleAnswer EXCEPT ![t] = Linear!Returned]
  <2>1. VisibleAnswer[t] = Linear!NoAnswer
    BY <1>1, <1>2 DEF VisibleAnswer, Linear!NoAnswer, Atomic!NoAnswer
  <2>2. VisibleAnswer'[t] = Linear!Returned
    BY <1>1, <1>2, <1>7
       DEF VisibleAnswer, Linear!Returned, Atomic!Returned, Decided, Adds, Replaces
  <2>. QED  BY <1>1, <2>1, <2>2, AnswerStep
<1>9. call[t].op \in {"Add", "Replace"}
  BY <1>2 DEF Adds, Replaces
<1>. QED
  BY <1>1, <1>4, <1>5, <1>6, <1>8, <1>9 DEF Linear!TakeEffectOnMap, KeyOf

(* The statements that carry the decision out are invisible. *)
LEMMA CarryingOutStutters ==
  ASSUME CacheInv, NEW t \in Threads,
         AddEmplace(t) \/ AddCount(t) \/ Erase(t) \/ ReplaceEmplace(t)
  PROVE  UNCHANGED <<VisibleMap, call, VisibleAnswer>>
<1>0. WriterBody(t)
  BY DEF WriterBody
<1>1. /\ at[t] = "writing" /\ StepOf(t) /\ call' = call /\ found' = found /\ at' = at
      /\ KeyOf(t)' = KeyOf(t)
      /\ call[t] \in Adds \cup Replaces
  BY <1>0, WriterContext DEF lockVars
<1>2. VisibleAnswer' = VisibleAnswer
  <2>1. VisibleAnswer'[t] = VisibleAnswer[t]
    BY <1>1 DEF AddEmplace, AddCount, Erase, ReplaceEmplace, Body, Goto, VisibleAnswer, Adds,
                Replaces, CacheInv, TypeOK
  <2>. QED  BY <1>1, <2>1, AnswerStep
<1>3. VisibleMap' = VisibleMap
  <2>1. CASE AddCount(t)
    BY <1>1, <2>1, SameVisibleMap DEF AddCount, Body, Goto, CacheInv, TypeOK, Decided
  <2>2. CASE AddEmplace(t) \/ ReplaceEmplace(t)
    <3>1. step[t] \in {"addEmplace", "replaceEmplace"} /\ step'[t] \in {"addCount", "unlock"}
      BY <2>2 DEF AddEmplace, ReplaceEmplace, Body, Goto, CacheInv, TypeOK
    <3>2. KeyOf(t) \notin DOMAIN map
      BY <3>1 DEF CacheInv, ThreadInv, MapFits
    <3>3. map' = Atomic!Put(map, KeyOf(t), call[t].item)
      BY <2>2, <3>2 DEF AddEmplace, ReplaceEmplace, Emplace
    <3>4. Committed' = {}
      BY <1>1, <3>1, WriterIsAlone DEF Committed, Outside, StepOf
    <3>. QED  BY <3>1, <3>3, <3>4, OneCommitted DEF VisibleMap, Decided
  <2>3. CASE Erase(t)
    <3>1. /\ step[t] = "erase" /\ step'[t] = "replaceEmplace"
          /\ map' = [k \in DOMAIN map \ {KeyOf(t)} |-> map[k]]
      BY <2>3 DEF Erase, Body, Goto, CacheInv, TypeOK
    <3>2. Committed' = {t}
      BY <1>1, <3>1, WriterIsAlone DEF Committed, Outside, StepOf
    <3>3. VisibleMap' = Atomic!Put(map', KeyOf(t), call[t].item)
      BY <1>1, <3>2 DEF VisibleMap
    <3>4. Atomic!Put(map', KeyOf(t), call[t].item) = Atomic!Put(map, KeyOf(t), call[t].item)
      BY <3>1 DEF Atomic!Put
    <3>. QED  BY <3>1, <3>3, <3>4, OneCommitted DEF Decided
  <2>. QED  BY <2>1, <2>2, <2>3
<1>. QED  BY <1>1, <1>2, <1>3

LEMMA LookupTakesEffect ==
  ASSUME CacheInv, NEW t \in Threads, Find(t) \/ Compare(t) \/ Copy(t)
  PROVE  /\ VisibleMap' = VisibleMap
         /\ \/ Linear!TakeEffectAsLookup(t)
            \/ UNCHANGED <<VisibleMap, call, VisibleAnswer>>
<1>. USE DEF Body, Goto
<1>1. /\ UNCHANGED <<map, size, call, lockVars>>
      /\ step[t] \in {"find", "compare", "copy"}
      /\ step'[t] \in {"compare", "copy", "unlock"}
      /\ at[t] = "reading"
      /\ TypeOK /\ ThreadInv(t) /\ call[t] \in Gets
  BY DEF Find, Compare, Copy, CacheInv, TypeOK, ThreadInv, CallFits
<1>2. StepOf(t)
  BY <1>1 DEF Find, Compare, Copy, StepOf, OthersWoken, Woken, lockVars, TypeOK
<1>3. VisibleMap' = VisibleMap /\ VisibleMap = map
  BY <1>1, <1>2, SameVisibleMap, NobodyCommitted DEF Decided
<1>4. /\ VisibleAnswer[t] = Linear!NoAnswer
      /\ VisibleAnswer'[t] = found'[t]
  BY <1>1 DEF VisibleAnswer, ThreadInv, FoundFits, Linear!NoAnswer, Atomic!NoAnswer, Gets
<1>5. VisibleAnswer' = [VisibleAnswer EXCEPT ![t] = found'[t]]
  BY <1>2, <1>4, AnswerStep
<1>6. CASE step'[t] # "unlock"
  <2>1. found'[t] = found[t]
    BY <1>1, <1>6 DEF Find, Compare, Copy, TypeOK
  <2>2. found'[t] = VisibleAnswer[t]
    BY <1>1, <2>1 DEF VisibleAnswer, Gets
  <2>. QED  BY <1>1, <1>3, <1>5, <2>2 DEF VisibleAnswer
<1>7. CASE step'[t] = "unlock"
  <2>1. found'[t] = Linear!Lookup(call[t].input)
    <3>1. CASE Find(t)
      BY <1>1, <1>3, <1>7, <3>1
         DEF Find, TypeOK, Linear!Lookup, Linear!Miss, Atomic!Miss, KeyOf
    <3>2. CASE Compare(t)
      BY <1>1, <1>3, <1>7, <3>2
         DEF Compare, TypeOK, Linear!Lookup, Linear!Miss, Atomic!Miss, KeyOf
    <3>3. CASE Copy(t)
      BY <1>1, <1>3, <1>7, <3>3
         DEF Copy, TypeOK, Linear!Lookup, Linear!Hit, Atomic!Hit, KeyOf, ThreadInv, MapFits
    <3>. QED  BY <3>1, <3>2, <3>3
  <2>. QED  BY <1>1, <1>3, <1>4, <1>5, <2>1 DEF Linear!TakeEffectAsLookup, Gets
<1>. QED  BY <1>3, <1>6, <1>7

LEMMA LeaveFinishes ==
  ASSUME CacheInv, NEW t \in Threads, Leave(t)
  PROVE  VisibleMap' = VisibleMap /\ Linear!Finish(t)
<1>. USE DEF Goto
<1>1. /\ TypeOK /\ ThreadInv(t) /\ map' = map /\ step[t] = "unlock"
      /\ step'[t] = "idle" /\ call' = [call EXCEPT ![t] = NoCall] /\ call'[t] = NoCall
      /\ found'[t] = Atomic!NoAnswer /\ StepOf(t)
  BY LockMoves DEF Leave, StepOf, CacheInv, TypeOK, CountInv
<1>2. VisibleMap' = VisibleMap
  BY <1>1, SameVisibleMap DEF Decided
<1>3. VisibleAnswer[t] # Linear!NoAnswer
  <2>1. Atomic!Returned # Linear!NoAnswer /\ Atomic!Miss # Linear!NoAnswer
    BY DEF Atomic!Returned, Linear!NoAnswer, Atomic!Miss
  <2>2. \A item : Atomic!Hit(item) # Linear!NoAnswer
    BY DEF Atomic!Hit, Linear!NoAnswer
  <2>3. CASE call[t] \in Gets
    <3>1. VisibleAnswer[t] = found[t]
      BY <1>1, <2>3 DEF VisibleAnswer, Gets
    <3>. QED  BY <1>1, <2>1, <2>2, <2>3, <3>1 DEF ThreadInv, FoundFits
  <2>4. CASE call[t] \notin Gets
    <3>1. VisibleAnswer[t] = Atomic!Returned
      BY <1>1, <2>4 DEF VisibleAnswer, ThreadInv, CallFits, Adds, Replaces
    <3>. QED  BY <2>1, <3>1
  <2>. QED  BY <2>3, <2>4
<1>4. VisibleAnswer' = [VisibleAnswer EXCEPT ![t] = Linear!NoAnswer]
  <2>1. VisibleAnswer'[t] = Linear!NoAnswer
    BY <1>1 DEF VisibleAnswer, Linear!NoAnswer, Atomic!NoAnswer
  <2>. QED  BY <1>1, <2>1, AnswerStep
<1>. QED
  BY <1>1, <1>2, <1>3, <1>4 DEF Linear!Finish, NoCall, Atomic!NoCall, Linear!NoCall

(* Every step of the cache is a step of the atomic cache or invisible, and  *)
(* one that changes the visible map finds it below the limit.               *)
LEMMA StepImplementsAtomic ==
  ASSUME CacheInv, CacheInv', [Next]_vars
  PROVE  /\ AbsStep
         /\ VisibleMap' # VisibleMap => Cardinality(DOMAIN VisibleMap) < MaxEntries
<1>. USE DEF AbsStep, Linear!cacheVars
<1>1. CASE UNCHANGED vars
  <2>1. UNCHANGED bodyVars
    BY <1>1 DEF vars, bodyVars
  <2>. QED  BY <2>1, WaitStutters
<1>2. CASE Next
  <2>. PICK t \in Threads :
         \/ t \in Writers /\ BeginAdd(t)
         \/ t \in Writers /\ BeginReplace(t)
         \/ t \in Readers /\ BeginGet(t)
         \/ InLock(t)
         \/ InBody(t)
         \/ SpuriousWakeup(t) /\ UNCHANGED bodyVars
    BY <1>2 DEF Next
  <2>1. CASE BeginAdd(t) \/ BeginReplace(t) \/ BeginGet(t)
    BY <2>1, BeginStarts DEF Linear!AbsNext
  <2>2. CASE InLock(t) \/ (SpuriousWakeup(t) /\ UNCHANGED bodyVars)
    BY <2>2, WaitStutters DEF InLock
  <2>3. CASE AddTest(t) \/ ReplaceTest(t)
    <3>1. Linear!TakeEffectOnMap(t)
      BY <2>3, TestTakesEffect
    <3>2. ASSUME NEW S
          PROVE  Linear!Cardinality(S) = Cardinality(S)
      BY DEF Linear!Cardinality, Cardinality
    <3>3. VisibleMap' # VisibleMap => Cardinality(DOMAIN VisibleMap) < MaxEntries
      BY <3>1, <3>2 DEF Linear!TakeEffectOnMap, Linear!Changes, Linear!HasRoom
    <3>. QED  BY <3>1, <3>3 DEF Linear!AbsNext
  <2>4. CASE AddEmplace(t) \/ AddCount(t) \/ Erase(t) \/ ReplaceEmplace(t)
    BY <2>4, CarryingOutStutters
  <2>5. CASE Find(t) \/ Compare(t) \/ Copy(t)
    BY <2>5, LookupTakesEffect DEF Linear!AbsNext
  <2>6. CASE Leave(t)
    BY <2>6, LeaveFinishes DEF Linear!AbsNext
  <2>. QED  BY <2>1, <2>2, <2>3, <2>4, <2>5, <2>6 DEF InBody
<1>. QED  BY <1>1, <1>2

(* The cache behaves as if each call took effect at one instant             *)
(* (tiling_cache.h:32-80): its lock and its tests make the statements       *)
(* between them invisible, whatever the threads, the limit and the hash.    *)
THEOREM CacheImplementsAtomicCache == Spec => ImplementsAtomicCache
<1>1. Init => Linear!AbsInit
  <2>. SUFFICES ASSUME Init
                PROVE  Linear!AbsInit
    OBVIOUS
  <2>1. VisibleMap = map
    BY DEF Init, VisibleMap, Committed
  <2>2. VisibleAnswer = [t \in Threads |-> Linear!NoAnswer]
    BY DEF Init, VisibleAnswer, Linear!NoAnswer, Atomic!NoAnswer
  <2>. QED
    BY <2>1, <2>2 DEF Init, Linear!AbsInit, NoCall, Atomic!NoCall, Linear!NoCall
<1>2. CacheInv /\ CacheInv' /\ [Next]_vars => [Linear!AbsNext]_(Linear!cacheVars)
  BY StepImplementsAtomic DEF AbsStep
<1>. QED
  BY <1>1, <1>2, CacheInvariant, PTL DEF Spec, ImplementsAtomicCache, Linear!AbsSpec

(* A full cache never changes again: Replace is refused as well             *)
(* (tiling_cache.h:50).                                                     *)
THEOREM FullCacheStaysFrozen == Spec => FullCacheIsFrozen
<1>1. ASSUME CacheInv, CacheInv', [Next]_vars, Cardinality(DOMAIN VisibleMap) = MaxEntries
      PROVE  VisibleMap' = VisibleMap
  BY <1>1, StepImplementsAtomic, MaxEntriesAssumption
<1>2. CacheInv /\ CacheInv' /\ [Next]_vars =>
        [Cardinality(DOMAIN VisibleMap) = MaxEntries => VisibleMap' = VisibleMap]_vars
  BY <1>1
<1>. QED  BY <1>2, CacheInvariant, PTL DEF Spec, FullCacheIsFrozen

(***************************************************************************)
(* The tiling templates.                                                   *)
(***************************************************************************)
Hows == {"none", "all", "allNew", "listed", "listedNew"}
Tried == Priorities \X (Verdicts \cup {"NO_MEMORY"})
Calls == [how    : Hows,
          todo   : Seq(Priorities),
          phase  : 0 .. Len(Phases) - 1,
          ran    : Seq(Tried),
          status : Verdicts \cup {"none"}]

Types ==
    /\ pending \subseteq Registrations
    /\ cases \in [Priorities -> Classes \cup {NoClass}]
    /\ walk \in Calls
    /\ key \in Classes \cup {NoClass}
    /\ calls \in 0 .. MaxCalls

\* The verdicts after which the function in question goes on to the next class.
PassedOver(how) == {"PARAM_INVALID", "NO_MEMORY"} \cup (IF how = "listedNew" THEN {"FAILED"} ELSE {})

\* During a call: the key is not set, and no class tried has stopped the walk.
Underway ==
    Running =>
        /\ key = NoClass
        /\ \A n \in 1 .. Len(walk.ran) : walk.ran[n][2] \in PassedOver(walk.how)

\* Of a walk over the whole registry nothing is left out, and what is left is in order.
NothingLeftOut ==
    (Running /\ walk.how \in {"all", "allNew"}) =>
        /\ \A i, j \in 1 .. Len(walk.todo) : i < j => walk.todo[i] < walk.todo[j]
        /\ \A p \in Registered :
              \/ \E n \in 1 .. Len(walk.todo) : walk.todo[n] = p
              \/ \E n \in 1 .. Len(walk.ran) : walk.ran[n][1] = p

WalkInv ==
    /\ Types
    /\ walk.how # "none" => pending = {}
    /\ Underway
    /\ NothingLeftOut
    /\ FirstCapableWins
    /\ KeyIffSuccess
    /\ FailureAbortsUnlessListedNew

\* Facts about the list of phases and about appending, in the form the proofs use them.
LEMMA PhaseCount == Len(Phases) = 7
BY DEF Phases

LEMMA AppendFacts ==
    ASSUME NEW T, NEW s \in Seq(T), NEW e \in T
    PROVE  /\ Append(s, e) \in Seq(T)
           /\ Len(Append(s, e)) = Len(s) + 1
           /\ Last(Append(s, e)) = e
           /\ \A n \in 1 .. Len(s) : Append(s, e)[n] = s[n]
           /\ Append(s, e)[Len(s) + 1] = e
BY DEF Last

LEMMA TailFacts ==
    ASSUME NEW T, NEW s \in Seq(T), s # <<>>
    PROVE  /\ Head(s) \in T /\ Head(s) = s[1]
           /\ Tail(s) \in Seq(T)
           /\ Len(Tail(s)) = Len(s) - 1 /\ Len(s) \in Nat \ {0}
           /\ \A n \in 1 .. Len(Tail(s)) : Tail(s)[n] = s[n + 1]
OBVIOUS

\* Taking the first element off a list keeps the rest, in order.
LEMMA TailKeepsOrder ==
    ASSUME NEW s \in Seq(Priorities), s # <<>>,
           \A i, j \in 1 .. Len(s) : i < j => s[i] < s[j]
    PROVE  \A i, j \in 1 .. Len(Tail(s)) : i < j => Tail(s)[i] < Tail(s)[j]
<1>. SUFFICES ASSUME NEW i \in 1 .. Len(Tail(s)), NEW j \in 1 .. Len(Tail(s)), i < j
              PROVE  Tail(s)[i] < Tail(s)[j]
  OBVIOUS
<1>1. i + 1 \in 1 .. Len(s) /\ j + 1 \in 1 .. Len(s) /\ i + 1 < j + 1
  BY TailFacts
<1>. QED  BY <1>1, TailFacts

LEMMA TailKeepsRest ==
    ASSUME NEW s \in Seq(Priorities), NEW n \in 1 .. Len(s), n # 1
    PROVE  \E m \in 1 .. Len(Tail(s)) : Tail(s)[m] = s[n]
<1>1. n - 1 \in 1 .. Len(Tail(s)) /\ Tail(s)[n - 1] = s[(n - 1) + 1]
  BY TailFacts
<1>. QED  BY <1>1

LEMMA InitWalk == TemplatesInit => WalkInv
<1>. SUFFICES ASSUME TemplatesInit
              PROVE  WalkInv
  OBVIOUS
<1>1. walk = Idle /\ key = NoClass /\ ~Running /\ walk.how = "none"
  BY DEF TemplatesInit, Idle, Running
<1>2. walk \in Calls
  <2>1. <<>> \in Seq(Priorities) /\ <<>> \in Seq(Tried)
    OBVIOUS
  <2>2. 0 \in 0 .. Len(Phases) - 1
    BY PhaseCount
  <2>. QED  BY <1>1, <2>1, <2>2 DEF Calls, Idle, Hows
<1>3. Types
  BY <1>1, <1>2, TemplatesAssumption DEF TemplatesInit, Types
<1>. QED
  BY <1>1, <1>3 DEF WalkInv, Underway, NothingLeftOut, FirstCapableWins, KeyIffSuccess,
       FailureAbortsUnlessListedNew, FailureAborts, BeforeLast, Idle

LEMMA AddTilingKeeps ==
    ASSUME WalkInv, NEW r \in Registrations, AddTiling(r)
    PROVE  WalkInv'
<1>1. walk.how = "none" /\ ~Running /\ ~Running' /\ walk' = walk
  BY DEF WalkInv, AddTiling, Running
<1>2. Types'
  <2>1. r[1] \in Classes /\ r[2] \in Priorities
    BY TemplatesAssumption DEF Classes
  <2>2. cases' \in [Priorities -> Classes \cup {NoClass}]
    BY <2>1 DEF WalkInv, Types, AddTiling
  <2>. QED  BY <2>2 DEF WalkInv, Types, AddTiling
<1>. QED
  BY <1>1, <1>2 DEF WalkInv, AddTiling, Underway, NothingLeftOut, FirstCapableWins,
       KeyIffSuccess, FailureAbortsUnlessListedNew, FailureAborts, BeforeLast

\* A call begins with a fresh context and everything its walk is to visit.
LEMMA WalkBeginKeeps ==
    ASSUME WalkInv, NEW how \in Hows \ {"none"}, NEW s \in Seq(Priorities), BeginCall(how, s),
           how \in {"all", "allNew"} => InOrder(s)
    PROVE  WalkInv'
<1>1. /\ walk'.how = how /\ walk'.todo = s /\ walk'.ran = <<>> /\ walk'.phase = 0
      /\ walk'.status = "none" /\ Running' /\ key' = NoClass /\ UNCHANGED <<pending, cases>>
  BY DEF BeginCall, Idle, Running, Hows
<1>2. Types'
  <2>1. walk' \in Calls
    <3>1. <<>> \in Seq(Tried) /\ 0 \in 0 .. Len(Phases) - 1
      BY PhaseCount
    <3>. QED  BY <3>1 DEF BeginCall, Idle, Calls, Hows
  <2>2. calls' \in 0 .. MaxCalls
    BY TemplatesAssumption DEF BeginCall, WalkInv, Types
  <2>. QED  BY <1>1, <2>1, <2>2 DEF WalkInv, Types
<1>3. NothingLeftOut'
  <2>. SUFFICES ASSUME how \in {"all", "allNew"}
                PROVE  NothingLeftOut'
    BY <1>1 DEF NothingLeftOut
  <2>1. DOMAIN s = 1 .. Len(s) /\ {s[n] : n \in DOMAIN s} = Registered
    BY DEF InOrder, Range
  <2>2. Registered' = Registered
    BY <1>1 DEF Registered
  <2>. QED  BY <1>1, <2>1, <2>2 DEF NothingLeftOut, InOrder
<1>. QED
  BY <1>1, <1>2, <1>3 DEF WalkInv, BeginCall, Underway, FirstCapableWins, KeyIffSuccess,
       FailureAbortsUnlessListedNew, FailureAborts, BeforeLast

LEMMA BeginsKeep ==
    ASSUME WalkInv, BeginAll \/ BeginListed \/ BeginListedNew
    PROVE  WalkInv'
<1>1. Registered \subseteq Priorities
  BY DEF Registered
<1>2. ASSUME NEW S \in SUBSET Priorities, NEW n \in Nat, NEW s \in [1 .. n -> S]
      PROVE  s \in Seq(Priorities)
  OBVIOUS
<1>3. CASE BeginAll
  <2>1. PICK how \in {"all", "allNew"}, s \in [1 .. Cardinality(Registered) -> Registered] :
          InOrder(s) /\ BeginCall(how, s)
    BY <1>3 DEF BeginAll
  <2>2. Cardinality(Registered) \in Nat
    BY <1>1, TemplatesAssumption, FS_Subset, FS_CardinalityType
  <2>3. s \in Seq(Priorities)
    BY <1>1, <1>2, <2>2
  <2>. QED  BY <2>1, <2>3, WalkBeginKeeps DEF Hows
<1>4. CASE BeginListed
  <2>1. PICK n \in 0 .. MaxListed : \E s \in [1 .. n -> Registered] : BeginCall("listed", s)
    BY <1>4 DEF BeginListed, ListsOf
  <2>2. PICK s \in [1 .. n -> Registered] : BeginCall("listed", s)
    BY <2>1
  <2>3. s \in Seq(Priorities)
    BY <1>1, <1>2, TemplatesAssumption
  <2>. QED  BY <2>2, <2>3, WalkBeginKeeps DEF Hows
<1>5. CASE BeginListedNew
  <2>1. PICK n \in 0 .. MaxListed : \E s \in [1 .. n -> Priorities] : BeginCall("listedNew", s)
    BY <1>5 DEF BeginListedNew, ListsOf
  <2>2. PICK s \in [1 .. n -> Priorities] : BeginCall("listedNew", s)
    BY <2>1
  <2>3. s \in Seq(Priorities)
    BY <1>2, TemplatesAssumption
  <2>. QED  BY <2>2, <2>3, WalkBeginKeeps DEF Hows
<1>. QED  BY <1>3, <1>4, <1>5

\* The walk goes on after a class that was passed over.
LEMMA PassingKeeps ==
    ASSUME WalkInv, Running, walk.todo # <<>>, Head(walk.todo) \in Registered,
           NEW v \in Verdicts \cup {"NO_MEMORY"}, v \in PassedOver(walk.how),
           walk'.how = walk.how, walk'.todo = Tail(walk.todo), walk'.phase = 0,
           walk'.ran = Append(walk.ran, <<Head(walk.todo), v>>), walk'.status = "none",
           walk' = [how |-> walk'.how, todo |-> walk'.todo, phase |-> walk'.phase,
                    ran |-> walk'.ran, status |-> walk'.status],
           UNCHANGED <<pending, cases, key, calls>>
    PROVE  WalkInv'
<1>. DEFINE todo == walk.todo
            ran == walk.ran
            e == <<Head(todo), v>>
<1>1. todo \in Seq(Priorities) /\ ran \in Seq(Tried) /\ e \in Tried
  BY TailFacts DEF WalkInv, Types, Calls, Tried
<1>2. /\ Tail(todo) \in Seq(Priorities) /\ Len(Tail(todo)) = Len(todo) - 1
      /\ \A n \in 1 .. Len(Tail(todo)) : Tail(todo)[n] = todo[n + 1]
      /\ Head(todo) = todo[1] /\ Len(todo) \in Nat \ {0}
  BY <1>1, TailFacts
<1>3. /\ Append(ran, e) \in Seq(Tried) /\ Len(Append(ran, e)) = Len(ran) + 1 /\ Len(ran) \in Nat
      /\ \A n \in 1 .. Len(ran) : Append(ran, e)[n] = ran[n]
      /\ Append(ran, e)[Len(ran) + 1] = e
  BY <1>1, AppendFacts
<1>. HIDE DEF todo, ran
<1>4. walk'.todo = Tail(todo) /\ walk'.ran = Append(ran, e)
  BY DEF todo, ran
<1>5. walk' \in Calls
  <2>1. /\ walk'.how \in Hows /\ walk'.phase \in 0 .. Len(Phases) - 1
        /\ walk'.status \in Verdicts \cup {"none"}
    BY PhaseCount DEF Calls, WalkInv, Types
  <2>2. walk'.todo \in Seq(Priorities) /\ walk'.ran \in Seq(Tried)
    BY <1>2, <1>3, <1>4
  <2>. QED  BY <2>1, <2>2 DEF Calls
<1>6. \A n \in 1 .. Len(walk'.ran) : walk'.ran[n][2] \in PassedOver(walk'.how)
  BY <1>3, <1>4 DEF WalkInv, Underway, ran
<1>7. Underway'
  BY <1>6 DEF WalkInv, Underway
<1>8. Registered' = Registered
  BY DEF Registered
<1>9. NothingLeftOut'
  <2>. SUFFICES ASSUME walk.how \in {"all", "allNew"}
                PROVE  NothingLeftOut'
    BY DEF NothingLeftOut
  <2>1. \A i, j \in 1 .. Len(todo) : i < j => todo[i] < todo[j]
    BY DEF WalkInv, NothingLeftOut, todo
  <2>2. \A i, j \in 1 .. Len(Tail(todo)) : i < j => Tail(todo)[i] < Tail(todo)[j]
    BY <1>1, <2>1, TailKeepsOrder DEF todo
  <2>3. ASSUME NEW p \in Registered
        PROVE  \/ \E n \in 1 .. Len(Tail(todo)) : Tail(todo)[n] = p
               \/ \E n \in 1 .. Len(Append(ran, e)) : Append(ran, e)[n][1] = p
    <3>1. CASE \E n \in 1 .. Len(ran) : ran[n][1] = p
      <4>1. PICK n \in 1 .. Len(ran) : ran[n][1] = p
        BY <3>1
      <4>2. n \in 1 .. Len(Append(ran, e)) /\ Append(ran, e)[n][1] = p
        BY <1>3, <4>1
      <4>. QED  BY <4>2
    <3>2. CASE \E n \in 1 .. Len(todo) : todo[n] = p
      <4>1. PICK n \in 1 .. Len(todo) : todo[n] = p
        BY <3>2
      <4>2. CASE n = 1
        <5>1. Append(ran, e)[Len(ran) + 1][1] = p
          BY <1>2, <1>3, <4>1, <4>2
        <5>2. Len(ran) + 1 \in 1 .. Len(Append(ran, e))
          BY <1>3
        <5>. QED  BY <5>1, <5>2
      <4>3. CASE n # 1
        BY <1>1, <4>1, <4>3, TailKeepsRest
      <4>. QED  BY <4>2, <4>3
    <3>. QED  BY <3>1, <3>2 DEF WalkInv, NothingLeftOut, todo, ran
  <2>4. \A i, j \in 1 .. Len(walk'.todo) : i < j => walk'.todo[i] < walk'.todo[j]
    BY <1>4, <2>2
  <2>5. \A p \in Registered' : \/ \E n \in 1 .. Len(walk'.todo) : walk'.todo[n] = p
                              \/ \E n \in 1 .. Len(walk'.ran) : walk'.ran[n][1] = p
    <3>. HIDE DEF e
    <3>. QED  BY <1>4, <1>8, <2>3
  <2>. QED  BY <2>4, <2>5 DEF NothingLeftOut
<1>10. FailureAbortsUnlessListedNew'
  <2>. HIDE DEF e
  <2>1. Len(ran) \in Nat /\ Len(walk'.ran) = Len(ran) + 1 /\ walk'.how = walk.how
    BY <1>3, <1>4
  <2>2. \A n \in 1 .. Len(walk'.ran) - 1 : walk'.ran[n][2] \in PassedOver(walk.how)
    BY ONLY <2>1, <1>3, <1>4, <1>6
  <2>3. walk.how # "listedNew" => "FAILED" \notin PassedOver(walk.how)
    BY DEF PassedOver
  <2>. QED  BY ONLY <2>1, <2>2, <2>3 DEF FailureAbortsUnlessListedNew, FailureAborts, BeforeLast
<1>11. Running' /\ walk'.status # "SUCCESS"
  BY DEF Running
<1>. QED
  BY <1>5, <1>7, <1>9, <1>10, <1>11 DEF WalkInv, Types, FirstCapableWins, KeyIffSuccess

\* The class whose turn it is ends the walk with verdict v.
LEMMA StoppingKeeps ==
    ASSUME WalkInv, Running, walk.todo # <<>>, Head(walk.todo) \in Registered,
           NEW v \in Verdicts, Stops(walk.how, v), TakeAnswer(v),
           key' = IF v = "SUCCESS" THEN cases[Head(walk.todo)] ELSE key,
           UNCHANGED <<pending, cases, calls>>
    PROVE  WalkInv'
<1>. DEFINE todo == walk.todo
            ran == walk.ran
            e == <<Head(todo), v>>
<1>1. todo \in Seq(Priorities) /\ ran \in Seq(Tried) /\ e \in Tried
  BY TailFacts DEF WalkInv, Types, Calls, Tried
<1>2. /\ Tail(todo) \in Seq(Priorities)
      /\ Head(todo) = todo[1] /\ Len(todo) \in Nat \ {0}
  BY <1>1, TailFacts
<1>3. /\ Append(ran, e) \in Seq(Tried) /\ Len(Append(ran, e)) = Len(ran) + 1 /\ Len(ran) \in Nat
      /\ \A n \in 1 .. Len(ran) : Append(ran, e)[n] = ran[n]
      /\ Last(Append(ran, e)) = e
  BY <1>1, AppendFacts
<1>4. /\ walk'.how = walk.how /\ walk'.todo = Tail(todo) /\ walk'.phase = 0
      /\ walk'.ran = Append(ran, e) /\ walk'.status = v
      /\ walk' = [how |-> walk.how, todo |-> Tail(todo), phase |-> 0, ran |-> Append(ran, e),
                  status |-> v]
  BY DEF TakeAnswer, WalkInv, Types, Calls
<1>5. walk' \in Calls
  BY <1>2, <1>3, <1>4, PhaseCount DEF Calls, WalkInv, Types
<1>6. ~Running' /\ walk.how # "none" /\ key = NoClass
  BY <1>4 DEF Running, Verdicts, WalkInv, Underway
<1>7. /\ v = "SUCCESS" => key' = cases[todo[1]] /\ key' # NoClass /\ key' \in Classes
      /\ v # "SUCCESS" => key' = NoClass
  BY <1>2, <1>6 DEF Registered, WalkInv, Types
<1>8. Types'
  BY <1>5, <1>7 DEF WalkInv, Types
<1>9. KeyIffSuccess'
  BY <1>4, <1>7 DEF KeyIffSuccess
<1>10. FirstCapableWins'
  <2>. SUFFICES ASSUME walk.how \in {"all", "allNew"}, v = "SUCCESS"
                PROVE  FirstCapableWins'
    BY <1>4 DEF FirstCapableWins
  <2>1. Last(walk'.ran)[1] = todo[1] /\ Registered' = Registered
    BY <1>2, <1>3, <1>4 DEF Registered
  <2>2. ASSUME NEW p \in Registered, p < todo[1]
        PROVE  \E n \in 1 .. Len(ran) : ran[n] \in {<<p, "PARAM_INVALID">>, <<p, "NO_MEMORY">>}
    <3>1. todo[1] \in Priorities /\ p \in Int /\ todo[1] \in Int
      BY <1>1, <1>2, TemplatesAssumption DEF Registered
    <3>2. ASSUME NEW n \in 1 .. Len(todo), todo[n] = p
          PROVE  FALSE
      <4>1. n # 1
        BY <2>2, <3>1, <3>2
      <4>2. todo[1] < todo[n]
        BY <1>2, <4>1 DEF WalkInv, NothingLeftOut
      <4>. QED  BY <2>2, <3>1, <3>2, <4>2
    <3>3. PICK n \in 1 .. Len(ran) : ran[n][1] = p
      BY <3>2 DEF WalkInv, NothingLeftOut
    <3>4. ran[n] \in Tried /\ ran[n][2] \in {"PARAM_INVALID", "NO_MEMORY"}
      BY <1>1 DEF WalkInv, Underway, PassedOver
    <3>5. ran[n] = <<p, ran[n][2]>>
      BY <3>3, <3>4 DEF Tried
    <3>. QED  BY <3>4, <3>5
  <2>3. ASSUME NEW p \in Registered, p < todo[1]
        PROVE  \E n \in 1 .. Len(walk'.ran) :
                 walk'.ran[n] \in {<<p, "PARAM_INVALID">>, <<p, "NO_MEMORY">>}
    <3>1. PICK n \in 1 .. Len(ran) : ran[n] \in {<<p, "PARAM_INVALID">>, <<p, "NO_MEMORY">>}
      BY <2>2, <2>3
    <3>2. n \in 1 .. Len(walk'.ran) /\ walk'.ran[n] = ran[n]
      BY <1>3, <1>4
    <3>. QED  BY <3>1, <3>2
  <2>. QED  BY <1>7, <2>1, <2>3 DEF FirstCapableWins
<1>11. FailureAbortsUnlessListedNew'
  <2>. SUFFICES ASSUME walk.how # "listedNew"
                PROVE  FailureAborts'
    BY <1>4 DEF FailureAbortsUnlessListedNew
  <2>1. Len(walk'.ran) - 1 = Len(ran)
    BY <1>3, <1>4
  <2>2. \A n \in 1 .. Len(ran) : walk'.ran[n][2] # "FAILED"
    BY <1>3, <1>4 DEF WalkInv, Underway, PassedOver
  <2>. QED  BY <2>1, <2>2 DEF FailureAborts, BeforeLast
<1>. QED
  BY <1>4, <1>6, <1>8, <1>9, <1>10, <1>11 DEF WalkInv, Underway, NothingLeftOut

\* A phase that succeeds, and is not the last one, hands over to the next.
LEMMA PhaseKeeps ==
    ASSUME WalkInv, Running, NEW n \in 1 .. Len(Phases) - 1, walk' = [walk EXCEPT !.phase = n],
           UNCHANGED <<pending, cases, key, calls>>
    PROVE  WalkInv'
<1>1. /\ walk'.how = walk.how /\ walk'.todo = walk.todo /\ walk'.ran = walk.ran
      /\ walk'.status = walk.status /\ walk' \in Calls
  <2>1. walk \in Calls /\ n \in 0 .. Len(Phases) - 1
    BY PhaseCount DEF WalkInv, Types
  <2>2. walk' = [how |-> walk.how, todo |-> walk.todo, phase |-> n, ran |-> walk.ran,
                 status |-> walk.status]
    BY <2>1 DEF Calls
  <2>. QED  BY <2>1, <2>2 DEF Calls
<1>2. Registered' = Registered /\ Running'
  BY <1>1 DEF Registered, Running
<1>. QED
  BY <1>1, <1>2 DEF WalkInv, Types, Underway, NothingLeftOut, FirstCapableWins, KeyIffSuccess,
       FailureAbortsUnlessListedNew, FailureAborts, BeforeLast, Running

LEMMA RunPhaseKeeps ==
    ASSUME WalkInv, RunPhase
    PROVE  WalkInv'
<1>. DEFINE n == walk.phase + 1
<1>1. n \in 1 .. 7 /\ Len(Phases) = 7
  BY PhaseCount DEF WalkInv, Types, Calls
<1>2. PICK v \in Possible(Phases[n]) :
        /\ \/ v = "SUCCESS" /\ ~IsLast(n) /\ walk' = [walk EXCEPT !.phase = n]
           \/ (v # "SUCCESS" \/ IsLast(n)) /\ TakeAnswer(v)
        /\ key' = IF SetsKey(n, v) THEN cases[Head(walk.todo)] ELSE key
  BY DEF RunPhase
<1>3. /\ Running /\ walk.todo # <<>> /\ Head(walk.todo) \in Registered
      /\ UNCHANGED <<pending, cases, calls>> /\ v \in Verdicts
  BY DEF RunPhase, Possible, Verdicts
<1>. HIDE DEF n
<1>4. CASE v = "SUCCESS" /\ ~IsLast(n) /\ walk' = [walk EXCEPT !.phase = n]
  BY <1>1, <1>2, <1>3, <1>4, PhaseKeeps DEF SetsKey, IsLast
<1>5. CASE (v # "SUCCESS" \/ IsLast(n)) /\ TakeAnswer(v)
  <2>1. key' = IF v = "SUCCESS" THEN cases[Head(walk.todo)] ELSE key
    BY <1>2, <1>5 DEF SetsKey
  <2>2. CASE Stops(walk.how, v)
    BY <1>3, <1>5, <2>1, <2>2, StoppingKeeps
  <2>3. CASE ~Stops(walk.how, v)
    <3>1. v # "SUCCESS" /\ v \in PassedOver(walk.how) /\ walk.status = "none"
      BY <1>3, <2>3 DEF Stops, PassedOver, Verdicts, Running
    <3>2. walk' = [how |-> walk.how, todo |-> Tail(walk.todo), phase |-> 0,
                   ran |-> Append(walk.ran, <<Head(walk.todo), v>>), status |-> "none"]
      BY <1>5, <2>3, <3>1 DEF TakeAnswer, WalkInv, Types, Calls
    <3>. QED  BY <1>3, <2>1, <3>1, <3>2, PassingKeeps
  <2>. QED  BY <2>2, <2>3
<1>. QED  BY <1>2, <1>4, <1>5

LEMMA NotAllocatedKeeps ==
    ASSUME WalkInv, NotAllocated
    PROVE  WalkInv'
<1>1. walk' = [how |-> walk.how, todo |-> Tail(walk.todo), phase |-> 0,
               ran |-> Append(walk.ran, <<Head(walk.todo), "NO_MEMORY">>), status |-> "none"]
  BY DEF NotAllocated, WalkInv, Types, Calls, Running
<1>2. /\ Running /\ walk.todo # <<>> /\ Head(walk.todo) \in Registered
      /\ UNCHANGED <<pending, cases, key, calls>> /\ "NO_MEMORY" \in PassedOver(walk.how)
  BY DEF NotAllocated, PassedOver
<1>. QED  BY <1>1, <1>2, PassingKeeps

\* Unregistered priorities occur in the lists of TilingRegistryNew's callers only.
LEMMA NotRegisteredKeeps ==
    ASSUME WalkInv, NotRegistered
    PROVE  WalkInv'
<1>1. walk.todo \in Seq(Priorities) /\ walk.todo # <<>> /\ walk.todo[1] \notin Registered
  BY TailFacts DEF NotRegistered, WalkInv, Types, Calls
<1>2. /\ walk'.how = walk.how /\ walk'.todo = Tail(walk.todo) /\ walk'.ran = walk.ran
      /\ walk'.status = walk.status /\ walk' \in Calls
  BY <1>1, TailFacts DEF NotRegistered, WalkInv, Types, Calls
<1>3. Registered' = Registered /\ Running /\ Running' /\ UNCHANGED <<pending, cases, key, calls>>
  BY <1>2 DEF NotRegistered, Registered, Running
<1>4. NothingLeftOut'
  <2>. SUFFICES ASSUME walk.how \in {"all", "allNew"}
                PROVE  NothingLeftOut'
    BY <1>2 DEF NothingLeftOut
  <2>1. \A i, j \in 1 .. Len(Tail(walk.todo)) : i < j => Tail(walk.todo)[i] < Tail(walk.todo)[j]
    BY <1>1, <1>3, TailKeepsOrder DEF WalkInv, NothingLeftOut
  <2>2. ASSUME NEW p \in Registered
        PROVE  \/ \E n \in 1 .. Len(Tail(walk.todo)) : Tail(walk.todo)[n] = p
               \/ \E n \in 1 .. Len(walk.ran) : walk.ran[n][1] = p
    <3>1. CASE \E n \in 1 .. Len(walk.todo) : walk.todo[n] = p
      <4>1. PICK n \in 1 .. Len(walk.todo) : walk.todo[n] = p
        BY <3>1
      <4>2. n # 1
        BY <1>1, <4>1
      <4>. QED  BY <1>1, <4>1, <4>2, TailKeepsRest
    <3>. QED  BY <1>3, <3>1 DEF WalkInv, NothingLeftOut
  <2>. QED  BY <1>2, <1>3, <2>1, <2>2 DEF NothingLeftOut
<1>. QED
  BY <1>2, <1>3, <1>4 DEF WalkInv, Types, Underway, FirstCapableWins, KeyIffSuccess,
       FailureAbortsUnlessListedNew, FailureAborts, BeforeLast, Running

\* The calls that end without an answer of a class.
LEMMA FailingKeeps ==
    ASSUME WalkInv, NoSocVersion \/ RunOut
    PROVE  WalkInv'
<1>1. /\ walk'.how = walk.how /\ walk'.ran = walk.ran /\ walk'.status = "FAILED"
      /\ walk' \in Calls
  BY DEF NoSocVersion, RunOut, WalkInv, Types, Calls, Verdicts
<1>2. Running /\ ~Running' /\ key' = NoClass /\ UNCHANGED <<pending, cases, key, calls>>
  BY <1>1 DEF NoSocVersion, RunOut, Running, WalkInv, Underway
<1>3. FailureAbortsUnlessListedNew'
  BY <1>1, <1>2 DEF WalkInv, FailureAbortsUnlessListedNew, FailureAborts, BeforeLast
<1>. QED
  BY <1>1, <1>2, <1>3 DEF WalkInv, Types, Underway, NothingLeftOut, FirstCapableWins, KeyIffSuccess

LEMMA WalkInvInductive ==
    /\ TemplatesInit => WalkInv
    /\ WalkInv /\ [TemplatesNext]_templatesVars => WalkInv'
<1>1. ASSUME WalkInv, UNCHANGED templatesVars
      PROVE  WalkInv'
  BY <1>1 DEF templatesVars, WalkInv, Types, Underway, NothingLeftOut, FirstCapableWins, KeyIffSuccess,
       FailureAbortsUnlessListedNew, FailureAborts, BeforeLast, Running, Registered
<1>2. ASSUME WalkInv, TemplatesNext
      PROVE  WalkInv'
  BY <1>2, AddTilingKeeps, BeginsKeep, NotRegisteredKeeps, RunPhaseKeeps, NotAllocatedKeeps,
     FailingKeeps DEF TemplatesNext
<1>. QED  BY <1>1, <1>2, InitWalk

LEMMA WalkInvariant == TemplatesSpec => []WalkInv
BY WalkInvInductive, PTL DEF TemplatesSpec

\* The types of the registry and of the call.
THEOREM TemplatesTypeCorrect == TemplatesSpec => []TemplatesTypeOK
<1>1. WalkInv => TemplatesTypeOK
  BY DEF WalkInv, Types, Calls, TemplatesTypeOK
<1>. QED  BY <1>1, WalkInvariant, PTL

\* A walk over the whole registry (tiling_templates_registry.h:122-132, :253-263) ends at the
\* class of highest priority that supports the case: each one before it said it does not, or
\* could not be allocated, and the key in the context is the chosen class's.
THEOREM TemplatesFirstCapableWins == TemplatesSpec => []FirstCapableWins
<1>1. WalkInv => FirstCapableWins
  BY DEF WalkInv
<1>. QED  BY <1>1, WalkInvariant, PTL

\* The context has a tiling key exactly when DoTilingImpl returns success
\* (tiling_base.h:99-101).
THEOREM TemplatesKeyIffSuccess == TemplatesSpec => []KeyIffSuccess
<1>1. WalkInv => KeyIffSuccess
  BY DEF WalkInv
<1>. QED  BY <1>1, WalkInvariant, PTL

\* In all functions but the one over a list of TilingRegistryNew, GRAPH_FAILED of a class is the
\* last answer of the walk.
THEOREM TemplatesFailureAborts == TemplatesSpec => []FailureAbortsUnlessListedNew
<1>1. WalkInv => FailureAbortsUnlessListedNew
  BY DEF WalkInv
<1>. QED  BY <1>1, WalkInvariant, PTL
=============================================================================
