------------------------------- MODULE RWLock -------------------------------
(***************************************************************************)
(* The reader/writer lock of the host-side tiling cache,                   *)
(* common/src/op_host/lock.cpp.                                            *)
(*                                                                         *)
(* Every read and write of the lock's fields happens while _mtx is held,   *)
(* and condition_variable::wait releases _mtx and blocks in one step, so   *)
(* the code between two acquisitions of _mtx is one atomic action here:    *)
(* a call up to its return or its first sleep, and a re-check of the wait  *)
(* predicate after a wake-up.  A woken thread competes for _mtx with every *)
(* other thread, which is why "awake" and "holding" are different states.  *)
(***************************************************************************)
EXTENDS Integers, FiniteSets

CONSTANTS Readers,   \* threads that may call rdlock()
          Writers    \* threads that may call wrlock(); may overlap Readers

ASSUME ThreadsFinite == IsFiniteSet(Readers) /\ IsFiniteSet(Writers)

VARIABLES status,          \* _status: -1 a writer holds, n > 0 readers hold
          waitingReaders,  \* _waiting_readers
          waitingWriters,  \* _waiting_writers
          at               \* where each thread is in the lock's code

lockVars == <<status, waitingReaders, waitingWriters, at>>

Threads == Readers \cup Writers

(* The places a thread can be: outside, blocked on _read_cv or _write_cv,   *)
(* woken but without _mtx yet, or past the call and holding the lock.       *)
Places == {"out", "rdSleep", "rdAwake", "reading",
                  "wrSleep", "wrAwake", "writing"}

In(places) == {t \in Threads : at[t] \in places}

LockInit ==
  /\ status = 0
  /\ waitingReaders = 0
  /\ waitingWriters = 0
  /\ at = [t \in Threads |-> "out"]

(***************************************************************************)
(* The predicates of the two waits.  (A definition whose name ends in      *)
(* _Something is a plausible mistake in the definition it precedes; the    *)
(* README tells which property each of them breaks.)                       *)
(***************************************************************************)
MayRead_IgnoringWaitingWriters == status >= 0
MayRead == waitingWriters = 0 /\ status >= 0

MayWrite_IgnoringReaders == status >= 0
MayWrite == status = 0

(* rdlock(): the waiting counter is raised, then lowered again at once when *)
(* the predicate already holds; otherwise the thread sleeps on _read_cv.    *)
RdLock(t) ==
  /\ at[t] = "out"
  /\ UNCHANGED waitingWriters
  /\ \/ /\ MayRead
        /\ status' = status + 1
        /\ at' = [at EXCEPT ![t] = "reading"]
        /\ UNCHANGED waitingReaders
     \/ /\ ~MayRead
        /\ waitingReaders' = waitingReaders + 1
        /\ at' = [at EXCEPT ![t] = "rdSleep"]
        /\ UNCHANGED status

(* A woken reader has _mtx again and evaluates the predicate once more.     *)
RdRecheck(t) ==
  /\ at[t] = "rdAwake"
  /\ UNCHANGED waitingWriters
  /\ \/ /\ MayRead
        /\ waitingReaders' = waitingReaders - 1
        /\ status' = status + 1
        /\ at' = [at EXCEPT ![t] = "reading"]
     \/ /\ ~MayRead
        /\ at' = [at EXCEPT ![t] = "rdSleep"]
        /\ UNCHANGED <<status, waitingReaders>>

(* wrlock(), in the same two halves. *)
WrLock(t) ==
  /\ at[t] = "out"
  /\ UNCHANGED waitingReaders
  /\ \/ /\ MayWrite
        /\ status' = -1
        /\ at' = [at EXCEPT ![t] = "writing"]
        /\ UNCHANGED waitingWriters
     \/ /\ ~MayWrite
        /\ waitingWriters' = waitingWriters + 1
        /\ at' = [at EXCEPT ![t] = "wrSleep"]
        /\ UNCHANGED status

WrRecheck(t) ==
  /\ at[t] = "wrAwake"
  /\ UNCHANGED waitingReaders
  /\ \/ /\ MayWrite
        /\ waitingWriters' = waitingWriters - 1
        /\ status' = -1
        /\ at' = [at EXCEPT ![t] = "writing"]
     \/ /\ ~MayWrite
        /\ at' = [at EXCEPT ![t] = "wrSleep"]
        /\ UNCHANGED <<status, waitingWriters>>

(* unlock() serves both modes and tells them apart by the sign of _status.  *)
AfterRelease == IF status = -1 THEN 0 ELSE status - 1

Notify_ForgettingReaders(f) ==
  IF waitingWriters > 0 /\ AfterRelease = 0 /\ (\E w \in Threads : f[w] = "wrSleep")
  THEN \E w \in Threads : f[w] = "wrSleep" /\ at' = [f EXCEPT ![w] = "wrAwake"]
  ELSE at' = f

Notify_OneReaderOnly(f) ==
  IF waitingWriters = 0 /\ (\E r \in Threads : f[r] = "rdSleep")
  THEN \E r \in Threads : f[r] = "rdSleep" /\ at' = [f EXCEPT ![r] = "rdAwake"]
  ELSE Notify_ForgettingReaders(f)

(* The notification that ends unlock(): with writers waiting, one sleeping  *)
(* writer when the lock became free and nobody otherwise; with no writer    *)
(* waiting, every sleeping reader.  f is the place function after the       *)
(* caller has left.  notify_one with nobody asleep does nothing.            *)
Notify(f) ==
  LET sleepers == {w \in Threads : f[w] = "wrSleep"}
  IN \/ /\ waitingWriters > 0 /\ AfterRelease = 0 /\ sleepers # {}
        /\ \E w \in sleepers : at' = [f EXCEPT ![w] = "wrAwake"]
     \/ /\ waitingWriters > 0 /\ (AfterRelease # 0 \/ sleepers = {})
        /\ at' = f
     \/ /\ waitingWriters = 0
        /\ at' = [t \in Threads |-> IF f[t] = "rdSleep" THEN "rdAwake" ELSE f[t]]

Unlock(t) ==
  /\ at[t] \in {"reading", "writing"}
  /\ status' = AfterRelease
  /\ Notify([at EXCEPT ![t] = "out"])
  /\ UNCHANGED <<waitingReaders, waitingWriters>>

(* The standard lets a condition variable wake a sleeper for no reason.     *)
SpuriousWakeup(t) ==
  /\ \/ at[t] = "rdSleep" /\ at' = [at EXCEPT ![t] = "rdAwake"]
     \/ at[t] = "wrSleep" /\ at' = [at EXCEPT ![t] = "wrAwake"]
  /\ UNCHANGED <<status, waitingReaders, waitingWriters>>

LockNext ==
  \/ \E t \in Readers : RdLock(t)
  \/ \E t \in Writers : WrLock(t)
  \/ \E t \in Threads : RdRecheck(t)
  \/ \E t \in Threads : WrRecheck(t)
  \/ \E t \in Threads : Unlock(t)
  \/ \E t \in Threads : SpuriousWakeup(t)

LockSpec == LockInit /\ [][LockNext]_lockVars
-----------------------------------------------------------------------------
LockTypeOK ==
  /\ status \in Int /\ status >= -1
  /\ waitingReaders \in Nat
  /\ waitingWriters \in Nat
  /\ at \in [Threads -> Places]

(* _status tells exactly who holds the lock: unlock() relies on its sign to *)
(* know in which mode the caller holds it.                                  *)
StatusCountsHolders ==
  \/ /\ status = -1
     /\ Cardinality(In({"writing"})) = 1
     /\ In({"reading"}) = {}
  \/ /\ status = Cardinality(In({"reading"}))
     /\ In({"writing"}) = {}

(* What users of the lock rely on: a writer is alone (lock.cpp:20-36).      *)
MutualExclusion ==
  \A t, u \in Threads :
    t # u /\ at[t] = "writing" => at[u] \notin {"reading", "writing"}

(* The wait counters count the threads between raising and lowering them.   *)
CountersCountWaiters ==
  /\ waitingReaders = Cardinality(In({"rdSleep", "rdAwake"}))
  /\ waitingWriters = Cardinality(In({"wrSleep", "wrAwake"}))

(* No lost wake-up: whenever the lock is free for a class of waiters, one   *)
(* of them is on its way to look, so that nobody sleeps on a free lock      *)
(* (unlock() notifies only one of the two condition variables, and the      *)
(* writer it chose may lose the race for _mtx to a newcomer).               *)
NoLostWakeup ==
  /\ status = 0 /\ waitingWriters > 0 => In({"wrAwake"}) # {}
  /\ MayRead => In({"rdSleep"}) = {}

(* A waiting writer is overtaken by other writers only: if those stop       *)
(* getting the lock, it gets it, however many readers keep coming           *)
(* (rdlock() waits for _waiting_writers == 0).                              *)
WriterNotStarvedByReaders ==
  \A w \in Writers :
    <>[](\A v \in Writers \ {w} : at[v] # "writing")
      => (at[w] \in {"wrSleep", "wrAwake"} ~> at[w] = "writing")

(* A waiting reader can be starved by an endless supply of writers only.    *)
ReaderServedWhenWritersPause ==
  \A r \in Readers :
    <>[](In({"wrSleep", "wrAwake", "writing"}) = {})
      => (at[r] \in {"rdSleep", "rdAwake"} ~> at[r] = "reading")
=============================================================================
