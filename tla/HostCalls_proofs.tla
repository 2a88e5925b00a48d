-------------------------- MODULE HostCalls_proofs --------------------------
(***************************************************************************)
(* Proofs about what the host library does in one call: the cached tiling  *)
(* item, the operators executed through another library, the legacy        *)
(* library, the obfuscation operators and the helpers of their interface,  *)
(* each for any number of threads, items, arguments and dimensions.  At    *)
(* the end, what the lock of the installation guarantees.                  *)
(***************************************************************************)
EXTENDS HashItem, OperatorFallback, LegacyLibrary, Obfuscation, LevelTwoShapes, InstallLock,
        FiniteSetTheorems, NumberLemmas

-----------------------------------------------------------------------------
(* Operators executed through another library.                             *)

Places_ == {"idle", "begin", "lookup", "convert", "size", "malloc", "api", "release", "set", "read",
            "returned", "prepared", "launched", "deleted", "crashed"}
Outcomes == {"SUCCESS", "FAILED"}
CallRecords ==
    [at : Places_, args : ArgumentLists \cup {<<>>},
     params : (UNION {[DOMAIN args -> {"value", "handle", "null"}] : args \in ArgumentLists}) \cup {<<>>},
     own : Outcomes \cup {"none"}, alone : BOOLEAN, called : BOOLEAN,
     result : Outcomes \cup {"none"}]

FallbackTypes ==
    /\ macro \in {"none", "EXEC", "PREPARE"}
    /\ ret \in Outcomes
    /\ call \in [Threads -> CallRecords]
    /\ state \in [DOMAIN state -> {"alive", "gone", "again"}]

\* The macro a call is in shows in where it is.
PlaceFits(t) ==
    /\ macro = "none" => call[t].at = "idle"
    /\ call[t].at \in {"malloc", "api", "release", "returned"} \/ call[t].called => macro = "EXEC"
    /\ call[t].at \in {"set", "prepared", "launched", "deleted"} => macro = "PREPARE"
    /\ call[t].called => call[t].at \in {"release", "read", "returned"}
    /\ call[t].at = "release" => call[t].called
    /\ call[t].called => call[t].own \in Outcomes
    /\ call[t].result # "none" => call[t].at \in {"returned", "prepared", "launched", "deleted"}

\* A call that no other overlaps is alone in the macro, and the static variable holds its outcome.
AloneIsAlone(t) ==
    call[t].alone =>
        /\ InMacro(t) => \A v \in Threads \ {t} : ~InMacro(v)
        /\ call[t].at = "read" => ret = call[t].own
        /\ call[t].result # "none" => call[t].result = call[t].own

OwnInv ==
    /\ FallbackTypes
    /\ \A t \in Threads : PlaceFits(t)
    /\ \A t \in Threads : AloneIsAlone(t)

LEMMA NoCallIsRecord == NoCall \in CallRecords
BY DEF NoCall, CallRecords, Places_, Outcomes

LEMMA StartOwn ==
    ASSUME OwnInv, Start
    PROVE  OwnInv'
<1> USE DEF Start
<1>1. FallbackTypes'
  BY DEF OwnInv, FallbackTypes
<1>2. \A t \in Threads : PlaceFits(t)'
  BY DEF OwnInv, PlaceFits, FallbackTypes
<1>3. \A t \in Threads : AloneIsAlone(t)'
  BY DEF OwnInv, AloneIsAlone, InMacro
<1> QED BY <1>1, <1>2, <1>3 DEF OwnInv

\* A call that begins is alone if no thread is in the macro, and ends the solitude of those who are.
LEMMA BeginOwn ==
    ASSUME OwnInv, NEW t \in Threads, Begin(t)
    PROVE  OwnInv'
<1> DEFINE Others == \A v \in Threads \ {t} : ~InMacro(v)
<1>1. PICK args \in ArgumentLists :
         call' = [u \in Threads |->
                    IF u = t THEN [NoCall EXCEPT !.at = "begin", !.args = args, !.alone = Others]
                    ELSE [call[u] EXCEPT !.alone = @ /\ ~InMacro(u)]]
  BY DEF Begin
<1>2. call'[t] = [NoCall EXCEPT !.at = "begin", !.args = args, !.alone = Others]
  BY <1>1
<1>3. /\ call'[t] \in CallRecords
      /\ call'[t].at = "begin" /\ call'[t].called = FALSE /\ call'[t].result = "none"
      /\ call'[t].alone => Others
  <2> Others \in BOOLEAN
    OBVIOUS
  <2> HIDE DEF Others
  <2> QED BY <1>2, NoCallIsRecord DEF NoCall, CallRecords, Places_
<1>4. ASSUME NEW u \in Threads \ {t}
      PROVE  /\ call'[u] \in CallRecords
             /\ call'[u].alone => call[u].alone /\ ~InMacro(u)
             /\ call'[u].at = call[u].at /\ call'[u].called = call[u].called
             /\ call'[u].result = call[u].result /\ call'[u].own = call[u].own
  <2>1. call[u] \in CallRecords
    BY DEF OwnInv, FallbackTypes
  <2>2. call'[u] = [call[u] EXCEPT !.alone = call[u].alone /\ ~InMacro(u)]
    BY <1>1
  <2>3. InMacro(u) \in BOOLEAN
    BY DEF InMacro
  <2> QED BY <2>1, <2>2, <2>3 DEF CallRecords
<1>5. macro # "none" /\ UNCHANGED <<macro, symbols, ret>>
      /\ state' = [h \in DOMAIN state \ Handles(t) |-> state[h]]
  BY DEF Begin, Keep
<1>6. FallbackTypes'
  <2>1. call' \in [Threads -> CallRecords]
    BY <1>1, <1>3, <1>4
  <2> QED BY <2>1, <1>5 DEF OwnInv, FallbackTypes
<1>7. ASSUME NEW u \in Threads PROVE PlaceFits(u)'
  <2>1. CASE u = t
    BY <2>1, <1>3, <1>5 DEF PlaceFits
  <2>2. CASE u # t
    BY <2>2, <1>4, <1>5 DEF PlaceFits, OwnInv
  <2> QED BY <2>1, <2>2
<1>8. ASSUME NEW u \in Threads PROVE AloneIsAlone(u)'
  <2>1. CASE u = t
    BY <2>1, <1>3, <1>4 DEF AloneIsAlone, InMacro
  <2>2. CASE u # t
    BY <2>2, <1>3, <1>4, <1>5 DEF AloneIsAlone, InMacro, OwnInv
  <2> QED BY <2>1, <2>2
<1> QED BY <1>6, <1>7, <1>8 DEF OwnInv

\* Every other step is one of a single call, which stays where it may be.
LEMMA MoveOwn ==
    ASSUME OwnInv, NEW t \in Threads, NEW r \in CallRecords,
           macro' = macro, call' = [call EXCEPT ![t] = r],
           state' \in [DOMAIN state' -> {"alive", "gone", "again"}],
           r.alone = call[t].alone,
           r.at \notin AtRest \cup {"prepared", "launched"} => InMacro(t),
           ret' \in Outcomes,
           ret' = ret \/ InMacro(t),
           r.at = "read" => ret' = r.own,
           r.alone /\ r.result # "none" => r.result = r.own,
           PlaceFits(t)'
    PROVE  OwnInv'
<1>1. call'[t] = r /\ \A u \in Threads \ {t} : call'[u] = call[u]
  BY DEF OwnInv, FallbackTypes
<1>2. FallbackTypes'
  BY DEF OwnInv, FallbackTypes
<1>3. ASSUME NEW u \in Threads PROVE PlaceFits(u)'
  BY <1>1 DEF PlaceFits, OwnInv
<1>4. ASSUME NEW u \in Threads PROVE AloneIsAlone(u)'
  <2>1. CASE u = t
    BY <2>1, <1>1 DEF AloneIsAlone, InMacro, AtRest, OwnInv
  <2>2. CASE u # t
    BY <2>2, <1>1 DEF AloneIsAlone, InMacro, AtRest, OwnInv
  <2> QED BY <2>1, <2>2
<1> QED BY <1>2, <1>3, <1>4 DEF OwnInv

LEMMA StateKept ==
    ASSUME NEW st, st \in [DOMAIN st -> {"alive", "gone", "again"}], NEW hs
    PROVE  /\ WithNew(st, hs) \in [DOMAIN WithNew(st, hs) -> {"alive", "gone", "again"}]
           /\ Without(st, hs) \in [DOMAIN Without(st, hs) -> {"alive", "gone", "again"}]
BY DEF WithNew, Without

\* The parameters that Convert sets: one for each argument.
ParamsFor(t, lost) ==
    [i \in Slots(t) |->
        IF call[t].args[i].kind = "value" THEN "value"
        ELSE IF HasHandle(call[t].args[i]) /\ (i \notin lost \/ call[t].args[i].kind \in {"mm", "scalar"})
        THEN "handle" ELSE "null"]

LEMMA ParamsForType ==
    ASSUME FallbackTypes, NEW t \in Threads, NEW lost
    PROVE  ParamsFor(t, lost) \in (UNION {[DOMAIN args -> {"value", "handle", "null"}] :
                                              args \in ArgumentLists}) \cup {<<>>}
<1> DEFINE args == call[t].args
<1>1. args \in ArgumentLists \cup {<<>>}
  BY DEF FallbackTypes, CallRecords
<1>2. ParamsFor(t, lost) \in [DOMAIN args -> {"value", "handle", "null"}]
  BY DEF ParamsFor, Slots
<1>3. CASE args \in ArgumentLists
  BY <1>2, <1>3
<1>4. CASE args = <<>>
  BY <1>2, <1>4
<1> QED BY <1>1, <1>3, <1>4

\* The steps of a call, one by one.
LEMMA StepsOwn ==
    ASSUME OwnInv, NEW t \in Threads,
           \/ CallerConverts(t) \/ LookupFails(t) \/ Lookup(t) \/ Convert(t) \/ Crash(t)
           \/ Size(t) \/ SizeFails(t) \/ Malloc(t) \/ MallocFails(t) \/ CallApi(t) \/ Release(t)
           \/ SetWorkspaceSizes(t) \/ Return(t) \/ Launch(t) \/ DeleteParams(t)
    PROVE  OwnInv'
<1>0. /\ FallbackTypes /\ call[t] \in CallRecords /\ call \in [Threads -> CallRecords]
      /\ PlaceFits(t) /\ AloneIsAlone(t)
  BY DEF OwnInv, FallbackTypes
<1>1. CASE CallerConverts(t)
  <2> DEFINE r == [call[t] EXCEPT !.at = "lookup"]
  <2>1. call[t].at = "begin" /\ call' = [call EXCEPT ![t] = r] /\ UNCHANGED <<macro, ret>>
    BY <1>1, <1>0 DEF CallerConverts, Goes, Keep
  <2>2. state' \in [DOMAIN state' -> {"alive", "gone", "again"}]
    BY <1>1, <1>0, StateKept DEF CallerConverts, FallbackTypes
  <2>3. r \in CallRecords /\ call'[t] = r
    BY <2>1, <1>0 DEF CallRecords, Places_
  <2>4. PlaceFits(t)' /\ InMacro(t) /\ ret \in Outcomes
        /\ r.at = "lookup" /\ r.result = call[t].result /\ r.alone = call[t].alone
    BY <2>1, <2>3, <1>0 DEF PlaceFits, InMacro, AtRest, FallbackTypes, CallRecords
  <2>5. r.result = "none"
    BY <2>4, <2>1, <1>0 DEF PlaceFits
  <2> HIDE DEF r
  <2> QED BY <2>1, <2>2, <2>3, <2>4, <2>5, MoveOwn
<1>2. CASE LookupFails(t) \/ SizeFails(t) \/ MallocFails(t)
  <2> DEFINE r == [call[t] EXCEPT !.at = "read", !.own = "FAILED"]
  <2>1. /\ call[t].at \in {"lookup", "size", "malloc"} /\ ret' = "FAILED"
        /\ call' = [call EXCEPT ![t] = r] /\ UNCHANGED <<macro, state>>
    BY <1>2, <1>0 DEF LookupFails, SizeFails, MallocFails, GivesUp, Keep
  <2>2. r \in CallRecords /\ call'[t] = r
    BY <2>1, <1>0 DEF CallRecords, Places_, Outcomes
  <2>3. /\ PlaceFits(t)' /\ InMacro(t) /\ r.result = "none"
        /\ r.at = "read" /\ r.own = "FAILED" /\ r.alone = call[t].alone
    BY <2>1, <2>2, <1>0 DEF PlaceFits, InMacro, AtRest, CallRecords
  <2> HIDE DEF r
  <2> QED BY <1>0, <2>1, <2>2, <2>3, MoveOwn DEF FallbackTypes, Outcomes
<1>3. CASE Lookup(t) \/ Crash(t) \/ Size(t) \/ Malloc(t)
  <2>1. PICK to \in {"convert", "crashed", "malloc", "api", "set"} :
           /\ call[t].at \in {"lookup", "convert", "size", "malloc"}
           /\ call' = [call EXCEPT ![t].at = to] /\ UNCHANGED <<macro, state, ret>>
           /\ to \in {"malloc", "api"} => macro = "EXEC"
           /\ to = "set" => macro = "PREPARE"
    BY <1>3, <1>0 DEF Lookup, Crash, Size, Malloc, Goes, Keep, PlaceFits
  <2> DEFINE r == [call[t] EXCEPT !.at = to]
  <2>2. r \in CallRecords /\ call'[t] = r /\ call' = [call EXCEPT ![t] = r]
    BY <2>1, <1>0 DEF CallRecords, Places_
  <2>3. /\ PlaceFits(t)' /\ InMacro(t) /\ r.result = "none" /\ r.at = to /\ r.alone = call[t].alone
    BY <2>1, <2>2, <1>0 DEF PlaceFits, InMacro, AtRest, CallRecords
  <2> HIDE DEF r
  <2> QED BY <1>0, <2>1, <2>2, <2>3, MoveOwn DEF FallbackTypes
<1>4. CASE Convert(t)
  <2>1. PICK lost :
           /\ call[t].at = "convert" /\ UNCHANGED <<macro, ret>>
           /\ state' = WithNew(state, MadeFor(t, FALSE, lost))
           /\ call' = [call EXCEPT ![t].at = "size", ![t].params = ParamsFor(t, lost)]
    BY <1>4 DEF Convert, Keep, ParamsFor
  <2> DEFINE r == [call[t] EXCEPT !.at = "size", !.params = ParamsFor(t, lost)]
  <2>2. r \in CallRecords /\ call'[t] = r /\ call' = [call EXCEPT ![t] = r]
    BY <2>1, <1>0, ParamsForType DEF CallRecords, Places_
  <2>3. /\ PlaceFits(t)' /\ InMacro(t) /\ r.result = "none" /\ r.at = "size" /\ r.alone = call[t].alone
    BY <2>1, <2>2, <1>0 DEF PlaceFits, InMacro, AtRest, CallRecords
  <2>4. state' \in [DOMAIN state' -> {"alive", "gone", "again"}]
    BY <2>1, <1>0, StateKept DEF FallbackTypes
  <2> HIDE DEF r
  <2> QED BY <1>0, <2>1, <2>2, <2>3, <2>4, MoveOwn DEF FallbackTypes
<1>5. CASE CallApi(t)
  <2>1. PICK outcome \in Outcomes :
           /\ call[t].at = "api" /\ UNCHANGED <<macro, ret, state>>
           /\ call' = [call EXCEPT ![t].at = "release", ![t].own = outcome, ![t].called = TRUE]
    BY <1>5 DEF CallApi, Keep, Outcomes
  <2> DEFINE r == [call[t] EXCEPT !.at = "release", !.own = outcome, !.called = TRUE]
  <2>2. r \in CallRecords /\ call'[t] = r /\ call' = [call EXCEPT ![t] = r]
    BY <2>1, <1>0 DEF CallRecords, Places_
  <2>3. /\ PlaceFits(t)' /\ InMacro(t) /\ r.result = "none" /\ r.at = "release" /\ r.alone = call[t].alone
    BY <2>1, <2>2, <1>0 DEF PlaceFits, InMacro, AtRest, CallRecords
  <2> HIDE DEF r
  <2> QED BY <1>0, <2>1, <2>2, <2>3, MoveOwn DEF FallbackTypes
<1>6. CASE Release(t)
  <2> DEFINE r == [call[t] EXCEPT !.at = "read"]
  <2>1. /\ call[t].at = "release" /\ ret' = call[t].own /\ macro' = macro
        /\ state' = Without(state, Released(t))
        /\ call' = [call EXCEPT ![t] = r]
    BY <1>6, <1>0 DEF Release, Keep, Goes
  <2>2. r \in CallRecords /\ call'[t] = r
    BY <2>1, <1>0 DEF CallRecords, Places_
  <2>3. /\ PlaceFits(t)' /\ InMacro(t) /\ r.result = "none" /\ r.at = "read" /\ r.alone = call[t].alone
        /\ r.own = call[t].own
    BY <2>1, <2>2, <1>0 DEF PlaceFits, InMacro, AtRest, CallRecords
  <2>4. state' \in [DOMAIN state' -> {"alive", "gone", "again"}]
    BY <2>1, <1>0, StateKept DEF FallbackTypes
  <2>5. call[t].own \in Outcomes
    BY <2>1, <1>0 DEF PlaceFits
  <2> HIDE DEF r
  <2> QED BY <1>0, <2>1, <2>2, <2>3, <2>4, <2>5, MoveOwn
<1>7. CASE SetWorkspaceSizes(t)
  <2>1. PICK outcome \in Outcomes :
           /\ call[t].at = "set" /\ UNCHANGED <<macro, state>> /\ ret' = outcome
           /\ call' = [call EXCEPT ![t].at = "read", ![t].own = outcome]
    BY <1>7 DEF SetWorkspaceSizes, Keep, Outcomes
  <2> DEFINE r == [call[t] EXCEPT !.at = "read", !.own = outcome]
  <2>2. r \in CallRecords /\ call'[t] = r /\ call' = [call EXCEPT ![t] = r]
    BY <2>1, <1>0 DEF CallRecords, Places_
  <2>3. /\ PlaceFits(t)' /\ InMacro(t) /\ r.result = "none" /\ r.at = "read" /\ r.own = outcome
        /\ r.alone = call[t].alone
    BY <2>1, <2>2, <1>0 DEF PlaceFits, InMacro, AtRest, CallRecords
  <2> HIDE DEF r
  <2> QED BY <1>0, <2>1, <2>2, <2>3, MoveOwn DEF FallbackTypes
<1>8. CASE Return(t)
  <2> DEFINE r == [call[t] EXCEPT !.result = ret, !.at = IF macro = "EXEC" THEN "returned" ELSE "prepared"]
  <2>1. /\ call[t].at = "read" /\ UNCHANGED <<macro, ret, state>> /\ call' = [call EXCEPT ![t] = r]
    BY <1>8, <1>0 DEF Return, Keep
  <2>2. r \in CallRecords /\ call'[t] = r
    BY <2>1, <1>0 DEF CallRecords, Places_, FallbackTypes
  <2>3. /\ PlaceFits(t)' /\ InMacro(t) /\ r.result = ret /\ r.at \in {"returned", "prepared"}
        /\ r.alone = call[t].alone /\ r.own = call[t].own
    BY <2>1, <2>2, <1>0 DEF PlaceFits, InMacro, AtRest, CallRecords, FallbackTypes
  <2> HIDE DEF r
  <2>4. r.alone => r.result = r.own
    BY <2>1, <2>3, <1>0 DEF AloneIsAlone
  <2> QED BY <1>0, <2>1, <2>2, <2>3, <2>4, MoveOwn DEF FallbackTypes, AtRest
<1>9. CASE Launch(t) \/ DeleteParams(t)
  <2>1. PICK to \in {"launched", "deleted"} :
           /\ call[t].at \in {"prepared", "launched"} /\ UNCHANGED <<macro, ret>>
           /\ call' = [call EXCEPT ![t].at = to]
           /\ state' = state \/ state' = Without(state, Released(t))
    BY <1>9 DEF Launch, DeleteParams, Keep
  <2> DEFINE r == [call[t] EXCEPT !.at = to]
  <2>2. r \in CallRecords /\ call'[t] = r /\ call' = [call EXCEPT ![t] = r]
    BY <2>1, <1>0 DEF CallRecords, Places_
  <2>3. /\ PlaceFits(t)' /\ r.result = call[t].result /\ r.at = to /\ r.own = call[t].own
        /\ r.alone = call[t].alone
    BY <2>1, <2>2, <1>0 DEF PlaceFits, CallRecords
  <2>4. state' \in [DOMAIN state' -> {"alive", "gone", "again"}]
    BY <2>1, <1>0, StateKept DEF FallbackTypes
  <2>5. r.alone /\ r.result # "none" => r.result = r.own
    BY <2>3, <1>0 DEF AloneIsAlone
  <2> HIDE DEF r
  <2> QED BY <1>0, <2>1, <2>2, <2>3, <2>4, <2>5, MoveOwn DEF FallbackTypes, AtRest
<1> QED BY <1>1, <1>2, <1>3, <1>4, <1>5, <1>6, <1>7, <1>8, <1>9

\* What is known of the handles of a call: until they are released all are alive, and they are
\* those that the parameters say.
Converted(t) ==
    call[t].at \in {"size", "malloc", "api", "release", "set"} \/ call[t].called \/ call[t].params # <<>>
Unreleased(t) ==
    \/ call[t].at \in {"lookup", "convert", "size", "malloc", "api", "release", "set", "prepared",
                       "launched", "crashed"}
    \/ call[t].at = "read" /\ ~call[t].called
Over(t) ==
    \/ call[t].at \in {"read", "returned"} /\ call[t].called
    \/ call[t].at = "deleted" /\ call[t].params # <<>>
ConversionFunctions ==
    {"aclCreateTensor", "aclCreateTensorList", "aclCreateIntArray", "aclCreateScalar",
     "aclDestroyTensor", "aclDestroyTensorList", "aclDestroyIntArray", "aclDestroyScalar"}
FoundFunctions == {s \in ConversionFunctions : Found(s)}
CallerMade(t) ==
    {i \in Slots(t) : /\ call[t].args[i].kind \in {"mm", "scalar"} /\ ~IsAbsent(call[t].args[i])
                      /\ Create(call[t].args[i].kind) \in FoundFunctions}
Releasable(t) == {i \in Slots(t) : Destroy(call[t].args[i].kind) \in FoundFunctions}

HandlesFit(t) ==
    /\ call[t].at \in {"idle", "begin"} => Handles(t) = {} /\ call[t].params = <<>>
    /\ \A h \in Handles(t) : h[2] \in Slots(t)
    /\ call[t].at \in {"lookup", "convert"} =>
         /\ call[t].params = <<>>
         /\ \A i \in CallerMade(t) : Handle(t, i, 0) \in DOMAIN state
    /\ Converted(t) =>
         /\ DOMAIN call[t].params = Slots(t)
         /\ \A i \in Slots(t) : Param(t, i) = "handle" =>
              call[t].args[i].kind \in ReleasedKinds /\ Handle(t, i, 0) \in DOMAIN state
    /\ Unreleased(t) => \A h \in Handles(t) : state[h] = "alive"
    /\ Over(t) => \A h \in Handles(t) :
         Param(t, h[2]) = "handle" /\ h[2] \in Releasable(t) => state[h] = "gone"

HandleInv ==
    /\ OwnInv
    /\ \A h \in DOMAIN state : state[h] # "again"
    /\ \A t \in Threads : HandlesFit(t)

\* What a step of one call does leaves the handles of the others as they are.
LEMMA HandlesMove ==
    ASSUME HandleInv, OwnInv', NEW t \in Threads, symbols' = symbols,
           \A u \in Threads \ {t} :
               /\ call'[u].at = call[u].at /\ call'[u].args = call[u].args
               /\ call'[u].params = call[u].params /\ call'[u].called = call[u].called,
           \A h : h[1] # t => (h \in DOMAIN state' <=> h \in DOMAIN state),
           \A h \in DOMAIN state : h[1] # t => state'[h] = state[h],
           \A h \in DOMAIN state' : h[1] = t => state'[h] # "again",
           HandlesFit(t)'
    PROVE  HandleInv'
<1>1. ASSUME NEW h \in DOMAIN state' PROVE state'[h] # "again"
  BY DEF HandleInv
<1>2. ASSUME NEW u \in Threads \ {t} PROVE HandlesFit(u)'
  <2>1. Handles(u)' = Handles(u) /\ \A h \in Handles(u) : state'[h] = state[h]
    BY DEF Handles
  <2>2. /\ Slots(u)' = Slots(u) /\ \A i : Param(u, i)' = Param(u, i)
        /\ \A i : call'[u].args[i] = call[u].args[i]
        /\ \A i, k : Handle(u, i, k) \in DOMAIN state' <=> Handle(u, i, k) \in DOMAIN state
    BY DEF Slots, Param, Handle
  <2>11. \A s \in ConversionFunctions : Found(s)' <=> Found(s)
    BY DEF Found, GetOpApiFuncAddr, GetAclnnAddrByApiName, InLib
  <2>12. FoundFunctions' = FoundFunctions
    BY <2>11 DEF FoundFunctions
  <2>3. Releasable(u)' = Releasable(u)
    BY <2>2, <2>12 DEF Releasable
  <2>4. CallerMade(u)' = CallerMade(u)
    BY <2>2, <2>12 DEF CallerMade
  <2>5. HandlesFit(u)
    BY DEF HandleInv
  <2>6. /\ call[u].at \in {"idle", "begin"} => Handles(u)' = {} /\ call'[u].params = <<>>
        /\ \A h \in Handles(u)' : h[2] \in Slots(u)'
    BY <2>1, <2>2, <2>5 DEF HandlesFit
  <2>7. call[u].at \in {"lookup", "convert"} =>
         /\ call'[u].params = <<>>
         /\ \A i \in CallerMade(u)' : Handle(u, i, 0) \in DOMAIN state'
    BY <2>2, <2>4, <2>5 DEF HandlesFit
  <2>8. Converted(u)' =>
         /\ DOMAIN call'[u].params = Slots(u)'
         /\ \A i \in Slots(u)' : call'[u].params[i] = "handle" =>
              call'[u].args[i].kind \in ReleasedKinds /\ Handle(u, i, 0) \in DOMAIN state'
    BY <2>2, <2>5 DEF HandlesFit, Converted, Param
  <2>9. Unreleased(u)' => \A h \in Handles(u)' : state'[h] = "alive"
    BY <2>1, <2>5 DEF HandlesFit, Unreleased
  <2>10. Over(u)' => \A h \in Handles(u)' :
           call'[u].params[h[2]] = "handle" /\ h[2] \in Releasable(u)' => state'[h] = "gone"
    BY <2>1, <2>2, <2>3, <2>5 DEF HandlesFit, Over, Param
  <2> QED BY <2>6, <2>7, <2>8, <2>9, <2>10 DEF HandlesFit, Handle, Param
<1> QED BY <1>1, <1>2 DEF HandleInv

\* The same in the terms of the model.
LEMMA FunctionsAre ==
    ASSUME NEW t \in Threads, NEW i \in Slots(t)
    PROVE  /\ i \in Releasable(t) <=> Found(Destroy(call[t].args[i].kind))
           /\ i \in CallerMade(t) <=>
                HasHandle(call[t].args[i]) /\ call[t].args[i].kind \in {"mm", "scalar"}
<1>1. \A k : Destroy(k) \in ConversionFunctions /\ Create(k) \in ConversionFunctions
  BY DEF Destroy, Create, ConversionFunctions
<1> QED BY <1>1 DEF Releasable, CallerMade, FoundFunctions, HasHandle


LEMMA BeginHandles ==
    ASSUME HandleInv, OwnInv', NEW t \in Threads, Begin(t)
    PROVE  HandleInv'
<1>0. call \in [Threads -> CallRecords]
  BY DEF HandleInv, OwnInv, FallbackTypes
<1>1. /\ call'[t].at = "begin" /\ call'[t].params = <<>> /\ call'[t].called = FALSE
      /\ \A u \in Threads \ {t} :
               /\ call'[u].at = call[u].at /\ call'[u].args = call[u].args
               /\ call'[u].params = call[u].params /\ call'[u].called = call[u].called
  <2> DEFINE Others == \A v \in Threads \ {t} : ~InMacro(v)
  <2>1. PICK args \in ArgumentLists :
           call' = [u \in Threads |->
                      IF u = t THEN [NoCall EXCEPT !.at = "begin", !.args = args, !.alone = Others]
                      ELSE [call[u] EXCEPT !.alone = @ /\ ~InMacro(u)]]
    BY DEF Begin
  <2> HIDE DEF Others
  <2>2. call'[t] = [NoCall EXCEPT !.at = "begin", !.args = args, !.alone = Others]
    BY <2>1
  <2>3. \A u \in Threads \ {t} : call'[u] = [call[u] EXCEPT !.alone = @ /\ ~InMacro(u)]
    BY <2>1
  <2>4. call'[t].at = "begin" /\ call'[t].params = <<>> /\ call'[t].called = FALSE
    BY <2>2 DEF NoCall
  <2>5. ASSUME NEW u \in Threads \ {t}
        PROVE  /\ call'[u].at = call[u].at /\ call'[u].args = call[u].args
               /\ call'[u].params = call[u].params /\ call'[u].called = call[u].called
    <3>1. call[u] \in CallRecords /\ call'[u] = [call[u] EXCEPT !.alone = call[u].alone /\ ~InMacro(u)]
      BY <1>0, <2>3
    <3> QED BY <3>1 DEF CallRecords
  <2> QED BY <2>4, <2>5
<1>2. /\ symbols' = symbols
      /\ state' = [h \in DOMAIN state \ Handles(t) |-> state[h]]
  BY DEF Begin, Keep
<1>3. \A h \in DOMAIN state' : h[1] # t
  BY <1>2 DEF Handles
<1>4. \A h : h[1] # t => (h \in DOMAIN state' <=> h \in DOMAIN state)
  BY <1>2 DEF Handles
<1>5. \A h \in DOMAIN state : h[1] # t => state'[h] = state[h]
  BY <1>2 DEF Handles
<1>6. Handles(t)' = {}
  BY <1>3 DEF Handles
<1>7. HandlesFit(t)'
  BY <1>1, <1>6 DEF HandlesFit, Converted, Unreleased, Over
<1> QED BY <1>1, <1>2, <1>3, <1>4, <1>5, <1>7, HandlesMove

LEMMA CallerConvertsHandles ==
    ASSUME HandleInv, OwnInv', NEW t \in Threads, CallerConverts(t)
    PROVE  HandleInv'
<1> DEFINE hs == MadeFor(t, TRUE, {})
<1>0. call \in [Threads -> CallRecords] /\ PlaceFits(t) /\ HandlesFit(t)
  BY DEF HandleInv, OwnInv, FallbackTypes
<1>1. /\ call[t].at = "begin" /\ call'[t] = [call[t] EXCEPT !.at = "lookup"]
      /\ \A u \in Threads \ {t} : call'[u] = call[u]
      /\ symbols' = symbols /\ state' = WithNew(state, hs)
  BY <1>0 DEF CallerConverts, Goes, Keep
<1>2. /\ call'[t].at = "lookup" /\ call'[t].args = call[t].args
      /\ call'[t].params = <<>> /\ call'[t].called = FALSE
  BY <1>0, <1>1 DEF CallRecords, HandlesFit, PlaceFits
<1>3. hs = {Handle(t, i, 0) : i \in CallerMade(t)}
  BY FunctionsAre DEF MadeFor, CallerMade
<1>4. ASSUME NEW h \in hs PROVE h[1] = t /\ h[2] \in Slots(t)
  <2> HIDE DEF hs
  <2>1. PICK i \in CallerMade(t) : h = Handle(t, i, 0)
    BY <1>3
  <2> QED BY <2>1 DEF Handle, CallerMade
<1>5. Slots(t)' = Slots(t) /\ (\A i : Handle(t, i, 0)' = Handle(t, i, 0))
  BY <1>2 DEF Slots, Handle
<1>6. FoundFunctions' = FoundFunctions
  <2> \A s \in ConversionFunctions : Found(s)' <=> Found(s)
    BY <1>1 DEF Found, GetOpApiFuncAddr, GetAclnnAddrByApiName, InLib
  <2> QED BY DEF FoundFunctions
<1>7. CallerMade(t)' = CallerMade(t)
  BY <1>2, <1>5, <1>6 DEF CallerMade
<1> HIDE DEF hs
<1>8. DOMAIN state' = DOMAIN state \cup hs
      /\ \A h \in DOMAIN state' : state'[h] = IF h \in hs THEN "alive" ELSE state[h]
  BY <1>1 DEF WithNew
<1>9. Handles(t)' = hs
  BY <1>0, <1>1, <1>4, <1>8 DEF Handles, HandlesFit
<1>10. HandlesFit(t)'
  BY <1>2, <1>3, <1>4, <1>5, <1>7, <1>8, <1>9 DEF HandlesFit, Converted, Unreleased, Over
<1>11. \A h \in DOMAIN state' : state'[h] # "again"
  BY <1>8 DEF HandleInv
<1> QED BY <1>1, <1>4, <1>8, <1>10, <1>11, HandlesMove

LEMMA ConvertHandles ==
    ASSUME HandleInv, OwnInv', NEW t \in Threads, Convert(t)
    PROVE  HandleInv'
<1>0. call \in [Threads -> CallRecords] /\ PlaceFits(t) /\ HandlesFit(t)
  BY DEF HandleInv, OwnInv, FallbackTypes
<1>1. PICK lost :
         /\ call[t].at = "convert" /\ symbols' = symbols
         /\ state' = WithNew(state, MadeFor(t, FALSE, lost))
         /\ call' = [call EXCEPT ![t].at = "size", ![t].params = ParamsFor(t, lost)]
  BY DEF Convert, Keep, ParamsFor
<1> DEFINE hs == MadeFor(t, FALSE, lost)
<1>2. /\ call'[t].at = "size" /\ call'[t].args = call[t].args
      /\ call'[t].params = ParamsFor(t, lost) /\ call'[t].called = call[t].called
      /\ \A u \in Threads \ {t} : call'[u] = call[u]
      /\ call[t].called = FALSE
  BY <1>0, <1>1 DEF CallRecords, HandlesFit, PlaceFits
<1>3. \A h \in hs : h[1] = t /\ h[2] \in Slots(t)
  BY DEF MadeFor, Handle
<1>4. ASSUME NEW i \in Slots(t), HasHandle(call[t].args[i]), i \notin lost,
             call[t].args[i].kind \notin {"mm", "scalar"}
      PROVE  Handle(t, i, 0) \in hs
  BY <1>4 DEF MadeFor
<1>5. Slots(t)' = Slots(t)
  BY <1>2 DEF Slots
<1> HIDE DEF hs
<1>8. DOMAIN state' = DOMAIN state \cup hs
      /\ \A h \in DOMAIN state' : state'[h] = IF h \in hs THEN "alive" ELSE state[h]
  BY <1>1 DEF WithNew, hs
<1>9. Handles(t)' = Handles(t) \cup hs
  BY <1>3, <1>8 DEF Handles
<1>10. ASSUME NEW i \in Slots(t), call'[t].params[i] = "handle"
       PROVE  call[t].args[i].kind \in ReleasedKinds /\ Handle(t, i, 0) \in DOMAIN state'
  <2>1. /\ call[t].args[i].kind # "value" /\ HasHandle(call[t].args[i])
        /\ i \notin lost \/ call[t].args[i].kind \in {"mm", "scalar"}
    BY <1>2, <1>10 DEF ParamsFor
  <2>2. call[t].args[i].kind \in ReleasedKinds
    <3>1. call[t].args \in ArgumentLists \cup {<<>>}
      BY <1>0 DEF CallRecords
    <3>2. call[t].args \in ArgumentLists
      BY <3>1 DEF Slots
    <3> QED BY <3>2, <2>1, FallbackAssumption DEF Slots, ReleasedKinds
  <2>3. CASE call[t].args[i].kind \in {"mm", "scalar"}
    BY <2>1, <2>2, <2>3, <1>0, <1>1, <1>8, FunctionsAre DEF HandlesFit
  <2>4. CASE call[t].args[i].kind \notin {"mm", "scalar"}
    BY <2>1, <2>2, <2>4, <1>4, <1>8
  <2> QED BY <2>3, <2>4
<1>11. DOMAIN call'[t].params = Slots(t)
  BY <1>2 DEF ParamsFor
<1>12. \A h \in Handles(t) \cup hs : state'[h] = "alive" /\ h[2] \in Slots(t)
  BY <1>0, <1>1, <1>3, <1>8 DEF HandlesFit, Unreleased, Handles
<1>13. HandlesFit(t)'
  BY <1>2, <1>5, <1>9, <1>10, <1>11, <1>12 DEF HandlesFit, Converted, Unreleased, Over, Param, Handle
<1>14. \A h \in DOMAIN state' : state'[h] # "again"
  BY <1>8 DEF HandleInv
<1> QED BY <1>1, <1>2, <1>3, <1>8, <1>13, <1>14, HandlesMove

\* Release, and the framework's deletion of the parameters.
LEMMA ReleaseHandles ==
    ASSUME HandleInv, OwnInv', NEW t \in Threads, symbols' = symbols,
           \A u \in Threads \ {t} : call'[u] = call[u],
           Unreleased(t), ~Unreleased(t)', call[t].at \notin {"lookup", "convert"},
           call'[t].at \notin {"idle", "begin"},
           call'[t].args = call[t].args, call'[t].params = call[t].params,
           call'[t].called = call[t].called,
           IF Converted(t) THEN state' = Without(state, Released(t))
           ELSE state' = state /\ ~Over(t)'
    PROVE  HandleInv'
<1>0. HandlesFit(t) /\ call'[t].at \notin {"lookup", "convert"}
  BY DEF HandleInv, Unreleased
<1>1. Slots(t)' = Slots(t) /\ FoundFunctions' = FoundFunctions
  <2> \A s \in ConversionFunctions : Found(s)' <=> Found(s)
    BY DEF Found, GetOpApiFuncAddr, GetAclnnAddrByApiName, InLib
  <2> QED BY DEF FoundFunctions, Slots
<1>2. Releasable(t)' = Releasable(t)
  BY <1>1 DEF Releasable
<1>3. CASE ~Converted(t)
  <2>1. state' = state /\ ~Over(t)'
    BY <1>3
  <2>2. Handles(t)' = Handles(t) /\ ~Converted(t)'
    BY <1>3, <2>1 DEF Handles, Converted, Unreleased
  <2>3. HandlesFit(t)'
    BY <1>0, <1>1, <2>1, <2>2 DEF HandlesFit
  <2> QED BY <2>1, <2>3, HandlesMove DEF HandleInv
<1>4. CASE Converted(t)
  <2>1. /\ DOMAIN state' = DOMAIN state
        /\ \A h \in DOMAIN state : state'[h] = IF h \notin Released(t) THEN state[h]
                                             ELSE IF state[h] = "alive" THEN "gone" ELSE "again"
    BY <1>4 DEF Without
  <2>2. \A h \in Handles(t) : state[h] = "alive" /\ h[2] \in Slots(t)
    BY <1>0 DEF HandlesFit
  <2>3. ASSUME NEW h \in Handles(t), Param(t, h[2]) = "handle", h[2] \in Releasable(t)
        PROVE  state'[h] = "gone"
    <3>1. h \in Released(t)
      BY <1>0, <1>4, <2>2, <2>3, FunctionsAre DEF HandlesFit, Released
    <3> QED BY <3>1, <2>1, <2>2 DEF Handles
  <2>4. Released(t) \subseteq Handles(t) /\ Handles(t)' = Handles(t)
    BY <2>1 DEF Released, Handles
  <2>5. \A h \in DOMAIN state' : state'[h] # "again"
    BY <2>1, <2>2, <2>4 DEF HandleInv
  <2>6. \A h \in DOMAIN state : h[1] # t => state'[h] = state[h]
    BY <2>1, <2>4 DEF Handles
  <2>7. HandlesFit(t)'
    BY <1>0, <1>1, <1>2, <1>4, <2>1, <2>2, <2>3, <2>4 DEF HandlesFit, Param, Handle
  <2> QED BY <2>1, <2>5, <2>6, <2>7, HandlesMove
<1> QED BY <1>3, <1>4

LEMMA StartHandles ==
    ASSUME HandleInv, OwnInv', Start
    PROVE  HandleInv'
<1>1. UNCHANGED <<call, state>> /\ \A t \in Threads : call[t].at = "idle" /\ HandlesFit(t)
  BY DEF Start, HandleInv, OwnInv, PlaceFits
<1>2. ASSUME NEW t \in Threads PROVE HandlesFit(t)'
  <2>1. ~call[t].called
    BY <1>1 DEF HandleInv, OwnInv, PlaceFits
  <2> QED BY <1>1, <2>1 DEF HandlesFit, Converted, Unreleased, Over, Handles, Slots
<1> QED BY <1>1, <1>2 DEF HandleInv

\* The steps that leave the handles alone.
LEMMA SilentHandles ==
    ASSUME HandleInv, OwnInv', NEW t \in Threads, symbols' = symbols, state' = state,
           \A u \in Threads \ {t} : call'[u] = call[u],
           call[t].at \notin {"idle", "begin"},
           call'[t].at \notin {"idle", "begin"},
           call'[t].args = call[t].args, call'[t].params = call[t].params,
           call'[t].at \in {"lookup", "convert"} => call[t].at \in {"lookup", "convert"},
           Converted(t)' => Converted(t),
           Unreleased(t)' => Unreleased(t),
           Over(t)' => Over(t)
    PROVE  HandleInv'
<1>1. HandlesFit(t) /\ Slots(t)' = Slots(t) /\ FoundFunctions' = FoundFunctions
  <2> \A s \in ConversionFunctions : Found(s)' <=> Found(s)
    BY DEF Found, GetOpApiFuncAddr, GetAclnnAddrByApiName, InLib
  <2> QED BY DEF FoundFunctions, Slots, HandleInv
<1>2. Releasable(t)' = Releasable(t) /\ CallerMade(t)' = CallerMade(t) /\ Handles(t)' = Handles(t)
  BY <1>1 DEF Releasable, CallerMade, Handles
<1>3. HandlesFit(t)'
  BY <1>1, <1>2 DEF HandlesFit, Param, Handle
<1> QED BY <1>3, HandlesMove DEF HandleInv

LEMMA StepsHandles ==
    ASSUME HandleInv, OwnInv', NEW t \in Threads,
           \/ CallerConverts(t) \/ LookupFails(t) \/ Lookup(t) \/ Convert(t) \/ Crash(t)
           \/ Size(t) \/ SizeFails(t) \/ Malloc(t) \/ MallocFails(t) \/ CallApi(t) \/ Release(t)
           \/ SetWorkspaceSizes(t) \/ Return(t) \/ Launch(t) \/ DeleteParams(t)
    PROVE  HandleInv'
<1>0. /\ call[t] \in CallRecords /\ call \in [Threads -> CallRecords]
      /\ PlaceFits(t) /\ HandlesFit(t) /\ PlaceFits(t)'
  BY DEF HandleInv, OwnInv, FallbackTypes
<1>1. CASE CallerConverts(t)
  BY <1>1, CallerConvertsHandles
<1>2. CASE Convert(t)
  BY <1>2, ConvertHandles
<1>3. CASE LookupFails(t) \/ SizeFails(t) \/ MallocFails(t)
  <2>1. /\ call[t].at \in {"lookup", "size", "malloc"} /\ UNCHANGED <<symbols, state>>
        /\ call'[t] = [call[t] EXCEPT !.at = "read", !.own = "FAILED"]
        /\ \A u \in Threads \ {t} : call'[u] = call[u]
    BY <1>3, <1>0 DEF LookupFails, SizeFails, MallocFails, GivesUp, Keep
  <2>2. /\ call'[t].at = "read" /\ call'[t].args = call[t].args /\ call'[t].params = call[t].params
        /\ call'[t].called = call[t].called
    BY <2>1, <1>0 DEF CallRecords
  <2> QED BY <2>1, <2>2, <1>0, SilentHandles DEF Converted, Unreleased, Over, PlaceFits
<1>4. CASE Lookup(t) \/ Crash(t) \/ Size(t) \/ Malloc(t)
  <2>1. PICK to \in {"convert", "crashed", "malloc", "api", "set"} :
           /\ call[t].at \in {"lookup", "convert", "size", "malloc"}
           /\ call[t].at \in {"lookup", "convert"} => to \in {"convert", "crashed"}
           /\ to = "convert" => call[t].at = "lookup"
           /\ call'[t] = [call[t] EXCEPT !.at = to] /\ UNCHANGED <<symbols, state>>
           /\ \A u \in Threads \ {t} : call'[u] = call[u]
    BY <1>4, <1>0 DEF Lookup, Crash, Size, Malloc, Goes, Keep
  <2>2. /\ call'[t].at = to /\ call'[t].args = call[t].args /\ call'[t].params = call[t].params
        /\ call'[t].called = call[t].called /\ ~call[t].called
    BY <2>1, <1>0 DEF CallRecords, PlaceFits
  <2> QED BY <2>1, <2>2, SilentHandles DEF Converted, Unreleased, Over
<1>5. CASE CallApi(t)
  <2>1. PICK outcome \in Outcomes :
           /\ call[t].at = "api" /\ UNCHANGED <<symbols, state>>
           /\ call'[t] = [call[t] EXCEPT !.at = "release", !.own = outcome, !.called = TRUE]
           /\ \A u \in Threads \ {t} : call'[u] = call[u]
    BY <1>5, <1>0 DEF CallApi, Keep, Outcomes
  <2>2. /\ call'[t].at = "release" /\ call'[t].args = call[t].args /\ call'[t].params = call[t].params
    BY <2>1, <1>0 DEF CallRecords
  <2> QED BY <2>1, <2>2, SilentHandles DEF Converted, Unreleased, Over
<1>6. CASE Release(t)
  <2>1. /\ call[t].at = "release" /\ symbols' = symbols
        /\ state' = Without(state, Released(t))
        /\ call'[t] = [call[t] EXCEPT !.at = "read"]
        /\ \A u \in Threads \ {t} : call'[u] = call[u]
    BY <1>6, <1>0 DEF Release, Keep, Goes
  <2>2. /\ call'[t].at = "read" /\ call'[t].args = call[t].args /\ call'[t].params = call[t].params
        /\ call'[t].called = call[t].called /\ call[t].called
    BY <2>1, <1>0 DEF CallRecords, PlaceFits
  <2> QED BY <2>1, <2>2, ReleaseHandles DEF Converted, Unreleased
<1>7. CASE SetWorkspaceSizes(t)
  <2>1. PICK outcome \in Outcomes :
           /\ call[t].at = "set" /\ UNCHANGED <<symbols, state>>
           /\ call'[t] = [call[t] EXCEPT !.at = "read", !.own = outcome]
           /\ \A u \in Threads \ {t} : call'[u] = call[u]
    BY <1>7, <1>0 DEF SetWorkspaceSizes, Keep, Outcomes
  <2>2. /\ call'[t].at = "read" /\ call'[t].args = call[t].args /\ call'[t].params = call[t].params
        /\ call'[t].called = call[t].called /\ ~call[t].called
    BY <2>1, <1>0 DEF CallRecords, PlaceFits
  <2> QED BY <2>1, <2>2, SilentHandles DEF Converted, Unreleased, Over
<1>8. CASE Return(t)
  <2>1. /\ call[t].at = "read" /\ UNCHANGED <<symbols, state>>
        /\ call'[t] = [call[t] EXCEPT !.result = ret, !.at = IF macro = "EXEC" THEN "returned" ELSE "prepared"]
        /\ \A u \in Threads \ {t} : call'[u] = call[u]
    BY <1>8, <1>0 DEF Return, Keep
  <2>2. /\ call'[t].at = (IF macro = "EXEC" THEN "returned" ELSE "prepared")
        /\ call'[t].args = call[t].args /\ call'[t].params = call[t].params
        /\ call'[t].called = call[t].called
    BY <2>1, <1>0 DEF CallRecords
  <2>3. macro # "EXEC" => ~call[t].called
    BY <2>1, <1>0 DEF PlaceFits
  <2> QED BY <2>1, <2>2, <2>3, SilentHandles DEF Converted, Unreleased, Over
<1>9. CASE Launch(t)
  <2>1. /\ call[t].at = "prepared" /\ UNCHANGED <<symbols, state>>
        /\ call'[t] = [call[t] EXCEPT !.at = "launched"]
        /\ \A u \in Threads \ {t} : call'[u] = call[u]
    BY <1>9, <1>0 DEF Launch, Keep
  <2>2. /\ call'[t].at = "launched" /\ call'[t].args = call[t].args /\ call'[t].params = call[t].params
        /\ call'[t].called = call[t].called
    BY <2>1, <1>0 DEF CallRecords
  <2> QED BY <2>1, <2>2, SilentHandles DEF Converted, Unreleased, Over
<1>10. CASE DeleteParams(t)
  <2>1. /\ call[t].at \in {"prepared", "launched"} /\ symbols' = symbols
        /\ state' = IF call[t].params = <<>> THEN state ELSE Without(state, Released(t))
        /\ call'[t] = [call[t] EXCEPT !.at = "deleted"]
        /\ \A u \in Threads \ {t} : call'[u] = call[u]
    BY <1>10, <1>0 DEF DeleteParams, Keep
  <2>2. /\ call'[t].at = "deleted" /\ call'[t].args = call[t].args /\ call'[t].params = call[t].params
        /\ call'[t].called = call[t].called /\ ~call[t].called
    BY <2>1, <1>0 DEF CallRecords, PlaceFits
  <2> QED BY <2>1, <2>2, ReleaseHandles DEF Converted, Unreleased, Over
<1> QED BY <1>1, <1>2, <1>3, <1>4, <1>5, <1>6, <1>7, <1>8, <1>9, <1>10

LEMMA HandleInvStep == HandleInv /\ [FallbackNext]_fallbackVars => HandleInv'
<1> SUFFICES ASSUME HandleInv, [FallbackNext]_fallbackVars
             PROVE  HandleInv'
  OBVIOUS
<1>1. OwnInv
  BY DEF HandleInv
<1>2. CASE Start
  BY <1>1, <1>2, StartOwn, StartHandles
<1>3. ASSUME NEW t \in Threads, Begin(t) PROVE HandleInv'
  BY <1>1, <1>3, BeginOwn, BeginHandles
<1>4. ASSUME NEW t \in Threads,
             \/ CallerConverts(t) \/ LookupFails(t) \/ Lookup(t) \/ Convert(t) \/ Crash(t)
             \/ Size(t) \/ SizeFails(t) \/ Malloc(t) \/ MallocFails(t) \/ CallApi(t) \/ Release(t)
             \/ SetWorkspaceSizes(t) \/ Return(t) \/ Launch(t) \/ DeleteParams(t)
      PROVE  HandleInv'
  BY <1>1, <1>4, StepsOwn, StepsHandles
<1>5. CASE UNCHANGED fallbackVars
  BY <1>1, <1>5
     DEF fallbackVars, HandleInv, OwnInv, FallbackTypes, PlaceFits, AloneIsAlone, InMacro,
         HandlesFit, Handles, Slots, Param, Converted, Unreleased, Over, CallerMade, Releasable,
         FoundFunctions, Found, GetOpApiFuncAddr, GetAclnnAddrByApiName, InLib, Handle
<1> QED BY <1>2, <1>3, <1>4, <1>5 DEF FallbackNext

LEMMA HandleInvInit == FallbackInit => HandleInv
<1> SUFFICES ASSUME FallbackInit PROVE HandleInv
  OBVIOUS
<1>1. OwnInv
  BY NoCallIsRecord DEF FallbackInit, OwnInv, FallbackTypes, PlaceFits, AloneIsAlone, NoCall, InMacro,
                        AtRest, Outcomes
<1>2. \A t \in Threads : HandlesFit(t)
  BY DEF FallbackInit, HandlesFit, Converted, Unreleased, Over, Handles, NoCall, Slots
<1> QED BY <1>1, <1>2 DEF HandleInv, FallbackInit

\* A call that no other call overlaps reports its own outcome: nothing that earlier calls, also
\* overlapping ones, left in the static ret of EXEC_OPAPI_CMD and EXEC_OPAPI_PREPARE_CMD is returned.
\* Calls that overlap share ret, and nothing is promised of them.
THEOREM FallbackOutcomeIsOwn == FallbackSpec => []OutcomeIsOwn
<1>1. HandleInv => OutcomeIsOwn
  BY DEF HandleInv, OwnInv, AloneIsAlone, OutcomeIsOwn
<1> QED BY <1>1, HandleInvInit, HandleInvStep, PTL DEF FallbackSpec

\* No handle is destroyed twice, and none of a call that ran, or whose parameters were deleted,
\* is left (Release, Collect and OpApiParams).
THEOREM FallbackReleasesOnce == FallbackSpec => []HandlesReleasedOnce
<1>1. HandleInv => HandlesReleasedOnce
  <2> SUFFICES ASSUME HandleInv PROVE HandlesReleasedOnce
    OBVIOUS
  <2>1. ASSUME NEW t \in Threads,
               (call[t].at = "returned" /\ call[t].called) \/ (call[t].at = "deleted" /\ call[t].params # <<>>),
               NEW h \in Handles(t),
               Param(t, h[2]) = "handle", Found(Destroy(call[t].args[h[2]].kind))
        PROVE  state[h] = "gone"
    <3>1. Over(t) /\ HandlesFit(t)
      BY <2>1 DEF Over, HandleInv
    <3>2. h[2] \in Slots(t)
      BY <3>1 DEF HandlesFit
    <3>3. h[2] \in Releasable(t)
      BY <2>1, <3>2, FunctionsAre
    <3> QED BY <2>1, <3>1, <3>3 DEF HandlesFit
  <2> QED BY <2>1 DEF HandlesReleasedOnce, HandleInv
<1> QED BY <1>1, HandleInvInit, HandleInvStep, PTL DEF FallbackSpec

-----------------------------------------------------------------------------
(* The tensors made of the arguments.                                      *)

\* What the recursive functions of the model compute.
LEMMA RowMajorIs ==
    ASSUME NEW dims \in Seq(Nat), NEW at \in [1 .. Len(dims) -> Nat]
    PROVE  \E h \in [0 .. Len(dims) -> Nat] :
              /\ h[0] = 0
              /\ \A i \in 1 .. Len(dims) : h[i] = h[i - 1] * dims[i] + at[i]
              /\ RowMajor(dims, at) = h[Len(dims)]
<1> DEFINE n == Len(dims)
           Step == [i \in 1 .. n |-> [v \in Nat |-> v * dims[i] + at[i]]]
           F(h) == [i \in 0 .. n |-> IF i = 0 THEN 0 ELSE h[i - 1] * dims[i] + at[i]]
           h == CHOOSE g : g = F(g)
<1>0. n \in Nat /\ dims \in [1 .. n -> Nat]
  OBVIOUS
<1>1. Step \in [1 .. n -> [Nat -> Nat]]
  BY <1>0
<1>2. PICK f \in [0 .. n -> Nat] : f[0] = 0 /\ \A i \in 1 .. n : f[i] = Step[i][f[i - 1]]
  <2> DEFINE zero == 0
  <2>1. zero \in Nat
    OBVIOUS
  <2> HIDE DEF n, Step, zero
  <2>2. \E f \in [0 .. n -> Nat] : f[0] = zero /\ \A i \in 1 .. n : f[i] = Step[i][f[i - 1]]
    BY <1>0, <1>1, <2>1, FunctionUpTo
  <2> QED BY <2>2 DEF zero
<1>3. f = F(f)
  <2>1. ASSUME NEW i \in 0 .. n, i # 0 PROVE Step[i][f[i - 1]] = f[i - 1] * dims[i] + at[i]
    <3>1. i \in 1 .. n /\ i - 1 \in 0 .. n
      BY <2>1
    <3>2. f[i - 1] \in Nat
      BY <3>1
    <3> QED BY <3>1, <3>2
  <2>2. ASSUME NEW i \in 0 .. n PROVE f[i] = F(f)[i]
    <3>1. CASE i = 0
      BY <3>1, <1>2
    <3>2. CASE i # 0
      <4>1. f[i] = Step[i][f[i - 1]]
        <5> HIDE DEF Step
        <5> QED BY <3>2, <1>0, <1>2
      <4> HIDE DEF Step, n
      <4> QED BY <3>2, <4>1, <2>1
    <3> QED BY <3>1, <3>2
  <2>3. f = [i \in 0 .. n |-> f[i]] /\ F(f) = [i \in 0 .. n |-> F(f)[i]]
    OBVIOUS
  <2> HIDE DEF F
  <2> QED BY <2>2, <2>3
<1>4. h = F(h)
  <2> HIDE DEF F
  <2> QED BY <1>3
<1>5. RowMajor(dims, at) = h[n]
  BY DEF RowMajor
<1> HIDE DEF h
<1>6. h = [i \in 0 .. n |-> h[i]] /\ \A i \in 0 .. n : h[i] = F(h)[i]
  BY <1>4
<1>7. h[0] = 0
  <2>1. 0 \in 0 .. n
    BY <1>0
  <2> HIDE DEF n
  <2>2. F(h)[0] = 0
    BY <2>1
  <2> QED BY <2>1, <2>2, <1>6
<1>8. ASSUME NEW i \in 1 .. n PROVE h[i] = h[i - 1] * dims[i] + at[i]
  <2>1. i \in 0 .. n /\ i # 0
    OBVIOUS
  <2> HIDE DEF n
  <2>2. F(h)[i] = h[i - 1] * dims[i] + at[i]
    BY <2>1
  <2> QED BY <2>1, <2>2, <1>6
<1>9. \A i \in 0 .. n : h[i] \in Nat
  <2> DEFINE S == {k \in 0 .. n : h[k] \in Nat}
  <2>1. 0 \in S
    BY <1>7, <1>0
  <2>2. ASSUME NEW i \in 1 .. n, i - 1 \in S PROVE i \in S
    <3>1. h[i - 1] \in Nat /\ dims[i] \in Nat /\ at[i] \in Nat /\ i \in 0 .. n
      BY <2>2, <1>0
    <3>2. h[i - 1] * dims[i] + at[i] \in Nat
      BY <3>1
    <3> QED BY <3>1, <3>2, <1>8
  <2>3. \A i \in 0 .. n : i \in S
    <3> HIDE DEF S
    <3> QED BY <1>0, <2>1, <2>2, InductionUpTo
  <2> QED BY <2>3
<1>10. h \in [0 .. n -> Nat]
  BY <1>6, <1>9
<1> QED BY <1>5, <1>7, <1>8, <1>10
LEMMA AddressIs ==
    ASSUME NEW strides \in Seq(Nat), NEW at \in [1 .. Len(strides) -> Nat]
    PROVE  \E h \in [0 .. Len(strides) -> Nat] :
              /\ h[0] = 0
              /\ \A i \in 1 .. Len(strides) : h[i] = h[i - 1] + at[i] * strides[i]
              /\ Address(strides, at) = h[Len(strides)]
<1> DEFINE n == Len(strides)
           Step == [i \in 1 .. n |-> [v \in Nat |-> v + at[i] * strides[i]]]
           F(h) == [i \in 0 .. n |-> IF i = 0 THEN 0 ELSE h[i - 1] + at[i] * strides[i]]
           h == CHOOSE g : g = F(g)
<1>0. n \in Nat /\ strides \in [1 .. n -> Nat]
  OBVIOUS
<1>1. Step \in [1 .. n -> [Nat -> Nat]]
  BY <1>0
<1>2. PICK f \in [0 .. n -> Nat] : f[0] = 0 /\ \A i \in 1 .. n : f[i] = Step[i][f[i - 1]]
  <2> DEFINE zero == 0
  <2>1. zero \in Nat
    OBVIOUS
  <2> HIDE DEF n, Step, zero
  <2>2. \E f \in [0 .. n -> Nat] : f[0] = zero /\ \A i \in 1 .. n : f[i] = Step[i][f[i - 1]]
    BY <1>0, <1>1, <2>1, FunctionUpTo
  <2> QED BY <2>2 DEF zero
<1>3. f = F(f)
  <2>1. ASSUME NEW i \in 0 .. n, i # 0 PROVE Step[i][f[i - 1]] = f[i - 1] + at[i] * strides[i]
    <3>1. i \in 1 .. n /\ i - 1 \in 0 .. n
      BY <2>1
    <3>2. f[i - 1] \in Nat
      BY <3>1
    <3> QED BY <3>1, <3>2
  <2>2. ASSUME NEW i \in 0 .. n PROVE f[i] = F(f)[i]
    <3>1. CASE i = 0
      BY <3>1, <1>2
    <3>2. CASE i # 0
      <4>1. f[i] = Step[i][f[i - 1]]
        <5> HIDE DEF Step
        <5> QED BY <3>2, <1>0, <1>2
      <4> HIDE DEF Step, n
      <4> QED BY <3>2, <4>1, <2>1
    <3> QED BY <3>1, <3>2
  <2>3. f = [i \in 0 .. n |-> f[i]] /\ F(f) = [i \in 0 .. n |-> F(f)[i]]
    OBVIOUS
  <2> HIDE DEF F
  <2> QED BY <2>2, <2>3
<1>4. h = F(h)
  <2> HIDE DEF F
  <2> QED BY <1>3
<1>5. Address(strides, at) = h[n]
  BY DEF Address
<1> HIDE DEF h
<1>6. h = [i \in 0 .. n |-> h[i]] /\ \A i \in 0 .. n : h[i] = F(h)[i]
  BY <1>4
<1>7. h[0] = 0
  <2>1. 0 \in 0 .. n
    BY <1>0
  <2> HIDE DEF n
  <2>2. F(h)[0] = 0
    BY <2>1
  <2> QED BY <2>1, <2>2, <1>6
<1>8. ASSUME NEW i \in 1 .. n PROVE h[i] = h[i - 1] + at[i] * strides[i]
  <2>1. i \in 0 .. n /\ i # 0
    OBVIOUS
  <2> HIDE DEF n
  <2>2. F(h)[i] = h[i - 1] + at[i] * strides[i]
    BY <2>1
  <2> QED BY <2>1, <2>2, <1>6
<1>9. \A i \in 0 .. n : h[i] \in Nat
  <2> DEFINE S == {k \in 0 .. n : h[k] \in Nat}
  <2>1. 0 \in S
    BY <1>7, <1>0
  <2>2. ASSUME NEW i \in 1 .. n, i - 1 \in S PROVE i \in S
    <3>1. h[i - 1] \in Nat /\ strides[i] \in Nat /\ at[i] \in Nat /\ i \in 0 .. n
      BY <2>2, <1>0
    <3>2. h[i - 1] + at[i] * strides[i] \in Nat
      BY <3>1
    <3> QED BY <3>1, <3>2, <1>8
  <2>3. \A i \in 0 .. n : i \in S
    <3> HIDE DEF S
    <3> QED BY <1>0, <2>1, <2>2, InductionUpTo
  <2> QED BY <2>3
<1>10. h \in [0 .. n -> Nat]
  BY <1>6, <1>9
<1> QED BY <1>5, <1>7, <1>8, <1>10

LEMMA StridesIs ==
    ASSUME NEW dims \in Seq(Nat)
    PROVE  /\ Strides(dims) \in Seq(Nat) /\ Len(Strides(dims)) = Len(dims)
           /\ Strides(dims) \in [1 .. Len(dims) -> Nat]
           /\ Len(dims) > 0 => Strides(dims)[Len(dims)] = 1
           /\ \A i \in 1 .. Len(dims) - 1 : Strides(dims)[i] = dims[i + 1] * Strides(dims)[i + 1]
<1> DEFINE n == Len(dims)
           F(s) == [i \in DOMAIN dims |-> IF i = n THEN 1 ELSE dims[i + 1] * s[i + 1]]
           s == CHOOSE g : g = F(g)
<1>0. n \in Nat /\ dims \in [1 .. n -> Nat] /\ DOMAIN dims = 1 .. n
  OBVIOUS
<1>1. Strides(dims) = s
  BY DEF Strides
<1>2. CASE n = 0
  <2>1. DOMAIN dims = {}
    BY <1>0, <1>2
  <2>2. F(<<>>) = <<>>
    BY <2>1
  <2>3. s = F(s)
    <3> HIDE DEF F
    <3> QED BY <2>2
  <2>4. s = <<>>
    <3> HIDE DEF s
    <3> QED BY <2>1, <2>3
  <2> HIDE DEF s, F
  <2> QED BY <1>1, <1>2, <2>4
<1>3. CASE n # 0
  <2> DEFINE m == n - 1
             Step == [j \in 1 .. m |-> [v \in Nat |-> dims[n - j + 1] * v]]
  <2>0. m \in Nat /\ 1 \in Nat /\ m = n - 1
    BY <1>0, <1>3
  <2>1. Step \in [1 .. m -> [Nat -> Nat]]
    <3>1. ASSUME NEW j \in 1 .. m, NEW v \in Nat PROVE dims[n - j + 1] * v \in Nat
      <4>1. n - j + 1 \in 1 .. n
        BY <2>0, <1>0
      <4>2. dims[n - j + 1] \in Nat
        BY <4>1, <1>0
      <4> QED BY <4>2
    <3> HIDE DEF m, n
    <3> QED BY <3>1
  <2>2. PICK g \in [0 .. m -> Nat] : g[0] = 1 /\ \A j \in 1 .. m : g[j] = Step[j][g[j - 1]]
    <3> DEFINE c == 1
    <3>1. c \in Nat /\ m \in Nat
      BY <2>0
    <3>3. c = 1
      OBVIOUS
    <3> HIDE DEF m, n, Step, c, F, s
    <3>2. \E g \in [0 .. m -> Nat] : g[0] = c /\ \A j \in 1 .. m : g[j] = Step[j][g[j - 1]]
      BY <2>1, <3>1, FunctionUpTo
    <3> QED BY <3>2, <3>3
  <2> DEFINE r == [i \in 1 .. n |-> g[n - i]]
  <2>3. ASSUME NEW i \in 1 .. n PROVE r[i] = F(r)[i]
    <3>1. n - i \in 0 .. m /\ r[i] = g[n - i]
      BY <2>0, <1>0
    <3>2. CASE i = n
      <4>1. g[0] = 1
        BY <2>2
      <4> QED BY <3>1, <3>2, <4>1, <1>0
    <3>3. CASE i # n
      <4>1. n - i \in 1 .. m /\ i + 1 \in 1 .. n /\ n - (n - i) + 1 = i + 1 /\ (n - i) - 1 = n - (i + 1)
            /\ (n - i) - 1 \in 0 .. m
        <5> HIDE DEF n, m
        <5> QED BY <3>3, <2>0, <1>0
      <4>2. g[n - i] = Step[n - i][g[(n - i) - 1]]
        <5> HIDE DEF m, n, Step
        <5> QED BY <4>1, <3>1, <2>2
      <4>3. g[(n - i) - 1] \in Nat
        BY <4>1
      <4>4. Step[n - i][g[(n - i) - 1]] = dims[i + 1] * g[n - (i + 1)]
        <5> HIDE DEF m
        <5>1. Step[n - i] = [v \in Nat |-> dims[n - (n - i) + 1] * v]
          BY <4>1
        <5> HIDE DEF n, Step
        <5> QED BY <5>1, <4>1, <4>3
      <4>5. r[i + 1] = g[n - (i + 1)]
        BY <4>1
      <4>6. F(r)[i] = dims[i + 1] * r[i + 1]
        <5> HIDE DEF r
        <5> QED BY <3>3, <1>0
      <4> HIDE DEF F, r, Step, m, n
      <4> QED BY <3>1, <4>2, <4>4, <4>5, <4>6
    <3> QED BY <3>2, <3>3
  <2>4. r = F(r)
    <3>1. r = [i \in 1 .. n |-> r[i]]
      OBVIOUS
    <3> HIDE DEF r
    <3>2. F(r) = [i \in 1 .. n |-> F(r)[i]]
      <4> HIDE DEF n
      <4> QED BY <1>0
    <3> HIDE DEF F
    <3> QED BY <3>1, <3>2, <2>3
  <2>5. s = F(s)
    <3> HIDE DEF F, r
    <3> QED BY <2>4
  <2> HIDE DEF s
  <2>6. s = [i \in 1 .. n |-> s[i]] /\ \A i \in 1 .. n : s[i] = F(s)[i]
    BY <2>5, <1>0
  <2>7. s[n] = 1
    <3>1. n \in 1 .. n
      BY <1>0, <1>3
    <3>2. F(s)[n] = 1
      BY <3>1, <1>0
    <3> HIDE DEF F
    <3> QED BY <3>1, <3>2, <2>6
  <2>8. ASSUME NEW i \in 1 .. n - 1 PROVE s[i] = dims[i + 1] * s[i + 1]
    <3>1. i \in 1 .. n /\ i # n
      <4> HIDE DEF n
      <4> QED BY <1>0
    <3>2. F(s)[i] = dims[i + 1] * s[i + 1]
      <4> HIDE DEF n
      <4> QED BY <3>1, <1>0
    <3> HIDE DEF F
    <3> QED BY <3>1, <3>2, <2>6
  <2>9. \A i \in 1 .. n : s[i] \in Nat
    <3> DEFINE S == {j \in 0 .. m : s[n - j] \in Nat}
    <3>1. 0 \in S
      BY <2>7, <2>0, <1>0
    <3>2. ASSUME NEW j \in 1 .. m, j - 1 \in S PROVE j \in S
      <4>1. n - j \in 1 .. n - 1 /\ (n - j) + 1 = n - (j - 1) /\ (n - j) + 1 \in 1 .. n /\ j \in 0 .. m
        BY <2>0, <1>0
      <4>2. s[n - (j - 1)] \in Nat /\ dims[(n - j) + 1] \in Nat
        BY <3>2, <4>1, <1>0
      <4>3. s[n - j] = dims[(n - j) + 1] * s[(n - j) + 1]
        BY <4>1, <2>8
      <4>4. dims[(n - j) + 1] * s[(n - j) + 1] \in Nat
        <5> HIDE DEF n, s
        <5> QED BY <4>1, <4>2
      <4> QED BY <4>1, <4>3, <4>4
    <3>3. \A j \in 0 .. m : j \in S
      <4> HIDE DEF S, m
      <4> QED BY <2>0, <3>1, <3>2, InductionUpTo
    <3>4. ASSUME NEW i \in 1 .. n PROVE s[i] \in Nat
      <4>1. n - i \in 0 .. m /\ n - (n - i) = i
        BY <2>0, <1>0
      <4>2. s[n - (n - i)] \in Nat
        BY <4>1, <3>3
      <4> QED BY <4>1, <4>2
    <3> QED BY <3>4
  <2>10. s \in [1 .. n -> Nat]
    BY <2>6, <2>9
  <2>11. s \in Seq(Nat) /\ Len(s) = n
    BY <2>10, <1>0
  <2> QED BY <1>1, <2>7, <2>8, <2>10, <2>11
<1> QED BY <1>2, <1>3

\* Strides laid out row by row lead to the place of an element, Horner's rule from either end.
LEMMA StridesLeadThere ==
    ASSUME NEW dims \in Seq(Nat), NEW at \in [1 .. Len(dims) -> Nat]
    PROVE  Address(Strides(dims), at) = RowMajor(dims, at)
<1> DEFINE n == Len(dims)
           s == Strides(dims)
<1>0. n \in Nat /\ dims \in [1 .. n -> Nat] /\ at \in [1 .. n -> Nat]
  OBVIOUS
<1>1. /\ s \in Seq(Nat) /\ Len(s) = n /\ s \in [1 .. n -> Nat]
      /\ n > 0 => s[n] = 1
      /\ \A i \in 1 .. n - 1 : s[i] = dims[i + 1] * s[i + 1]
  BY StridesIs
<1> HIDE DEF s
<1>2. PICK a \in [0 .. n -> Nat] :
         /\ a[0] = 0
         /\ \A i \in 1 .. n : a[i] = a[i - 1] + at[i] * s[i]
         /\ Address(s, at) = a[n]
  <2>1. at \in [1 .. Len(s) -> Nat]
    BY <1>0, <1>1
  <2>2. \E a \in [0 .. Len(s) -> Nat] :
            /\ a[0] = 0
            /\ \A i \in 1 .. Len(s) : a[i] = a[i - 1] + at[i] * s[i]
            /\ Address(s, at) = a[Len(s)]
    BY <1>1, <2>1, AddressIs
  <2> HIDE DEF n
  <2> QED BY <1>1, <2>2
<1>3. PICK h \in [0 .. n -> Nat] :
         /\ h[0] = 0
         /\ \A i \in 1 .. n : h[i] = h[i - 1] * dims[i] + at[i]
         /\ RowMajor(dims, at) = h[n]
  BY RowMajorIs
<1> HIDE DEF n
<1> DEFINE S == {i \in 0 .. n : i # 0 => a[i] = h[i] * s[i]}
<1>4. 0 \in S
  BY <1>0
<1>5. ASSUME NEW i \in 1 .. n, i - 1 \in S PROVE i \in S
  <2>1. /\ a[i] = a[i - 1] + at[i] * s[i] /\ h[i] = h[i - 1] * dims[i] + at[i]
        /\ at[i] \in Nat /\ s[i] \in Nat /\ dims[i] \in Nat /\ h[i - 1] \in Nat /\ a[i - 1] \in Nat
        /\ i \in 0 .. n /\ i - 1 \in 0 .. n
    <3> HIDE DEF S
    <3>1. i \in 0 .. n /\ i - 1 \in 0 .. n
      BY <1>0
    <3>2. at[i] \in Nat /\ s[i] \in Nat /\ dims[i] \in Nat
      BY <1>0, <1>1
    <3>3. h[i - 1] \in Nat /\ a[i - 1] \in Nat
      BY <3>1
    <3> QED BY <3>1, <3>2, <3>3, <1>2, <1>3
  <2>2. a[i - 1] = h[i - 1] * (dims[i] * s[i])
    <3>1. CASE i = 1
      <4>1. a[i - 1] = 0 /\ h[i - 1] = 0
        BY <3>1, <1>2, <1>3
      <4>2. dims[i] * s[i] \in Nat
        <5> DEFINE x == dims[i]
                   y == s[i]
        <5>1. x \in Nat /\ y \in Nat
          BY <2>1
        <5> HIDE DEF x, y
        <5>2. x * y \in Nat
          BY <5>1
        <5> QED BY <5>2 DEF x, y
      <4> HIDE DEF S
      <4>3. 0 * (dims[i] * s[i]) = 0
        BY <4>2
      <4> QED BY <4>1, <4>3
    <3>2. CASE i # 1
      <4>1. i - 1 \in 1 .. n - 1 /\ (i - 1) + 1 = i
        BY <3>2, <1>0
      <4>2. s[i - 1] = dims[i] * s[i]
        BY <4>1, <1>1
      <4>3. a[i - 1] = h[i - 1] * s[i - 1]
        BY <1>5, <4>1
      <4> QED BY <4>2, <4>3
    <3> QED BY <3>1, <3>2
  <2>3. h[i - 1] * (dims[i] * s[i]) + at[i] * s[i] = (h[i - 1] * dims[i] + at[i]) * s[i]
    <3> HIDE DEF S
    <3> DEFINE u == h[i - 1]
               v == dims[i]
               w == s[i]
               x == at[i]
    <3>1. u \in Nat /\ v \in Nat /\ w \in Nat /\ x \in Nat
      BY <2>1
    <3>2. u * (v * w) + x * w = (u * v + x) * w
      <4> HIDE DEF u, v, w, x
      <4> QED BY <3>1
    <3> QED BY <3>2
  <2>4. a[i] = h[i] * s[i]
    <3> HIDE DEF S
    <3> QED BY <2>1, <2>2, <2>3
  <2> QED BY <2>1, <2>4
<1>6. \A i \in 0 .. n : i \in S
  <2> HIDE DEF S
  <2> QED BY <1>0, <1>4, <1>5, InductionUpTo
<1>7. CASE n = 0
  BY <1>7, <1>2, <1>3 DEF s
<1>8. CASE n # 0
  <2>1. n \in 0 .. n /\ n > 0 /\ n \in 1 .. n
    BY <1>0, <1>8
  <2>2. a[n] = h[n] * s[n] /\ s[n] = 1 /\ h[n] \in Nat
    BY <2>1, <1>1, <1>6, <1>8
  <2>3. a[n] = h[n]
    <3> HIDE DEF S
    <3> QED BY <2>2
  <2> QED BY <2>3, <1>2, <1>3 DEF s
<1> QED BY <1>7, <1>8

\* Swapping the last two.
LEMMA SwapIs ==
    ASSUME NEW T, NEW f \in Seq(T), Len(f) >= 2
    PROVE  /\ SwapLastTwo(f) \in Seq(T) /\ Len(SwapLastTwo(f)) = Len(f)
           /\ SwapLastTwo(f)[Len(f)] = f[Len(f) - 1] /\ SwapLastTwo(f)[Len(f) - 1] = f[Len(f)]
           /\ \A i \in 1 .. Len(f) - 2 : SwapLastTwo(f)[i] = f[i]
<1> DEFINE n == Len(f)
           g == [i \in 1 .. n |-> IF i = n THEN f[i - 1] ELSE IF i = n - 1 THEN f[i + 1] ELSE f[i]]
<1>0. n \in Nat /\ n >= 2 /\ f \in [1 .. n -> T] /\ DOMAIN f = 1 .. n
  OBVIOUS
<1>1. SwapLastTwo(f) = g
  BY <1>0 DEF SwapLastTwo
<1> HIDE DEF n
<1>2. ASSUME NEW i \in 1 .. n PROVE g[i] \in T
  <2>1. CASE i = n
    BY <2>1, <1>0
  <2>2. CASE i = n - 1
    BY <2>2, <1>0
  <2>3. CASE i # n /\ i # n - 1
    BY <2>3, <1>0
  <2> QED BY <2>1, <2>2, <2>3
<1>3. g \in [1 .. n -> T]
  <2>1. g = [i \in 1 .. n |-> g[i]]
    OBVIOUS
  <2> HIDE DEF g
  <2> QED BY <1>2, <2>1
<1>4. g[n] = f[n - 1] /\ g[n - 1] = f[n] /\ \A i \in 1 .. n - 2 : g[i] = f[i]
  BY <1>0
<1>5. g \in Seq(T) /\ Len(g) = n
  <2> HIDE DEF g
  <2> QED BY <1>0, <1>3
<1> QED
  <2> HIDE DEF g
  <2> QED BY <1>1, <1>4, <1>5 DEF n

LEMMA SwapTwice ==
    ASSUME NEW T, NEW f \in Seq(T), Len(f) >= 2
    PROVE  SwapLastTwo(SwapLastTwo(f)) = f
<1> DEFINE g == SwapLastTwo(f)
           h == SwapLastTwo(g)
           n == Len(f)
<1>1. /\ g \in Seq(T) /\ Len(g) = n /\ g[n] = f[n - 1] /\ g[n - 1] = f[n]
      /\ \A i \in 1 .. n - 2 : g[i] = f[i]
  BY SwapIs
<1> HIDE DEF g
<1>2. /\ h \in Seq(T) /\ Len(h) = n /\ h[n] = g[n - 1] /\ h[n - 1] = g[n]
      /\ \A i \in 1 .. n - 2 : h[i] = g[i]
  BY <1>1, SwapIs
<1> HIDE DEF h
<1>3. ASSUME NEW i \in 1 .. n PROVE h[i] = f[i]
  <2>1. i = n \/ i = n - 1 \/ i \in 1 .. n - 2
    OBVIOUS
  <2> HIDE DEF n
  <2> QED BY <2>1, <1>1, <1>2
<1>4. h = [i \in 1 .. n |-> h[i]] /\ f = [i \in 1 .. n |-> f[i]]
  BY <1>2
<1>5. h = f
  <2> HIDE DEF n
  <2> QED BY <1>3, <1>4
<1> QED BY <1>5 DEF h, g

LEMMA AddressSwapped ==
    ASSUME NEW s \in Seq(Nat), Len(s) >= 2, NEW at \in [1 .. Len(s) -> Nat]
    PROVE  Address(SwapLastTwo(s), at) = Address(s, SwapLastTwo(at))
<1> DEFINE n == Len(s)
           r == SwapLastTwo(s)
           to == SwapLastTwo(at)
<1>0. /\ n \in Nat /\ n >= 2 /\ s \in [1 .. n -> Nat] /\ at \in Seq(Nat) /\ Len(at) = n
      /\ at \in [1 .. n -> Nat]
  <2>1. n \in Nat /\ n >= 2
    OBVIOUS
  <2>2. s \in [1 .. n -> Nat]
    OBVIOUS
  <2>3. at \in [1 .. n -> Nat]
    OBVIOUS
  <2> HIDE DEF n
  <2>4. at \in Seq(Nat) /\ Len(at) = n
    BY <2>1, <2>3
  <2> QED BY <2>1, <2>2, <2>3, <2>4
<1>1. /\ r \in Seq(Nat) /\ Len(r) = n /\ r[n] = s[n - 1] /\ r[n - 1] = s[n]
      /\ \A i \in 1 .. n - 2 : r[i] = s[i]
  BY SwapIs
<1>2. /\ to \in Seq(Nat) /\ Len(to) = n /\ to[n] = at[n - 1] /\ to[n - 1] = at[n]
      /\ \A i \in 1 .. n - 2 : to[i] = at[i]
  <2> HIDE DEF n
  <2> QED BY <1>0, SwapIs
<1> HIDE DEF r, to
<1>3. to \in [1 .. n -> Nat]
  <2> HIDE DEF n
  <2> QED BY <1>2
<1>4. PICK a \in [0 .. n -> Nat] :
         /\ a[0] = 0
         /\ \A i \in 1 .. n : a[i] = a[i - 1] + at[i] * r[i]
         /\ Address(r, at) = a[n]
  <2>1. at \in [1 .. Len(r) -> Nat]
    BY <1>0, <1>1
  <2>2. \E a \in [0 .. Len(r) -> Nat] :
            /\ a[0] = 0
            /\ \A i \in 1 .. Len(r) : a[i] = a[i - 1] + at[i] * r[i]
            /\ Address(r, at) = a[Len(r)]
    BY <1>1, <2>1, AddressIs
  <2> HIDE DEF n
  <2> QED BY <1>1, <2>2
<1>5. PICK b \in [0 .. n -> Nat] :
         /\ b[0] = 0
         /\ \A i \in 1 .. n : b[i] = b[i - 1] + to[i] * s[i]
         /\ Address(s, to) = b[n]
  BY <1>3, AddressIs
<1> HIDE DEF n
<1> DEFINE S == {i \in 0 .. n - 2 : a[i] = b[i]}
<1>6. 0 \in S
  BY <1>0, <1>4, <1>5
<1>7. ASSUME NEW i \in 1 .. n - 2, i - 1 \in S PROVE i \in S
  <2>1. /\ a[i] = a[i - 1] + at[i] * r[i] /\ b[i] = b[i - 1] + to[i] * s[i]
        /\ r[i] = s[i] /\ to[i] = at[i] /\ a[i - 1] = b[i - 1] /\ i \in 0 .. n - 2
    <3>1. i \in 1 .. n /\ i \in 0 .. n - 2 /\ a[i - 1] = b[i - 1]
      BY <1>0, <1>7
    <3>2. r[i] = s[i] /\ to[i] = at[i]
      BY <1>1, <1>2
    <3> HIDE DEF S
    <3> QED BY <3>1, <3>2, <1>4, <1>5
  <2> QED BY <2>1
<1>8. n - 2 \in S
  <2>1. n - 2 \in Nat
    BY <1>0
  <2>2. \A i \in 0 .. n - 2 : i \in S
    <3> HIDE DEF S
    <3> QED BY <2>1, <1>6, <1>7, InductionUpTo
  <2> QED BY <2>1, <2>2
<1>9. /\ a[n] = a[n - 1] + at[n] * s[n - 1] /\ a[n - 1] = a[n - 2] + at[n - 1] * s[n]
      /\ b[n] = b[n - 1] + at[n - 1] * s[n] /\ b[n - 1] = b[n - 2] + at[n] * s[n - 1]
      /\ a[n - 2] = b[n - 2] /\ a[n - 2] \in Nat
  <2>1. n \in 1 .. n /\ n - 1 \in 1 .. n /\ (n - 1) - 1 = n - 2 /\ n - 2 \in 0 .. n
    BY <1>0
  <2>2. a[n] = a[n - 1] + at[n] * r[n] /\ b[n] = b[n - 1] + to[n] * s[n]
    BY <2>1, <1>4, <1>5
  <2>3. a[n - 1] = a[(n - 1) - 1] + at[n - 1] * r[n - 1] /\ b[n - 1] = b[(n - 1) - 1] + to[n - 1] * s[n - 1]
    BY <2>1, <1>4, <1>5
  <2>4. a[n - 2] = b[n - 2] /\ a[n - 2] \in Nat
    BY <2>1, <1>8
  <2> HIDE DEF S
  <2> QED BY <2>1, <2>2, <2>3, <2>4, <1>1, <1>2
<1>10. at[n] * s[n - 1] \in Nat /\ at[n - 1] * s[n] \in Nat
  <2> HIDE DEF S
  <2>2. n \in 1 .. n /\ n - 1 \in 1 .. n
    BY <1>0
  <2>1. at[n] \in Nat /\ s[n] \in Nat /\ at[n - 1] \in Nat /\ s[n - 1] \in Nat
    BY <1>0, <2>2
  <2>3. at[n] * s[n - 1] \in Nat
    BY <2>1
  <2>4. at[n - 1] * s[n] \in Nat
    BY <2>1
  <2> QED BY <2>3, <2>4
<1>11. a[n] = b[n]
  <2> DEFINE x == at[n] * s[n - 1]
             y == at[n - 1] * s[n]
  <2> HIDE DEF S, x, y
  <2>1. /\ a[n] = a[n - 1] + x /\ a[n - 1] = a[n - 2] + y /\ b[n] = b[n - 1] + y /\ b[n - 1] = b[n - 2] + x
        /\ x \in Nat /\ y \in Nat /\ a[n - 2] = b[n - 2] /\ a[n - 2] \in Nat
    BY <1>9, <1>10 DEF x, y
  <2> QED BY <2>1
<1> QED BY <1>4, <1>5, <1>11 DEF r, to

\* Every tensor made shows its argument, transposed or not.
LEMMA TensorsSeen ==
    ASSUME NEW arg, arg.kind \in {"tensor", "mm", "list"}, arg.dims \in Seq(Nat),
           arg.transpose \in BOOLEAN,
           arg.kind \in {"tensor", "list"} \/ (arg.kind = "mm" /\ Len(arg.dims) <= 1) =>
              arg.type \in ConvertibleTypes \cup {"FLOAT16"}
    PROVE  DescribesArgument(arg, View(arg))
<1> DEFINE dims == arg.dims
           swapped == arg.kind = "mm" /\ arg.transpose /\ Len(dims) > 1
<1>0. dims \in Seq(Nat) /\ Len(dims) \in Nat /\ DOMAIN dims = 1 .. Len(dims)
  OBVIOUS
<1>1. \A sizes \in Seq(Nat) : \A at \in Places(sizes) :
         at \in [1 .. Len(sizes) -> Nat] /\ at \in Seq(0 .. 3) /\ Len(at) = Len(sizes)
  <2> SUFFICES ASSUME NEW sizes \in Seq(Nat), NEW at \in Places(sizes)
               PROVE  at \in [1 .. Len(sizes) -> Nat] /\ at \in Seq(0 .. 3) /\ Len(at) = Len(sizes)
    OBVIOUS
  <2>1. at \in [1 .. Len(sizes) -> 0 .. 3] /\ Len(sizes) \in Nat
    BY DEF Places
  <2> DEFINE n == Len(sizes)
  <2>2. n \in Nat /\ at \in [1 .. n -> 0 .. 3]
    BY <2>1
  <2> HIDE DEF n
  <2>5. \A i \in 1 .. n : at[i] \in Nat
    <3>1. \A i \in 1 .. n : at[i] \in 0 .. 3
      BY <2>2
    <3>2. \A v \in 0 .. 3 : v \in Nat
      OBVIOUS
    <3> HIDE DEF n
    <3> QED BY <3>1, <3>2
  <2>3. at \in [1 .. n -> Nat]
    BY <2>2, <2>5
  <2>4. at \in Seq(0 .. 3) /\ Len(at) = n
    BY <2>2
  <2> QED BY <2>3, <2>4 DEF n
<1>2. CASE ~swapped
  <2>1. View(arg).type = arg.type
    <3>1. CASE arg.kind = "mm" /\ Len(dims) > 1
      BY <1>2, <3>1 DEF View, ConvertMmType
    <3>2. CASE arg.kind # "mm" \/ Len(dims) <= 1
      BY <3>2, <1>0 DEF View, ConvertMmType, ConvertType, GetConvertType
    <3> QED BY <3>1, <3>2, <1>0
  <2>2. View(arg).shape = dims /\ View(arg).strides = Strides(dims)
    BY <1>2, <1>0 DEF View, ConvertMmType, ConvertType
  <2>3. \A at \in Places(dims) : Address(Strides(dims), at) = RowMajor(dims, at)
    BY <1>0, <1>1, StridesLeadThere
  <2>4. {at : at \in Places(dims)} = Places(dims)
    OBVIOUS
  <2> QED BY <1>2, <2>1, <2>2, <2>3, <2>4 DEF DescribesArgument
<1>3. CASE swapped
  <2>1. /\ View(arg).type = arg.type /\ View(arg).shape = SwapLastTwo(dims)
        /\ View(arg).strides = SwapLastTwo(Strides(dims))
    BY <1>3, <1>0 DEF View, ConvertMmType
  <2>2. Len(dims) >= 2
    BY <1>3, <1>0
  <2> DEFINE turned == SwapLastTwo(dims)
  <2>3. /\ turned \in Seq(Nat) /\ Len(turned) = Len(dims) /\ DOMAIN turned = 1 .. Len(dims)
        /\ turned[Len(dims)] = dims[Len(dims) - 1] /\ turned[Len(dims) - 1] = dims[Len(dims)]
        /\ \A i \in 1 .. Len(dims) - 2 : turned[i] = dims[i]
        /\ SwapLastTwo(turned) = dims
    <3> HIDE DEF dims
    <3>1. /\ turned \in Seq(Nat) /\ Len(turned) = Len(dims)
          /\ turned[Len(dims)] = dims[Len(dims) - 1] /\ turned[Len(dims) - 1] = dims[Len(dims)]
          /\ \A i \in 1 .. Len(dims) - 2 : turned[i] = dims[i]
      BY <1>0, <2>2, SwapIs
    <3>2. SwapLastTwo(turned) = dims
      BY <1>0, <2>2, SwapTwice
    <3> HIDE DEF turned
    <3>3. DOMAIN turned = 1 .. Len(dims)
      BY <3>1
    <3> QED BY <3>1, <3>2, <3>3
  <2>4. ASSUME NEW sizes \in Seq(Nat), Len(sizes) >= 2, NEW at \in Places(sizes)
        PROVE  SwapLastTwo(at) \in Places(SwapLastTwo(sizes)) /\ SwapLastTwo(SwapLastTwo(at)) = at
    <3> DEFINE n == Len(sizes)
               to == SwapLastTwo(at)
               wide == SwapLastTwo(sizes)
    <3>1. at \in Seq(0 .. 3) /\ Len(at) = n /\ n \in Nat
      BY <1>1, <2>4
    <3>2. /\ to \in Seq(0 .. 3) /\ Len(to) = n /\ to[n] = at[n - 1] /\ to[n - 1] = at[n]
          /\ \A i \in 1 .. n - 2 : to[i] = at[i]
      <4> HIDE DEF n
      <4> QED BY <3>1, <2>4, SwapIs DEF n
    <3>3. /\ wide \in Seq(Nat) /\ Len(wide) = n /\ wide[n] = sizes[n - 1] /\ wide[n - 1] = sizes[n]
          /\ \A i \in 1 .. n - 2 : wide[i] = sizes[i]
      BY <2>4, SwapIs
    <3>4. \A i \in 1 .. n : at[i] < sizes[i]
      BY <2>4 DEF Places
    <3>5. SwapLastTwo(to) = at
      <4> HIDE DEF n
      <4> QED BY <3>1, <2>4, SwapTwice DEF n
    <3> HIDE DEF to, wide
    <3>6. ASSUME NEW i \in 1 .. n PROVE to[i] < wide[i]
      <4>1. i = n \/ i = n - 1 \/ i \in 1 .. n - 2
        BY <3>1
      <4>2. n \in 1 .. n /\ n - 1 \in 1 .. n
        BY <2>4, <3>1
      <4>3. i \in 1 .. n - 2 => to[i] < wide[i]
        BY <3>2, <3>3, <3>4
      <4>4. to[n] < wide[n] /\ to[n - 1] < wide[n - 1]
        BY <3>2, <3>3, <3>4, <4>2
      <4> HIDE DEF n
      <4> QED BY <4>1, <4>3, <4>4
    <3>7. to \in [DOMAIN wide -> 0 .. 3] /\ DOMAIN wide = 1 .. n
      BY <3>2, <3>3
    <3>8. to \in Places(wide)
      BY <3>6, <3>7 DEF Places
    <3> QED BY <3>5, <3>8 DEF to, wide
  <2> HIDE DEF turned
  <2>5. {SwapLastTwo(at) : at \in Places(turned)} = Places(dims)
    <3>1. ASSUME NEW at \in Places(turned) PROVE SwapLastTwo(at) \in Places(dims)
      BY <2>2, <2>3, <2>4
    <3>2. ASSUME NEW at \in Places(dims)
          PROVE  \E x \in Places(turned) : at = SwapLastTwo(x)
      <4>1. SwapLastTwo(at) \in Places(turned) /\ at = SwapLastTwo(SwapLastTwo(at))
        BY <1>0, <2>2, <2>4 DEF turned
      <4> QED BY <4>1
    <3> QED BY <3>1, <3>2
  <2>6. ASSUME NEW at \in Places(turned)
        PROVE  Address(SwapLastTwo(Strides(dims)), at) = RowMajor(dims, SwapLastTwo(at))
    <3>1. at \in [1 .. Len(dims) -> Nat] /\ SwapLastTwo(at) \in [1 .. Len(dims) -> Nat]
      <4>1. at \in [1 .. Len(turned) -> Nat]
        BY <1>1, <2>3
      <4>2. SwapLastTwo(at) \in Places(dims)
        BY <2>5
      <4> QED BY <4>1, <4>2, <1>0, <1>1, <2>3
    <3>2. Strides(dims) \in Seq(Nat) /\ Len(Strides(dims)) = Len(dims)
      BY <1>0, StridesIs
    <3>3. Address(SwapLastTwo(Strides(dims)), at) = Address(Strides(dims), SwapLastTwo(at))
      BY <2>2, <3>1, <3>2, AddressSwapped
    <3>4. Address(Strides(dims), SwapLastTwo(at)) = RowMajor(dims, SwapLastTwo(at))
      BY <1>0, <3>1, StridesLeadThere
    <3> QED BY <3>3, <3>4
  <2> QED BY <1>3, <2>1, <2>5, <2>6 DEF DescribesArgument, turned
<1> QED BY <1>2, <1>3

\* An operator's function is called with handles that are alive, and its tensors show the caller's
\* elements, transposed where the caller asked for that (ConvertType, ConvertMmType).
THEOREM FallbackApiSeesItsArguments == FallbackSpec => []ApiSeesItsArguments
<1>1. HandleInv => ApiSeesItsArguments
  <2> SUFFICES ASSUME HandleInv, NEW t \in Threads, call[t].at \in {"size", "api", "prepared"},
                      NEW i \in DOMAIN call[t].params, Param(t, i) = "handle"
               PROVE  /\ state[Handle(t, i, 0)] = "alive"
                      /\ call[t].args[i].kind \in {"tensor", "mm", "list"} =>
                             DescribesArgument(call[t].args[i], View(call[t].args[i]))
    BY DEF ApiSeesItsArguments
  <2>1. HandlesFit(t) /\ Converted(t) /\ Unreleased(t)
    BY DEF HandleInv, Converted, Unreleased
  <2>2. i \in Slots(t) /\ Handle(t, i, 0) \in DOMAIN state
    BY <2>1 DEF HandlesFit
  <2>3. state[Handle(t, i, 0)] = "alive"
    BY <2>1, <2>2 DEF HandlesFit, Handles, Handle
  <2>4. call[t].args \in ArgumentLists
    <3>1. call[t].args \in ArgumentLists \cup {<<>>}
      BY DEF HandleInv, OwnInv, FallbackTypes, CallRecords
    <3> QED BY <3>1, <2>2 DEF Slots
  <2>5. call[t].args[i].kind \in {"tensor", "mm", "list"} =>
            DescribesArgument(call[t].args[i], View(call[t].args[i]))
    <3> DEFINE arg == call[t].args[i]
    <3>1. /\ arg.dims \in Seq(Nat) /\ arg.transpose \in BOOLEAN
          /\ arg.kind \in {"tensor", "list"} \/ (arg.kind = "mm" /\ Len(arg.dims) <= 1) =>
                arg.type \in ConvertibleTypes \cup {"FLOAT16"}
      BY <2>2, <2>4, FallbackAssumption DEF Slots
    <3> HIDE DEF arg
    <3>2. arg.kind \in {"tensor", "mm", "list"} => DescribesArgument(arg, View(arg))
      BY <3>1, TensorsSeen
    <3> QED BY <3>2 DEF arg
  <2> QED BY <2>3, <2>5
<1> QED BY <1>1, HandleInvInit, HandleInvStep, PTL DEF FallbackSpec

-----------------------------------------------------------------------------
(* The cached tiling item.                                                 *)


ItemRecords ==
    [head : Nat \cup {None}, data : Buffers \cup {None}, size : Nat, workspaces : Nat,
     ws : Buffers \cup {None}, input : Nat \cup {None}]

\* An item whose last SetContext succeeded holds that tiling, in buffers that keep its bytes.
Holds(it, h, t) ==
    /\ it.head = t.input /\ it.input = t.input /\ it.size = t.size /\ it.workspaces = t.workspaces
    /\ t.size \in 1 .. MaxSize
    /\ it.data \in Buffers /\ h[it.data] = t.input
    /\ t.workspaces > 0 => it.ws \in Buffers /\ h[it.ws] = t.input

ItemInv ==
    /\ item \in [Items -> ItemRecords]
    /\ heap \in [Buffers -> Nat \cup {None}]
    /\ meant \in [Items -> Tilings \cup {None}]
    /\ \A i \in Items : meant[i] # None => Holds(item[i], heap, meant[i])

\* The items never hold all buffers: each holds at most two.
LEMMA BufferIsFree ==
    ASSUME NEW its \in [Items -> ItemRecords]
    PROVE  NewBuffer(its) \in Buffers /\ NewBuffer(its) \notin Held(its)
<1> DEFINE n == Cardinality(Items)
           D == {its[i].data : i \in Items}
           W == {its[i].ws : i \in Items}
<1>1. IsFiniteSet(Items) /\ n \in Nat
  BY ItemAssumption, FS_CardinalityType
<1>2. IsFiniteSet(D) /\ Cardinality(D) <= n
  <2> DEFINE f == [i \in Items |-> its[i].data]
  <2>1. f \in Surjection(Items, D)
    BY DEF Surjection
  <2> HIDE DEF f, D
  <2> QED BY <1>1, <2>1, FS_Surjection
<1>3. IsFiniteSet(W) /\ Cardinality(W) <= n
  <2> DEFINE f == [i \in Items |-> its[i].ws]
  <2>1. f \in Surjection(Items, W)
    BY DEF Surjection
  <2> HIDE DEF f, W
  <2> QED BY <1>1, <2>1, FS_Surjection
<1>4. Held(its) = D \cup W
  BY DEF Held
<1>5. IsFiniteSet(Held(its)) /\ Cardinality(Held(its)) <= n + n
  <2> HIDE DEF D, W, n
  <2>1. /\ IsFiniteSet(D \cup W)
        /\ Cardinality(D \cup W) = Cardinality(D) + Cardinality(W) - Cardinality(D \cap W)
    BY <1>2, <1>3, FS_Union
  <2>2. IsFiniteSet(D \cap W)
    <3>1. D \cap W \in SUBSET D
      OBVIOUS
    <3> QED BY <3>1, <1>2, FS_Subset
  <2>3. Cardinality(D \cap W) \in Nat /\ Cardinality(D) \in Nat /\ Cardinality(W) \in Nat
    BY <1>2, <1>3, <2>2, FS_CardinalityType
  <2> QED BY <1>1, <1>2, <1>3, <1>4, <2>1, <2>3
<1>6. Cardinality(Buffers) = 2 * n + 1
  <2>1. 1 \in Int /\ 2 * n + 1 \in Int /\ ~(1 > 2 * n + 1) /\ (2 * n + 1) - 1 + 1 = 2 * n + 1
    BY <1>1
  <2> HIDE DEF n
  <2>2. Cardinality(1 .. 2 * n + 1) = 2 * n + 1
    BY <1>1, <2>1, FS_Interval
  <2> QED BY <2>2 DEF Buffers, n
<1>7. ~(Buffers \subseteq Held(its))
  <2>1. SUFFICES ASSUME Buffers \in SUBSET Held(its) PROVE FALSE
    OBVIOUS
  <2>2. Cardinality(Buffers) <= Cardinality(Held(its))
    BY <1>5, <2>1, FS_Subset
  <2>3. Cardinality(Held(its)) \in Nat
    BY <1>5, FS_CardinalityType
  <2> HIDE DEF n
  <2> QED BY <1>1, <1>5, <1>6, <2>2, <2>3
<1> QED BY <1>7 DEF NewBuffer

LEMMA BuffersAreNat == Buffers \subseteq Nat /\ None \notin Buffers
BY ItemAssumption, FS_CardinalityType DEF Buffers

\* What a step leaves of an item that it does not touch, and of one that it copies.
LEMMA ItemKept ==
    ASSUME NEW its \in [Items -> ItemRecords], NEW h, NEW j \in Items, NEW t,
           Holds(its[j], h, t)
    PROVE  Holds(its[j], Reclaimed(h, its), t)
BY DEF Holds, Reclaimed, Held

\* Buffers that are not held may be written.
LEMMA HoldsElsewhere ==
    ASSUME NEW it, NEW h, NEW g, NEW t, Holds(it, h, t),
           \A b \in Buffers : b = it.data \/ b = it.ws => g[b] = h[b]
    PROVE  Holds(it, g, t)
BY DEF Holds

LEMMA SetContextHolds ==
    ASSUME ItemInv, NEW i \in Items, NEW t \in Tilings, SetContext(i, t)
    PROVE  ItemInv'
<1> DEFINE b == NewBuffer(item)
           half == [item EXCEPT ![i] = DataSaved(item[i], t, b)]
           w == NewBuffer(half)
           rec == [AllSaved(item[i], t, b, w) EXCEPT !.input = t.input]
           its == [item EXCEPT ![i] = rec]
           h == [heap EXCEPT ![b] = t.input, ![w] = IF t.workspaces > 0 THEN t.input ELSE @]
<1>8. /\ t.size \in 1 .. MaxSize
      /\ item' = its
      /\ heap' = Reclaimed(h, its)
      /\ meant' = [meant EXCEPT ![i] = t]
  BY DEF SetContext
<1>0. t \in [input : Nat, size : Nat, workspaces : Nat] /\ item[i] \in ItemRecords
  BY ItemAssumption DEF ItemInv
<1>1. b \in Buffers /\ b \notin Held(item)
  BY BufferIsFree DEF ItemInv
<1> HIDE DEF b
<1>2. DataSaved(item[i], t, b) \in ItemRecords /\ DataSaved(item[i], t, b).data = b
      /\ DataSaved(item[i], t, b).ws = item[i].ws
  BY <1>0, <1>1 DEF DataSaved, HeadSaved, ItemRecords
<1>3. half \in [Items -> ItemRecords] /\ half[i] = DataSaved(item[i], t, b)
      /\ \A j \in Items \ {i} : half[j] = item[j]
  BY <1>2 DEF ItemInv
<1> HIDE DEF half
<1>4. w \in Buffers /\ w \notin Held(half)
  BY <1>3, BufferIsFree
<1> HIDE DEF w
<1>5. w # b /\ \A j \in Items \ {i} : w # item[j].data /\ w # item[j].ws
  BY <1>2, <1>3, <1>4 DEF Held
<1>6. \A j \in Items : b # item[j].data /\ b # item[j].ws
  BY <1>1 DEF Held
<1>7. /\ rec \in ItemRecords /\ rec.head = t.input /\ rec.input = t.input /\ rec.size = t.size
      /\ rec.workspaces = t.workspaces /\ rec.data = b
      /\ t.workspaces > 0 => rec.ws = w
  BY <1>0, <1>1, <1>4 DEF AllSaved, DataSaved, HeadSaved, ItemRecords
<1> HIDE DEF rec
<1>9. /\ its \in [Items -> ItemRecords] /\ its[i] = rec
      /\ \A j \in Items \ {i} : its[j] = item[j]
  BY <1>7 DEF ItemInv
<1>10. /\ h \in [Buffers -> Nat \cup {None}] /\ h[b] = t.input
       /\ t.workspaces > 0 => h[w] = t.input
       /\ \A c \in Buffers \ {b, w} : h[c] = heap[c]
  BY <1>0, <1>1, <1>4, <1>5 DEF ItemInv
<1> HIDE DEF its, h
<1>11. heap' \in [Buffers -> Nat \cup {None}]
  BY <1>8, <1>10 DEF Reclaimed
<1>12. ASSUME NEW j \in Items, meant'[j] # None PROVE Holds(its[j], h, meant'[j])
  <2>1. CASE j = i
    BY <2>1, <1>0, <1>1, <1>4, <1>7, <1>8, <1>9, <1>10 DEF Holds, ItemInv
  <2>2. CASE j # i
    <3>1. Holds(item[j], heap, meant[j]) /\ meant'[j] = meant[j]
      BY <2>2, <1>8, <1>12 DEF ItemInv
    <3>2. \A c \in Buffers : c = item[j].data \/ c = item[j].ws => h[c] = heap[c]
      BY <2>2, <1>5, <1>6, <1>10
    <3>3. Holds(item[j], h, meant[j])
      BY <3>1, <3>2, HoldsElsewhere
    <3> QED BY <2>2, <1>9, <3>1, <3>3
  <2> QED BY <2>1, <2>2
<1>13. ASSUME NEW j \in Items, meant'[j] # None PROVE Holds(item'[j], heap', meant'[j])
  BY <1>8, <1>9, <1>12, <1>13, ItemKept
<1> QED BY <1>0, <1>8, <1>9, <1>11, <1>13 DEF ItemInv

\* A SetContext that fails may leave anything in its item, and writes no buffer another one holds.
LEMMA SaveLeavesHolds ==
    ASSUME ItemInv, NEW i \in Items, NEW it \in ItemRecords,
           NEW h \in [Buffers -> Nat \cup {None}],
           \A j \in Items \ {i}, c \in Buffers :
               c = item[j].data \/ c = item[j].ws => h[c] = heap[c],
           SaveLeaves(i, it, h)
    PROVE  ItemInv'
<1> DEFINE its == [item EXCEPT ![i] = it]
<1>1. item' = its /\ heap' = Reclaimed(h, its) /\ meant' = [meant EXCEPT ![i] = None]
  BY DEF SaveLeaves
<1>2. /\ its \in [Items -> ItemRecords]
      /\ \A j \in Items \ {i} : its[j] = item[j]
  BY DEF ItemInv
<1> HIDE DEF its
<1>3. heap' \in [Buffers -> Nat \cup {None}]
  BY <1>1 DEF Reclaimed
<1>4. meant' \in [Items -> Tilings \cup {None}]
  BY <1>1 DEF ItemInv
<1>5. ASSUME NEW j \in Items, meant'[j] # None PROVE Holds(item'[j], heap', meant'[j])
  <2>1. j # i /\ meant'[j] = meant[j] /\ Holds(item[j], heap, meant[j])
    BY <1>1, <1>5 DEF ItemInv
  <2>2. Holds(its[j], h, meant[j])
    BY <1>2, <2>1, HoldsElsewhere
  <2> QED BY <1>1, <1>2, <2>1, <2>2, ItemKept
<1> QED BY <1>1, <1>2, <1>3, <1>4, <1>5 DEF ItemInv

LEMMA SaveFails ==
    ASSUME ItemInv, NEW i \in Items, NEW t \in Tilings,
           SaveFailsAtHead(i, t) \/ SaveFailsAtData(i, t) \/ SaveFailsAtWorkspaces(i, t)
    PROVE  ItemInv'
<1> DEFINE b == NewBuffer(item)
           half == [item EXCEPT ![i] = DataSaved(item[i], t, b)]
           w == NewBuffer(half)
           h == [heap EXCEPT ![b] = t.input]
<1>0. t \in [input : Nat, size : Nat, workspaces : Nat] /\ item[i] \in ItemRecords
      /\ heap \in [Buffers -> Nat \cup {None}]
  BY ItemAssumption DEF ItemInv
<1>1. HeadSaved(item[i], t) \in ItemRecords
  BY <1>0 DEF HeadSaved, ItemRecords
<1>2. CASE SaveFailsAtHead(i, t)
  BY <1>0, <1>1, <1>2, SaveLeavesHolds DEF SaveFailsAtHead
<1>3. b \in Buffers /\ b \notin Held(item)
  BY BufferIsFree DEF ItemInv
<1>4. CASE SaveFailsAtData(i, t)
  <2>1. \E d \in {None, b} : SaveLeaves(i, [HeadSaved(item[i], t) EXCEPT !.data = d], heap)
    BY <1>4 DEF SaveFailsAtData
  <2> HIDE DEF b
  <2>2. PICK d \in {None, b} : SaveLeaves(i, [HeadSaved(item[i], t) EXCEPT !.data = d], heap)
    BY <2>1
  <2>3. [HeadSaved(item[i], t) EXCEPT !.data = d] \in ItemRecords
    BY <1>1, <1>3 DEF ItemRecords
  <2> QED BY <1>0, <2>2, <2>3, SaveLeavesHolds
<1>5. CASE SaveFailsAtWorkspaces(i, t)
  <2>1. \E v \in {None, w} : SaveLeaves(i, [DataSaved(item[i], t, b) EXCEPT !.ws = v], h)
    BY <1>5 DEF SaveFailsAtWorkspaces
  <2> HIDE DEF b
  <2>2. DataSaved(item[i], t, b) \in ItemRecords
    BY <1>0, <1>3 DEF DataSaved, HeadSaved, ItemRecords
  <2>3. half \in [Items -> ItemRecords]
    BY <2>2 DEF ItemInv
  <2> HIDE DEF half
  <2>4. w \in Buffers
    BY <2>3, BufferIsFree
  <2> HIDE DEF w
  <2>5. PICK v \in {None, w} : SaveLeaves(i, [DataSaved(item[i], t, b) EXCEPT !.ws = v], h)
    BY <2>1
  <2>6. [DataSaved(item[i], t, b) EXCEPT !.ws = v] \in ItemRecords
    BY <2>2, <2>4 DEF ItemRecords
  <2>7. h \in [Buffers -> Nat \cup {None}]
    BY <1>0, <1>3
  <2>8. \A j \in Items \ {i}, c \in Buffers : c = item[j].data \/ c = item[j].ws => h[c] = heap[c]
    BY <1>0, <1>3 DEF Held
  <2> HIDE DEF h
  <2> QED BY <2>5, <2>6, <2>7, <2>8, SaveLeavesHolds
<1> QED BY <1>2, <1>4, <1>5

LEMMA CopyHolds ==
    ASSUME ItemInv, NEW i \in Items, NEW j \in Items, Copy(i, j)
    PROVE  ItemInv'
<1>1. /\ item' = [item EXCEPT ![j] = item[i]]
      /\ heap' = Reclaimed(heap, item')
      /\ meant' = [meant EXCEPT ![j] = meant[i]]
  BY DEF Copy, Assigned
<1>2. /\ item' \in [Items -> ItemRecords] /\ heap' \in [Buffers -> Nat \cup {None}]
      /\ meant' \in [Items -> Tilings \cup {None}]
  BY <1>1 DEF ItemInv, Reclaimed
<1>3. ASSUME NEW k \in Items, meant'[k] # None PROVE Holds(item'[k], heap', meant'[k])
  <2>1. Holds(item'[k], heap, meant'[k])
    BY <1>1, <1>3 DEF ItemInv
  <2> QED BY <1>1, <1>2, <2>1, ItemKept
<1> QED BY <1>2, <1>3 DEF ItemInv

LEMMA ItemInvInit == Init => ItemInv
<1> SUFFICES ASSUME Init PROVE ItemInv
  OBVIOUS
<1>1. Empty \in ItemRecords
  BY DEF Empty, ItemRecords
<1> QED BY <1>1 DEF Init, ItemInv

LEMMA ItemInvStep == ItemInv /\ [Next]_vars => ItemInv'
<1> SUFFICES ASSUME ItemInv, [Next]_vars PROVE ItemInv'
  OBVIOUS
<1>1. CASE UNCHANGED vars
  BY <1>1 DEF vars, ItemInv
<1>2. ASSUME NEW i \in Items, NEW t \in Tilings, SetContext(i, t) PROVE ItemInv'
  BY <1>2, SetContextHolds
<1>3. ASSUME NEW i \in Items, NEW t \in Tilings,
             SaveFailsAtHead(i, t) \/ SaveFailsAtData(i, t) \/ SaveFailsAtWorkspaces(i, t)
      PROVE  ItemInv'
  BY <1>3, SaveFails
<1>4. ASSUME NEW i \in Items, NEW j \in Items, Copy(i, j) PROVE ItemInv'
  BY <1>4, CopyHolds
<1> QED BY <1>1, <1>2, <1>3, <1>4 DEF Next

\* What GetContext takes from an item is, in every part, the tiling the last SetContext behind
\* the item was given: for any number of items, and any tilings.
THEOREM ItemLoadsWhatWasMeant == Spec => []LoadsWhatWasMeant
<1>1. ItemInv => LoadsWhatWasMeant
  <2> SUFFICES ASSUME ItemInv, NEW i \in Items, meant[i] # None
               PROVE  /\ item[i].input = meant[i].input
                      /\ Loaded(i, MaxSize) =
                           [head |-> meant[i].input, data |-> meant[i].input,
                            size |-> meant[i].size, workspaces |-> meant[i].workspaces,
                            ws |-> IF meant[i].workspaces > 0 THEN meant[i].input ELSE None]
    BY DEF LoadsWhatWasMeant
  <2>1. Holds(item[i], heap, meant[i]) /\ meant[i] \in [input : Nat, size : Nat, workspaces : Nat]
    BY ItemAssumption DEF ItemInv
  <2>2. /\ item[i].data # None /\ item[i].size <= MaxSize
        /\ item[i].workspaces > 0 => item[i].ws # None
    BY <2>1, BuffersAreNat DEF Holds
  <2>3. /\ item[i].input = meant[i].input /\ item[i].head = meant[i].input
        /\ item[i].size = meant[i].size /\ item[i].workspaces = meant[i].workspaces
        /\ heap[item[i].data] = meant[i].input
        /\ meant[i].workspaces > 0 => heap[item[i].ws] = meant[i].input
    BY <2>1 DEF Holds
  <2>4. ~(item[i].data = None \/ item[i].size > MaxSize \/ (item[i].workspaces > 0 /\ item[i].ws = None))
    BY <2>1, <2>2, <2>3, ItemAssumption
  <2> QED BY <2>3, <2>4 DEF Loaded
<1> QED BY <1>1, ItemInvInit, ItemInvStep, PTL DEF Spec

-----------------------------------------------------------------------------
(* The legacy library.                                                     *)
\* What lies above the end of a path.
LEMMA UpIs ==
    ASSUME NEW S, NEW r \in Seq(S), NEW t \in Seq(S)
    PROVE  Up(r \o t, Len(t)) = r
<1> DEFINE p == r \o t
<1>1. p \in Seq(S) /\ Len(p) = Len(r) + Len(t) /\ Len(r) \in Nat /\ Len(t) \in Nat
  OBVIOUS
<1>2. \A i \in 1 .. Len(r) : p[i] = r[i]
  OBVIOUS
<1> HIDE DEF p
<1>3. SubSeq(p, 1, Len(r)) \in Seq(S) /\ Len(SubSeq(p, 1, Len(r))) = Len(r)
      /\ \A i \in 1 .. Len(r) : SubSeq(p, 1, Len(r))[i] = p[i]
  BY <1>1
<1>4. SubSeq(p, 1, Len(r)) = r
  BY <1>1, <1>2, <1>3
<1>5. (IF Len(p) > Len(t) THEN Len(p) - Len(t) ELSE 0) = Len(r)
  BY <1>1
<1> QED BY <1>4, <1>5 DEF Up, p

LEMMA UpUp ==
    ASSUME NEW S, NEW p \in Seq(S), NEW m \in Nat, NEW n \in Nat
    PROVE  Up(Up(p, m), n) = Up(p, m + n)
<1> DEFINE a == IF Len(p) > m THEN Len(p) - m ELSE 0
           b == IF Len(p) > m + n THEN Len(p) - (m + n) ELSE 0
           q == SubSeq(p, 1, a)
<1>1. a \in 0 .. Len(p) /\ b \in 0 .. a /\ Len(p) \in Nat
      /\ b = IF a > n THEN a - n ELSE 0
  OBVIOUS
<1> HIDE DEF a, b
<1>2. q \in Seq(S) /\ Len(q) = a /\ \A i \in 1 .. a : q[i] = p[i]
  BY <1>1
<1>3. SubSeq(p, 1, b) \in Seq(S) /\ Len(SubSeq(p, 1, b)) = b
      /\ \A i \in 1 .. b : SubSeq(p, 1, b)[i] = p[i]
  BY <1>1
<1> HIDE DEF q
<1>4. SubSeq(q, 1, b) \in Seq(S) /\ Len(SubSeq(q, 1, b)) = b
      /\ \A i \in 1 .. b : SubSeq(q, 1, b)[i] = q[i]
  BY <1>1, <1>2
<1>5. SubSeq(q, 1, b) = SubSeq(p, 1, b)
  BY <1>1, <1>2, <1>3, <1>4
<1> QED BY <1>1, <1>2, <1>5 DEF Up, a, b, q

LEMMA EndsWith ==
    ASSUME NEW S, NEW r \in Seq(S), NEW t \in Seq(S), Len(t) > 0
    PROVE  CurrSoName(r \o t) = t[Len(t)]
BY DEF CurrSoName

\* What a name on a path can be.
Word == STRING \cup {Arch, LEGACY_SO_NAME} \cup SoNames
          \cup {"opp", "vendors", "op_impl", "ai_core", "tbe", "op_tiling", "lib", "linux", "op_api",
                "built-in", "op_host"}

LEMMA PlaceOf ==
    ASSUME NEW root \in Seq(Word), NEW tail \in Seq(Word), Len(tail) > 0
    PROVE  /\ CurrSoName(root \o tail) = tail[Len(tail)]
           /\ Up(ParentPath(root \o tail), Len(tail) - 1) = root
<1> DEFINE so == root \o tail
           one == 1
           n == Len(tail) - 1
<1>1. so \in Seq(Word) /\ one \in Nat /\ n \in Nat /\ one + n = Len(tail)
  OBVIOUS
<1>2. CurrSoName(so) = tail[Len(tail)]
  BY EndsWith
<1>3. Up(so, Len(tail)) = root
  BY UpIs
<1>4. ParentPath(so) = Up(so, one)
  BY DEF ParentPath
<1> HIDE DEF so, n, one
<1>5. Up(Up(so, one), n) = Up(so, one + n)
  BY <1>1, UpUp
<1>6. Up(ParentPath(so), n) = root
  BY <1>1, <1>3, <1>4, <1>5
<1> QED BY <1>2, <1>6 DEF so, n

LEMMA Words == OPHOST_PATH \in Seq(Word) /\ <<"opp">> \in Seq(Word)
BY DEF OPHOST_PATH, Word

LEMMA TwoNames ==
    ASSUME NEW p \in Seq(Word), NEW a \in Word, NEW b \in Word
    PROVE  (p \o <<a>>) \o <<b>> = p \o <<a, b>>
<1> DEFINE u == (p \o <<a>>) \o <<b>>
           v == p \o <<a, b>>
<1>1. u \in Seq(Word) /\ Len(u) = Len(p) + 2 /\ v \in Seq(Word) /\ Len(v) = Len(p) + 2 /\ Len(p) \in Nat
  OBVIOUS
<1>2. ASSUME NEW i \in 1 .. Len(p) + 2 PROVE u[i] = v[i]
  OBVIOUS
<1> HIDE DEF u, v
<1>3. u = v
  BY <1>1, <1>2
<1> QED BY <1>3 DEF u, v

\* The four places of a library, and the legacy library seen from each.
LEMMA BesideIt ==
    ASSUME NEW opp \in Seq(Word), NEW so,
           so = opp \o OPHOST_PATH \o <<Arch, OPHOST_BUILTIN_SO_NAME>>
    PROVE  /\ CurrSoName(so) = OPHOST_BUILTIN_SO_NAME
           /\ SoPathForBuiltin(so) = {InOpp(opp)}
<1> DEFINE dir == opp \o OPHOST_PATH
           file == OPHOST_BUILTIN_SO_NAME
<1>1. dir \in Seq(Word) /\ Arch \in Word /\ file \in Word /\ LEGACY_SO_NAME \in Word
  BY Words DEF Word, SoNames
<1>2. so = dir \o <<Arch, file>> /\ InOpp(opp) = dir \o <<Arch, LEGACY_SO_NAME>>
  BY DEF InOpp
<1> HIDE DEF dir, file
<1> DEFINE tail == <<Arch, file>>
<1>3. tail \in Seq(Word) /\ Len(tail) > 0 /\ Len(tail) = 2 /\ tail[2] = file
  BY <1>1
<1> HIDE DEF tail
<1>4. CurrSoName(so) = file
  <2>1. CurrSoName(dir \o tail) = tail[Len(tail)]
    BY <1>1, <1>3, PlaceOf
  <2> QED BY <1>2, <1>3, <2>1 DEF tail
<1>5. so = (dir \o <<Arch>>) \o <<file>> /\ InOpp(opp) = (dir \o <<Arch>>) \o <<LEGACY_SO_NAME>>
  BY <1>1, <1>2, TwoNames
<1>6. dir \o <<Arch>> \in Seq(Word) /\ <<file>> \in Seq(Word) /\ Len(<<file>>) = 1
  BY <1>1
<1>7. ParentPath(so) = dir \o <<Arch>>
  BY <1>5, <1>6, UpIs DEF ParentPath
<1> QED BY <1>4, <1>5, <1>7 DEF SoPathForBuiltin, file

LEMMA BuiltinApi ==
    ASSUME NEW root \in Seq(Word), NEW a \in Word, NEW b \in Word, NEW so,
           so = root \o <<a, b, OPAPI_BUILTIN_SO_NAME>>
    PROVE  /\ CurrSoName(so) = OPAPI_BUILTIN_SO_NAME
           /\ SoPathForBuiltin(so) = {InOpp(root \o <<"opp">>)}
<1> DEFINE tail == <<a, b, OPAPI_BUILTIN_SO_NAME>>
<1>1. tail \in Seq(Word) /\ Len(tail) > 0 /\ Len(tail) = 3 /\ tail[3] = OPAPI_BUILTIN_SO_NAME
  BY DEF Word, SoNames
<1> HIDE DEF tail
<1>2. CurrSoName(root \o tail) = tail[Len(tail)] /\ Up(ParentPath(root \o tail), Len(tail) - 1) = root
  BY <1>1, PlaceOf
<1>3. CurrSoName(so) = OPAPI_BUILTIN_SO_NAME /\ Up(ParentPath(so), 2) = root
  BY <1>1, <1>2 DEF tail
<1> QED BY <1>3
        DEF SoPathForBuiltin, OPHOST_BUILTIN_SO_NAME, OPAPI_BUILTIN_SO_NAME

LEMMA CustomHost ==
    ASSUME NEW root \in Seq(Word), NEW a \in Word, NEW b \in Word, NEW so,
           so = root \o <<"opp", "vendors", a, "op_impl", "ai_core", "tbe", "op_tiling", "lib", "linux", b,
                          OPHOST_CUSTOM_SO_NAME>>
    PROVE  /\ CurrSoName(so) = OPHOST_CUSTOM_SO_NAME
           /\ SoPathForBuiltin(so) = {} /\ SoPathForCustomOp(so) = {InOpp(root \o <<"opp">>)}
<1> DEFINE tail == <<"opp", "vendors", a, "op_impl", "ai_core", "tbe", "op_tiling", "lib", "linux", b,
                     OPHOST_CUSTOM_SO_NAME>>
<1>1. tail \in Seq(Word) /\ Len(tail) > 0 /\ Len(tail) = 11 /\ tail[11] = OPHOST_CUSTOM_SO_NAME
  BY DEF Word, SoNames
<1> HIDE DEF tail
<1>2. CurrSoName(root \o tail) = tail[Len(tail)] /\ Up(ParentPath(root \o tail), Len(tail) - 1) = root
  BY <1>1, PlaceOf
<1>3. CurrSoName(so) = OPHOST_CUSTOM_SO_NAME /\ Up(ParentPath(so), 10) = root
  BY <1>1, <1>2 DEF tail
<1> QED BY <1>3
        DEF SoPathForBuiltin, SoPathForCustomOp, OPHOST_BUILTIN_SO_NAME, OPAPI_BUILTIN_SO_NAME,
            OPHOST_CUSTOM_SO_NAME

LEMMA CustomApi ==
    ASSUME NEW root \in Seq(Word), NEW a \in Word, NEW so,
           so = root \o <<"opp", "vendors", a, "op_api", "lib", OPAPI_CUSTOM_SO_NAME>>
    PROVE  /\ CurrSoName(so) = OPAPI_CUSTOM_SO_NAME
           /\ SoPathForBuiltin(so) = {} /\ SoPathForCustomOp(so) = {InOpp(root \o <<"opp">>)}
<1> DEFINE tail == <<"opp", "vendors", a, "op_api", "lib", OPAPI_CUSTOM_SO_NAME>>
<1>1. tail \in Seq(Word) /\ Len(tail) > 0 /\ Len(tail) = 6 /\ tail[6] = OPAPI_CUSTOM_SO_NAME
  BY DEF Word, SoNames
<1> HIDE DEF tail
<1>2. CurrSoName(root \o tail) = tail[Len(tail)] /\ Up(ParentPath(root \o tail), Len(tail) - 1) = root
  BY <1>1, PlaceOf
<1>3. CurrSoName(so) = OPAPI_CUSTOM_SO_NAME /\ Up(ParentPath(so), 5) = root
  BY <1>1, <1>2 DEF tail
<1> QED BY <1>3
        DEF SoPathForBuiltin, SoPathForCustomOp, OPHOST_BUILTIN_SO_NAME, OPAPI_BUILTIN_SO_NAME,
            OPHOST_CUSTOM_SO_NAME, OPAPI_CUSTOM_SO_NAME

\* From wherever this library is, the search ends at its own legacy library, if that is present.
LEMMA FindsOwn ==
    ASSUME NEW i \in Installations, i.own \cap DOMAIN i.symbols # {}
    PROVE  \E f : /\ i.own = {f} /\ f # Closed /\ f \in DOMAIN i.symbols
                  /\ LegacyCommonSoPath(i.so, i.files) = {f}
<1> DEFINE so == i.so
<1>1. so \in Seq(Word) /\ DOMAIN i.symbols \subseteq i.files
  <2>1. so \in Seq(STRING) /\ DOMAIN i.symbols \subseteq i.files
    BY LegacyAssumption
  <2> QED BY <2>1 DEF Word
<1>2. ASSUME NEW k \in 0 .. Len(so), InstalledAt(SubSeq(so, 1, k), so),
             i.own = {InOpp(SubSeq(so, 1, k) \o <<"opp">>)}
      PROVE  \E f : /\ i.own = {f} /\ f # Closed /\ f \in DOMAIN i.symbols
                    /\ LegacyCommonSoPath(i.so, i.files) = {f}
  <2> DEFINE root == SubSeq(so, 1, k)
             opp == root \o <<"opp">>
             f == InOpp(opp)
  <2>1. root \in Seq(Word) /\ opp \in Seq(Word)
    BY <1>1, Words
  <2>2. PICK a \in {so[j] : j \in DOMAIN so}, b \in {so[j] : j \in DOMAIN so} :
        \/ so = root \o <<"opp">> \o OPHOST_PATH \o <<Arch, OPHOST_BUILTIN_SO_NAME>>
        \/ so = root \o <<a, b, OPAPI_BUILTIN_SO_NAME>>
        \/ so = root \o <<"opp", "vendors", a, "op_impl", "ai_core", "tbe", "op_tiling", "lib", "linux", b,
                          OPHOST_CUSTOM_SO_NAME>>
        \/ so = root \o <<"opp", "vendors", a, "op_api", "lib", OPAPI_CUSTOM_SO_NAME>>
    BY <1>2 DEF InstalledAt
  <2>3. a \in Word /\ b \in Word
    BY <1>1
  <2> HIDE DEF root, opp, so
  <2>4. \/ CurrSoName(so) \in SoNames /\ SoPathForBuiltin(so) = {f}
        \/ CurrSoName(so) \in SoNames /\ SoPathForBuiltin(so) = {} /\ SoPathForCustomOp(so) = {f}
    <3>1. CASE so = root \o <<"opp">> \o OPHOST_PATH \o <<Arch, OPHOST_BUILTIN_SO_NAME>>
      BY <2>1, <3>1, BesideIt DEF SoNames, opp
    <3>2. CASE so = root \o <<a, b, OPAPI_BUILTIN_SO_NAME>>
      BY <2>1, <2>3, <3>2, BuiltinApi DEF SoNames, opp
    <3>3. CASE so = root \o <<"opp", "vendors", a, "op_impl", "ai_core", "tbe", "op_tiling", "lib",
                              "linux", b, OPHOST_CUSTOM_SO_NAME>>
      BY <2>1, <2>3, <3>3, CustomHost DEF SoNames, opp
    <3>4. CASE so = root \o <<"opp", "vendors", a, "op_api", "lib", OPAPI_CUSTOM_SO_NAME>>
      BY <2>1, <2>3, <3>4, CustomApi DEF SoNames, opp
    <3> QED BY <2>2, <3>1, <3>2, <3>3, <3>4
  <2>5. i.own = {f} /\ f \in DOMAIN i.symbols /\ f \in i.files
    BY <1>1, <1>2 DEF root, opp
  <2>6. f # Closed
    <3>1. opp \o OPHOST_PATH \in Seq(Word) /\ <<Arch, LEGACY_SO_NAME>> \in Seq(Word)
      BY <2>1, Words DEF Word
    <3> QED BY <3>1 DEF InOpp, Closed
  <2>7. LegacyCommonSoPath(so, i.files) = {f}
    <3> HIDE DEF f
    <3> QED BY <2>4, <2>5 DEF LegacyCommonSoPath
  <2> QED BY <2>5, <2>6, <2>7 DEF so
<1>3. ASSUME CurrSoName(so) \in SoNames,
             (SoPathForBuiltin(so) \cup SoPathForCustomOp(so)) \cap i.files = {},
             NEW f \in i.files, f # Closed, i.own = {f}, SoPathForOm(so, i.files) = {f}
      PROVE  \E g : /\ i.own = {g} /\ g # Closed /\ g \in DOMAIN i.symbols
                    /\ LegacyCommonSoPath(i.so, i.files) = {g}
  BY <1>3 DEF LegacyCommonSoPath
<1> QED BY <1>2, <1>3, LegacyAssumption

\* The handle is the library's own, and a function pointer that is set came from it.
LegacyInv ==
    /\ installation \in Installations \cup {NotLoaded, Unloaded}
    /\ installation = NotLoaded => func = [f \in Forwarders |-> Unset]
    /\ func \in [Forwarders -> {Unset, Null} \cup {SymbolName(f) : f \in Forwarders}]
    /\ installation.own \cap DOMAIN installation.symbols # {} => handle # Closed
    /\ ForwardsToOwnLegacy

\* Whatever the roots, vendors and names of the installations, this library opens the legacy
\* library of its own installation, and its forwarders reach the functions they stand for.
THEOREM LegacyForwardsToOwn == LegacySpec => []ForwardsToOwnLegacy
<1>1. LegacyInit => LegacyInv
  BY DEF LegacyInit, LegacyInv, ForwardsToOwnLegacy, NotLoaded
<1>2. LegacyInv /\ [LegacyNext]_legacyVars => LegacyInv'
  <2> SUFFICES ASSUME LegacyInv, [LegacyNext]_legacyVars PROVE LegacyInv'
    OBVIOUS
  <2>1. CASE UNCHANGED legacyVars
    BY <2>1 DEF legacyVars, LegacyInv, ForwardsToOwnLegacy
  <2>2. CASE Constructed
    <3>1. installation = NotLoaded /\ installation' \in Installations /\ func' = func
          /\ func = [f \in Forwarders |-> Unset]
      BY <2>2 DEF Constructed, LegacyInv
    <3>2. ASSUME installation'.own \cap DOMAIN installation'.symbols # {}
          PROVE  handle' # Closed /\ handle' \in installation'.own \cap DOMAIN installation'.symbols
      <4>1. PICK f : /\ installation'.own = {f} /\ f # Closed /\ f \in DOMAIN installation'.symbols
                     /\ LegacyCommonSoPath(installation'.so, installation'.files) = {f}
        BY <3>1, <3>2, FindsOwn
      <4>2. handle' = f
        BY <2>2, <4>1 DEF Constructed
      <4> QED BY <4>1, <4>2
    <3> QED BY <3>1, <3>2 DEF LegacyInv, ForwardsToOwnLegacy
  <2>3. CASE Destructed
    BY <2>3 DEF Destructed, Unloaded, NotLoaded, LegacyInv, ForwardsToOwnLegacy
  <2>4. ASSUME NEW f \in Forwarders, Forward(f) PROVE LegacyInv'
    BY <2>4 DEF Forward, GetFunc, LegacyInv, ForwardsToOwnLegacy
  <2> QED BY <2>1, <2>2, <2>3, <2>4 DEF LegacyNext
<1>3. LegacyInv => ForwardsToOwnLegacy
  BY DEF LegacyInv
<1> QED BY <1>1, <1>2, <1>3, PTL DEF LegacySpec

-----------------------------------------------------------------------------
(* The obfuscation operators.                                              *)
KernelTask(q) == <<"kernel">> \o Launched(q)
Tasks == {<<"copy">>, <<"cast">>, <<"viewCopy">>} \cup {KernelTask(q) : q \in Requests}
NoKernel(ts) == ts \in Seq(Tasks) /\ \A j \in DOMAIN ts : ts[j][1] # "kernel"
OneKernel(ts, q) ==
    /\ ts \in Seq(Tasks)
    /\ \E i \in DOMAIN ts : ts[i] = KernelTask(q) /\ \A j \in DOMAIN ts : ts[j][1] = "kernel" => j = i

\* What the executor of a function that succeeds does.
AsRequested(ts, q) == IF IsEmpty(q) THEN ts = <<>> ELSE OneKernel(ts, q)

\* Up to the kernel there is at most the copy that nothing reads; after it, one task per step.
ObfuscationInv ==
    /\ request = Quiet => step = "start"
    /\ request # Quiet => request \in Requests
    /\ step \in {"start", "create", "check"} => tasks = <<>>
    /\ step \notin {"returned", "ran"} => status = "none"
    /\ status \notin {"none", "SUCCESS"} => owner = "none"
    /\ step \in {"start", "create", "check", "contiguous", "launch", "cast", "copy", "release", "returned"}
         => output = Untouched
    /\ step = "contiguous" => IsCalculate(request)
    /\ step \in {"contiguous", "launch", "cast", "copy"} => ~IsEmpty(request)
    /\ step \in {"contiguous", "launch"} => NoKernel(tasks)
    /\ step \in {"cast", "copy"} /\ ~dropped => OneKernel(tasks, request)
    /\ step = "release" /\ ~dropped => AsRequested(tasks, request)
    /\ step = "returned" /\ owner = "caller" /\ ~dropped => AsRequested(tasks, request)
    /\ step = "ran" /\ ~dropped => output = IF IsEmpty(request) THEN Untouched ELSE Launched(request)

\* The operators pass on what the kernels take, in the order of the kernels' parameters.
LEMMA LaunchedIs ==
    ASSUME NEW q \in Requests
    PROVE  /\ \E S : Launched(q) \in Seq(S)
           /\ Launched(q) = [i \in DOMAIN KernelParameters(q) |-> ArgumentFor(q, KernelParameters(q)[i])]
<1> DEFINE c == ArgumentFor(q, "obfCoefficient")
           sent == Launched(q)
           names == KernelParameters(q)
<1>1. c = GetWorkspaceSize(q).coefficient 
  BY RequestsAssumption DEF ArgumentFor, IsCalculate, GetWorkspaceSize, CalculateGetWorkspaceSize,
     CalculateV2GetWorkspaceSize, SetupGetWorkspaceSize, SetupV2GetWorkspaceSize
<1>2. \A name \in {"fd", "x", "param", "cmd", "fdToClose", "dataType", "hiddenSize", "tpRank",
                   "modelObfSeedId", "dataObfSeedId", "threadNum"} : ArgumentFor(q, name) = name
  BY DEF ArgumentFor
<1>3. CASE IsCalculate(q)
  <2>1. sent = <<"fd", "x", "param", "cmd", c>>
    BY <1>1, <1>3 DEF Launched, ObfuscationCalculate
  <2>2. names = <<"fd", "x", "param", "cmd", "obfCoefficient">>
    BY <1>3 DEF KernelParameters
  <2> HIDE DEF sent, names
  <2>3. DOMAIN sent = 1 .. 5 /\ sent = [i \in 1 .. 5 |-> sent[i]] /\ DOMAIN names = 1 .. 5
    BY <2>1, <2>2
  <2>5. \E S : sent \in Seq(S)
    <3>1. sent \in Seq({sent[i] : i \in 1 .. 5})
      BY <2>1, <2>3
    <3> QED BY <3>1
  <2>4. ASSUME NEW i \in 1 .. 5 PROVE sent[i] = ArgumentFor(q, names[i])
    BY <1>2, <2>1, <2>2
  <2> QED BY <2>3, <2>4, <2>5 DEF sent, names
<1>4. CASE ~IsCalculate(q)
  <2>1. sent = <<"fdToClose", "dataType", "hiddenSize", "tpRank", "modelObfSeedId", "dataObfSeedId",
                 "cmd", "threadNum", c>>
    BY <1>1, <1>4 DEF Launched, ObfuscationSetup
  <2>2. names = <<"fdToClose", "dataType", "hiddenSize", "tpRank", "modelObfSeedId", "dataObfSeedId",
                  "cmd", "threadNum", "obfCoefficient">>
    BY <1>4 DEF KernelParameters
  <2> HIDE DEF sent, names
  <2>3. DOMAIN sent = 1 .. 9 /\ sent = [i \in 1 .. 9 |-> sent[i]] /\ DOMAIN names = 1 .. 9
    BY <2>1, <2>2
  <2>5. \E S : sent \in Seq(S)
    <3>1. sent \in Seq({sent[i] : i \in 1 .. 9})
      BY <2>1, <2>3
    <3> QED BY <3>1
  <2>4. ASSUME NEW i \in 1 .. 9 PROVE sent[i] = ArgumentFor(q, names[i])
    BY <1>2, <2>1, <2>2
  <2> QED BY <2>3, <2>4, <2>5 DEF sent, names
<1> QED BY <1>3, <1>4

\* The steps of a first function: only those of Calculate have a contiguous input.
LEMMA StepsAre ==
    ASSUME NEW from, StepOn(from), request \in Requests
    PROVE  /\ step = from
           /\ from = "create" => step' = "check"
           /\ from = "check" => step' = IF IsCalculate(request) THEN "contiguous" ELSE "launch"
           /\ from = "contiguous" /\ IsCalculate(request) => step' = "launch"
           /\ from = "launch" => step' = "cast"
           /\ from = "cast" => step' = "copy"
           /\ from = "copy" => step' = "release"
           /\ from = "release" => step' = "returned"
<1> DEFINE steps == GetWorkspaceSize(request).steps
           k == CHOOSE i \in DOMAIN steps : steps[i] = from
<1>1. step = from /\ step' = steps[1 + k]
  BY DEF StepOn
<1>2. CASE IsCalculate(request)
  <2>1. steps = CalculateSteps
    BY <1>2 DEF IsCalculate, GetWorkspaceSize, CalculateGetWorkspaceSize, CalculateV2GetWorkspaceSize
  <2>2. DOMAIN steps = 1 .. 8
    BY <2>1 DEF CalculateSteps
  <2>3. from \in {steps[i] : i \in 1 .. 7} => k \in DOMAIN steps /\ steps[k] = from
    BY <2>2
  <2> HIDE DEF k, steps
  <2> QED BY <1>1, <1>2, <2>1, <2>2, <2>3 DEF CalculateSteps
<1>3. CASE ~IsCalculate(request)
  <2>1. steps = SetupSteps
    BY <1>3, RequestsAssumption DEF IsCalculate, GetWorkspaceSize, SetupGetWorkspaceSize, SetupV2GetWorkspaceSize
  <2>2. DOMAIN steps = 1 .. 7
    BY <2>1 DEF SetupSteps
  <2>3. from \in {steps[i] : i \in 1 .. 6} => k \in DOMAIN steps /\ steps[k] = from
    BY <2>2
  <2> HIDE DEF k, steps
  <2> QED BY <1>1, <1>3, <2>1, <2>2, <2>3 DEF SetupSteps
<1> QED BY <1>2, <1>3

LEMMA KernelTaskIs ==
    ASSUME NEW q \in Requests
    PROVE  KernelTask(q)[1] = "kernel" /\ Tail(KernelTask(q)) = Launched(q)
<1> DEFINE sent == Launched(q)
           first == <<"kernel">>
<1>1. PICK S : sent \in Seq(S)
  BY LaunchedIs
<1> HIDE DEF sent
<1>2. sent \in Seq(S \cup {"kernel"}) /\ first \in Seq(S \cup {"kernel"})
  BY <1>1
<1>3. Len(first) = 1 /\ first[1] = "kernel"
  OBVIOUS
<1> HIDE DEF first
<1> DEFINE T == S \cup {"kernel"}
           whole == first \o sent
<1> HIDE DEF T
<1>4. first \in Seq(T) /\ sent \in Seq(T)
  BY <1>2 DEF T
<1>5. /\ whole \in Seq(T) /\ Len(whole) = Len(first) + Len(sent)
      /\ \A i \in 1 .. Len(first) + Len(sent) :
             whole[i] = IF i <= Len(first) THEN first[i] ELSE sent[i - Len(first)]
  BY <1>4
<1> HIDE DEF whole
<1>6. whole[1] = "kernel" /\ Len(whole) = 1 + Len(sent) /\ Len(sent) \in Nat
      /\ \A i \in 1 .. Len(sent) : whole[i + 1] = sent[i]
  BY <1>3, <1>4, <1>5
<1>7. sent = [i \in 1 .. Len(sent) |-> sent[i]]
  BY <1>4
<1>8. Tail(whole) = [i \in 1 .. Len(sent) |-> whole[i + 1]]
  <2>1. whole # <<>>
    BY <1>5, <1>6
  <2>2. Tail(whole) \in Seq(T) /\ Len(Tail(whole)) = Len(sent)
    BY <1>5, <1>6, <2>1
  <2>3. \A i \in 1 .. Len(sent) : Tail(whole)[i] = whole[i + 1]
    BY <1>5, <1>6, <2>1
  <2> DEFINE rest == Tail(whole)
  <2> HIDE DEF rest
  <2>4. rest \in Seq(T) /\ Len(rest) = Len(sent)
    BY <2>2 DEF rest
  <2>5. rest = [i \in 1 .. Len(rest) |-> rest[i]]
    BY <2>4
  <2>6. rest = [i \in 1 .. Len(sent) |-> rest[i]]
    BY <2>4, <2>5
  <2>7. rest = [i \in 1 .. Len(sent) |-> whole[i + 1]]
    BY <2>3, <2>6 DEF rest
  <2> QED BY <2>7 DEF rest
<1>9. Tail(whole) = sent
  BY <1>6, <1>7, <1>8
<1> QED BY <1>6, <1>9 DEF KernelTask, first, sent, whole

\* A task that is not the kernel's changes neither; the kernel's comes once.
LEMMA TaskAdded ==
    ASSUME NEW ts \in Seq(Tasks), NEW name \in {"copy", "cast", "viewCopy"}, NEW q
    PROVE  /\ NoKernel(ts) => NoKernel(Append(ts, <<name>>))
           /\ OneKernel(ts, q) => OneKernel(Append(ts, <<name>>), q)
<1> DEFINE us == Append(ts, <<name>>)
<1>1. /\ us \in Seq(Tasks) /\ DOMAIN us = 1 .. Len(ts) + 1 /\ DOMAIN ts = 1 .. Len(ts)
      /\ us[Len(ts) + 1] = <<name>> /\ <<name>>[1] = name /\ Len(ts) \in Nat
      /\ \A j \in DOMAIN ts : us[j] = ts[j]
  BY DEF Tasks
<1> HIDE DEF us
<1>2. \A j \in DOMAIN us : us[j][1] = "kernel" => j \in DOMAIN ts /\ ts[j][1] = "kernel"
  BY <1>1
<1>3. NoKernel(ts) => NoKernel(us)
  BY <1>1, <1>2 DEF NoKernel
<1>4. ASSUME OneKernel(ts, q) PROVE OneKernel(us, q)
  <2>1. PICK i \in DOMAIN ts : /\ ts[i] = KernelTask(q)
                               /\ \A j \in DOMAIN ts : ts[j][1] = "kernel" => j = i
    BY <1>4 DEF OneKernel
  <2>2. i \in DOMAIN us /\ us[i] = KernelTask(q)
    BY <1>1, <2>1
  <2> QED BY <1>1, <1>2, <2>1, <2>2 DEF OneKernel
<1> QED BY <1>3, <1>4 DEF us

LEMMA KernelAdded ==
    ASSUME NEW ts, NoKernel(ts), NEW q \in Requests
    PROVE  OneKernel(Append(ts, KernelTask(q)), q)
<1> DEFINE us == Append(ts, KernelTask(q))
           n == Len(ts) + 1
<1>1. KernelTask(q) \in Tasks
  BY DEF Tasks
<1>2. /\ us \in Seq(Tasks) /\ DOMAIN us = 1 .. n /\ DOMAIN ts = 1 .. Len(ts) /\ n \in DOMAIN us
      /\ us[n] = KernelTask(q) /\ \A j \in DOMAIN ts : us[j] = ts[j]
  BY <1>1 DEF NoKernel
<1>3. \A j \in DOMAIN us : j \in DOMAIN ts \/ j = n
  BY <1>2 DEF NoKernel
<1> HIDE DEF us, n
<1> QED BY <1>2, <1>3 DEF NoKernel, OneKernel, us

\* Run in order, those tasks leave in the output what was asked for.
LEMMA WrittenIs ==
    ASSUME NEW ts, NEW q \in Requests, AsRequested(ts, q)
    PROVE  Written(ts) = IF IsEmpty(q) THEN Untouched ELSE Launched(q)
<1>1. CASE IsEmpty(q)
  BY <1>1 DEF AsRequested, Written
<1>2. CASE ~IsEmpty(q)
  <2>1. PICK i \in DOMAIN ts : /\ ts[i] = KernelTask(q)
                               /\ \A j \in DOMAIN ts : ts[j][1] = "kernel" => j = i
    BY <1>2 DEF AsRequested, OneKernel
  <2>2. ts[i][1] = "kernel" /\ Tail(ts[i]) = Launched(q)
    BY <2>1, KernelTaskIs
  <2>3. i = CHOOSE j \in DOMAIN ts : ts[j][1] = "kernel"
    BY <2>1, <2>2
  <2>4. ts # <<>>
    BY <2>1
  <2> QED BY <1>2, <2>2, <2>3, <2>4 DEF Written
<1> QED BY <1>1, <1>2

LEMMA ObfuscationInvInit == ObfuscationInit => ObfuscationInv
BY DEF ObfuscationInit, ObfuscationInv

LEMMA ObfuscationInvStep == ObfuscationInv /\ [ObfuscationNext]_obfuscationVars => ObfuscationInv'
<1> SUFFICES ASSUME ObfuscationInv, [ObfuscationNext]_obfuscationVars PROVE ObfuscationInv'
  OBVIOUS
<1>0. NoKernel(<<>>)
  BY DEF NoKernel
<1>1. CASE UNCHANGED obfuscationVars
  BY <1>1 DEF obfuscationVars, ObfuscationInv
<1>2. CASE Ask
  BY <1>2, RequestsAssumption DEF Ask, ObfuscationInv, Quiet
<1>3. ASSUME step # "start", request' = request PROVE request # Quiet /\ request \in Requests
  BY <1>3 DEF ObfuscationInv
<1>4. CASE CreateExecutor
  BY <1>3, <1>4, StepsAre DEF CreateExecutor, StepOn, Same, ObfuscationInv
<1>5. ASSUME NEW from, NEW error, ReturnsError(from, error), error \notin {"none", "SUCCESS"},
             from \in {"create", "check", "contiguous", "cast", "copy"}
      PROVE  ObfuscationInv'
  BY <1>3, <1>5 DEF ReturnsError, StepTo, Same, ObfuscationInv
<1>6. CASE Check
  <2>1. CASE IsEmpty(request)
    BY <1>3, <1>6, <2>1 DEF Check, StepTo, Same, AsRequested, ObfuscationInv
  <2>2. CASE ~IsEmpty(request)
    BY <1>0, <1>3, <1>6, <2>2, StepsAre DEF Check, StepOn, Same, ObfuscationInv
  <2> QED BY <2>1, <2>2
<1>7. CASE CheckFails
  BY <1>5, <1>7 DEF CheckFails, CheckParams, CalculateCheckParams, SetupCheckParams
<1>8. CASE Contiguous
  <2>1. NoKernel(tasks) /\ tasks \in Seq(Tasks)
    BY <1>8 DEF Contiguous, StepOn, ObfuscationInv, NoKernel
  <2>2. NoKernel(Append(tasks, <<"copy">>))
    BY <2>1, TaskAdded
  <2>3. NoKernel(tasks')
    BY <1>8, <2>1, <2>2 DEF Contiguous
  <2> QED BY <1>3, <1>8, <2>3, StepsAre DEF Contiguous, StepOn, Same, ObfuscationInv
<1>9. CASE AddToLauncher
  <2>1. ~dropped' => OneKernel(tasks', request)
    BY <1>3, <1>9, KernelAdded DEF AddToLauncher, StepOn, Same, ObfuscationInv, KernelTask
  <2> QED BY <1>3, <1>9, <2>1, StepsAre DEF AddToLauncher, StepOn, Same, ObfuscationInv
<1>10. CASE Cast
  <2>1. ASSUME ~dropped PROVE OneKernel(Append(tasks, <<"cast">>), request)
    <3>1. OneKernel(tasks, request) /\ tasks \in Seq(Tasks)
      BY <1>10, <2>1 DEF Cast, StepOn, ObfuscationInv, OneKernel
    <3> QED BY <3>1, TaskAdded
  <2>2. ~dropped' => OneKernel(tasks', request)
    BY <1>10, <2>1 DEF Cast
  <2> QED BY <1>3, <1>10, <2>2, StepsAre DEF Cast, StepOn, Same, ObfuscationInv
<1>11. CASE ViewCopy
  <2>1. ASSUME ~dropped PROVE OneKernel(Append(tasks, <<"viewCopy">>), request)
    <3>1. OneKernel(tasks, request) /\ tasks \in Seq(Tasks)
      BY <1>11, <2>1 DEF ViewCopy, StepOn, ObfuscationInv, OneKernel
    <3> QED BY <3>1, TaskAdded
  <2>2. ~dropped' => OneKernel(tasks', request)
    BY <1>11, <2>1 DEF ViewCopy
  <2> QED BY <1>3, <1>11, <2>2, StepsAre DEF ViewCopy, StepOn, Same, AsRequested, ObfuscationInv
<1>12. CASE ReleaseTo
  BY <1>3, <1>12, StepsAre DEF ReleaseTo, StepOn, Same, AsRequested, OneKernel, ObfuscationInv
<1>13. CASE CommonOpExecutorRun
  BY <1>3, <1>13, WrittenIs DEF CommonOpExecutorRun, StepTo, ObfuscationInv
<1> QED BY <1>1, <1>2, <1>4, <1>5, <1>6, <1>7, <1>8, <1>9, <1>10, <1>11, <1>12, <1>13
        DEF ObfuscationNext, CreateFails, ContiguousFails, CastFails, ViewCopyFails

\* Of a supported request (tensors of one shape, a contiguous input) whose task the launcher took,
\* the executor leaves in the output the kernel's result on the caller's arguments in their places;
\* and of any request an error leaves no executor.
THEOREM ObfuscationOutputAsRequested == ObfuscationSpec => []OutputAsRequested
<1>1. ObfuscationInv => OutputAsRequested
  <2> SUFFICES ASSUME ObfuscationInv PROVE OutputAsRequested
    OBVIOUS
  <2>1. step = "ran" => request \in Requests
    BY DEF ObfuscationInv
  <2> QED BY <2>1, LaunchedIs DEF ObfuscationInv, OutputAsRequested, Supported
<1> QED BY <1>1, ObfuscationInvInit, ObfuscationInvStep, PTL DEF ObfuscationSpec

-----------------------------------------------------------------------------
(* The number of elements of a shape.                                      *)

\* f gives the products of the first dimensions of a shape.
Products(f, shape) ==
    f[0] = 1 /\ \A i \in 1 .. Len(shape) : f[i] = f[i - 1] * shape[i]

\* Such products there are, and only one: they are what Elements computes.
LEMMA ProductsExist ==
    ASSUME NEW s \in Seq(Nat)
    PROVE  \E f \in [0 .. Len(s) -> Nat] : Products(f, s)
<1> DEFINE n == Len(s)
           Step == [i \in 1 .. n |-> [x \in Nat |-> x * s[i]]]
<1>1. n \in Nat /\ \A i \in 1 .. n : s[i] \in Nat
  OBVIOUS
<1>2. Step \in [1 .. n -> [Nat -> Nat]]
  <2>1. ASSUME NEW i \in 1 .. n, NEW x \in Nat PROVE x * s[i] \in Nat
    BY <1>1
  <2> HIDE DEF n
  <2> QED BY <2>1
<1>3. \A i \in 1 .. n : \A x \in Nat : Step[i][x] = x * s[i]
  OBVIOUS
<1> HIDE DEF Step, n
<1>4. PICK f \in [0 .. n -> Nat] : f[0] = 1 /\ \A i \in 1 .. n : f[i] = Step[i][f[i - 1]]
  <2>1. 1 \in Nat
    OBVIOUS
  <2> QED BY <1>1, <1>2, <2>1, FunctionUpTo
<1>5. ASSUME NEW i \in 1 .. n PROVE f[i] = f[i - 1] * s[i]
  <2>1. f[i - 1] \in Nat
    <3>1. i - 1 \in 0 .. n
      BY <1>1
    <3> QED BY <3>1
  <2> QED BY <2>1, <1>3, <1>4
<1> QED BY <1>4, <1>5 DEF Products, n

LEMMA ProductsUnique ==
    ASSUME NEW s \in Seq(Nat), NEW f, NEW g, Products(f, s), Products(g, s)
    PROVE  \A i \in 0 .. Len(s) : f[i] = g[i]
<1> DEFINE S == {i \in 0 .. Len(s) : f[i] = g[i]}
<1>1. Len(s) \in Nat /\ 0 \in S
  BY DEF Products
<1>2. ASSUME NEW i \in 1 .. Len(s), i - 1 \in S PROVE i \in S
  BY <1>2 DEF Products
<1>3. \A i \in 0 .. Len(s) : i \in S
  <2> HIDE DEF S
  <2> QED BY <1>1, <1>2, InductionUpTo
<1> QED BY <1>3

LEMMA ElementsIs ==
    ASSUME NEW s \in Seq(Nat)
    PROVE  /\ Elements(s) \in Nat
           /\ \A f : Products(f, s) => Elements(s) = f[Len(s)]
<1> DEFINE n == Len(s)
           P == CHOOSE f : f = [i \in 0 .. n |-> IF i = 0 THEN 1 ELSE f[i - 1] * s[i]]
<1>1. n \in Nat
  OBVIOUS
<1>2. Elements(s) = P[n]
  BY Zenon DEF Elements
<1>3. PICK f \in [0 .. n -> Nat] : Products(f, s)
  BY ProductsExist
<1>4. P = [i \in 0 .. n |-> IF i = 0 THEN 1 ELSE P[i - 1] * s[i]]
  <2> DEFINE h == [i \in 0 .. n |-> IF i = 0 THEN 1 ELSE f[i - 1] * s[i]]
  <2>1. ASSUME NEW i \in 0 .. n PROVE f[i] = h[i]
    BY <1>1, <1>3 DEF Products
  <2>2. f = h
    <3>1. DOMAIN f = 0 .. n /\ DOMAIN h = 0 .. n /\ f = [i \in 0 .. n |-> f[i]] /\ h = [i \in 0 .. n |-> h[i]]
      OBVIOUS
    <3> QED BY <3>1, <2>1, Zenon
  <2> QED BY <2>2, Zenon
<1> HIDE DEF P
<1>5. Products(P, s)
  <2>1. P[0] = 1
    <3>1. 0 \in 0 .. n
      BY <1>1
    <3> QED BY <3>1, <1>4
  <2>2. ASSUME NEW i \in 1 .. n PROVE P[i] = P[i - 1] * s[i]
    <3>1. i \in 0 .. n /\ i # 0
      BY <1>1
    <3> QED BY <3>1, <1>4
  <2> QED BY <2>1, <2>2 DEF Products
<1>6. \A g : Products(g, s) => P[n] = g[n]
  <2>1. n \in 0 .. n
    BY <1>1
  <2> QED BY <2>1, <1>5, ProductsUnique
<1>7. f[n] \in Nat
  <2>1. n \in 0 .. n
    BY <1>1
  <2> QED BY <2>1
<1> QED BY <1>2, <1>3, <1>6, <1>7

LEMMA ElementsEmpty == Elements(<<>>) = 1
<1> DEFINE f == [i \in 0 .. 0 |-> 1]
<1>1. Products(f, <<>>)
  BY DEF Products
<1>2. <<>> \in Seq(Nat) /\ Len(<<>>) = 0 /\ f[0] = 1
  OBVIOUS
<1> HIDE DEF f
<1> QED BY <1>1, <1>2, ElementsIs

\* One dimension more is one factor more.
LEMMA ElementsAppend ==
    ASSUME NEW s \in Seq(Nat), NEW x \in Nat
    PROVE  Elements(Append(s, x)) = Elements(s) * x
<1> DEFINE t == Append(s, x)
           n == Len(s)
<1>1. n \in Nat /\ t \in Seq(Nat) /\ Len(t) = n + 1 /\ t[n + 1] = x /\ \A i \in 1 .. n : t[i] = s[i]
  OBVIOUS
<1> HIDE DEF t, n
<1>2. PICK f \in [0 .. n + 1 -> Nat] : Products(f, t)
  BY <1>1, ProductsExist
<1>3. Products(f, s)
  <2>1. ASSUME NEW i \in 1 .. n PROVE f[i] = f[i - 1] * s[i]
    <3>1. i \in 1 .. n + 1 /\ t[i] = s[i]
      BY <1>1
    <3> QED BY <3>1, <1>1, <1>2 DEF Products
  <2> QED BY <2>1, <1>2 DEF Products, n
<1>4. f[n + 1] = f[n] * x
  <2>1. n + 1 \in 1 .. n + 1 /\ (n + 1) - 1 = n
    BY <1>1
  <2> QED BY <2>1, <1>1, <1>2 DEF Products
<1>5. Elements(t) = f[n + 1] /\ Elements(s) = f[n]
  BY <1>1, <1>2, <1>3, ElementsIs DEF n
<1> QED BY <1>4, <1>5 DEF t

\* A dimension made 1 is a factor taken out.
LEMMA ElementsOneOut ==
    ASSUME NEW s \in Seq(Nat), NEW j \in 1 .. Len(s)
    PROVE  Elements(s) = Elements([s EXCEPT ![j] = 1]) * s[j]
<1> DEFINE t == [s EXCEPT ![j] = 1]
           n == Len(s)
<1>1. n \in Nat /\ t \in Seq(Nat) /\ Len(t) = n /\ t[j] = 1 /\ (\A i \in 1 .. n : i # j => t[i] = s[i])
      /\ \A i \in 1 .. n : s[i] \in Nat /\ t[i] \in Nat
  OBVIOUS
<1> HIDE DEF t
<1>2. PICK f \in [0 .. n -> Nat] : Products(f, s)
  BY ProductsExist
<1>3. PICK g \in [0 .. n -> Nat] : Products(g, t)
  BY <1>1, ProductsExist
<1> HIDE DEF n
<1>4. \A i \in 1 .. n : f[i] = f[i - 1] * s[i] /\ g[i] = g[i - 1] * t[i]
  BY <1>1, <1>2, <1>3 DEF Products, n
<1> DEFINE S == {i \in 0 .. n : f[i] = IF i < j THEN g[i] ELSE g[i] * s[j]}
<1>5. 0 \in S
  BY <1>1, <1>2, <1>3 DEF Products, n
<1>6. ASSUME NEW i \in 1 .. n, i - 1 \in S PROVE i \in S
  <2>0. f[i - 1] \in Nat /\ g[i - 1] \in Nat /\ s[i] \in Nat /\ s[j] \in Nat /\ j \in 1 .. n
    <3>1. i - 1 \in 0 .. n
      BY <1>1
    <3> QED BY <3>1, <1>1 DEF n
  <2>4. f[i - 1] = IF i - 1 < j THEN g[i - 1] ELSE g[i - 1] * s[j]
    BY <1>6
  <2>5. /\ f[i] = f[i - 1] * s[i] /\ g[i] = g[i - 1] * t[i]
        /\ i # j => t[i] = s[i]
        /\ i \in 0 .. n /\ i \in Int /\ j \in Int
    BY <1>1, <1>4 DEF n
  <2>1. CASE i < j
    <3>1. f[i - 1] = g[i - 1] /\ t[i] = s[i]
      BY <2>1, <2>4, <2>5
    <3> QED BY <3>1, <2>1, <2>5
  <2>2. CASE i = j
    <3>1. f[i - 1] = g[i - 1] /\ g[i] = g[i - 1] * 1
      BY <2>0, <2>2, <1>1, <1>4, <1>6
    <3>2. f[i] = g[i] * s[j]
      BY <3>1, <2>0, <2>2, <1>4
    <3> QED BY <3>2, <2>2
  <2>3. CASE i > j
    <3>1. f[i - 1] = g[i - 1] * s[j] /\ g[i] = g[i - 1] * s[i]
      BY <2>3, <2>4, <2>5
    <3>2. f[i] = (g[i - 1] * s[j]) * s[i]
      BY <3>1, <2>5
    <3>3. (g[i - 1] * s[j]) * s[i] = (g[i - 1] * s[i]) * s[j]
      BY <2>0
    <3>4. f[i] = g[i] * s[j]
      BY <3>1, <3>2, <3>3
    <3> QED BY <3>4, <2>3
  <2> QED BY <2>0, <2>1, <2>2, <2>3, <1>1
<1>7. \A i \in 0 .. n : i \in S
  <2> HIDE DEF S
  <2> QED BY <1>1, <1>5, <1>6, InductionUpTo
<1>8. f[n] = g[n] * s[j]
  <2>1. n \in 0 .. n /\ ~(n < j) /\ n \in S
    BY <1>1, <1>7 DEF n
  <2> QED BY <2>1
<1>9. Elements(s) = f[n] /\ Elements(t) = g[n]
  BY <1>1, <1>2, <1>3, ElementsIs DEF n
<1> QED BY <1>8, <1>9 DEF t

-----------------------------------------------------------------------------
(* What is left of a shape without some of its dimensions.                 *)

\* f gives what is left of the first dimensions of a shape.
Leaves(f, shape, drop, k) ==
    /\ f[0] = <<>>
    /\ \A i \in 1 .. k : f[i] = IF i - 1 \in drop THEN f[i - 1] ELSE Append(f[i - 1], shape[i])

\* Such sequences there are: they are what Dropped goes through.
LEMMA LeavesExist ==
    ASSUME NEW s \in Seq(Nat), NEW drop
    PROVE  \E f \in [0 .. Len(s) -> Seq(Nat)] : Leaves(f, s, drop, Len(s))
<1> DEFINE n == Len(s)
           S == {k \in 0 .. n : \E f \in [0 .. n -> Seq(Nat)] : Leaves(f, s, drop, k)}
<1>1. n \in Nat /\ \A i \in 1 .. n : s[i] \in Nat
  OBVIOUS
<1>2. 0 \in S
  <2> DEFINE f == [i \in 0 .. n |-> <<>>]
  <2>1. <<>> \in Seq(Nat)
    OBVIOUS
  <2>2. f \in [0 .. n -> Seq(Nat)] /\ f[0] = <<>>
    BY <1>1, <2>1
  <2> HIDE DEF f
  <2>3. Leaves(f, s, drop, 0)
    BY <2>2 DEF Leaves
  <2> QED BY <2>2, <2>3, <1>1
<1>3. ASSUME NEW k \in 1 .. n, k - 1 \in S PROVE k \in S
  <2>1. PICK f \in [0 .. n -> Seq(Nat)] : Leaves(f, s, drop, k - 1)
    BY <1>3
  <2> DEFINE v == IF k - 1 \in drop THEN f[k - 1] ELSE Append(f[k - 1], s[k])
             g == [f EXCEPT ![k] = v]
  <2>2. k \in 0 .. n /\ k - 1 \in 0 .. n /\ k - 1 # k /\ f[k - 1] \in Seq(Nat) /\ s[k] \in Nat
    <3>1. k \in 0 .. n /\ k - 1 \in 0 .. n /\ k - 1 # k
      BY <1>1
    <3> HIDE DEF n
    <3> QED BY <3>1, <1>1
  <2>3. v \in Seq(Nat)
    BY <2>2
  <2>4. g \in [0 .. n -> Seq(Nat)] /\ g[k] = v /\ \A i \in 0 .. n : i # k => g[i] = f[i]
    <3> HIDE DEF v, n
    <3> QED BY <2>2, <2>3
  <2>5. v = IF k - 1 \in drop THEN f[k - 1] ELSE Append(f[k - 1], s[k])
    OBVIOUS
  <2> HIDE DEF v, g
  <2>6. g[0] = <<>> /\ g[k - 1] = f[k - 1]
    <3>1. 0 \in 0 .. n /\ 0 # k
      BY <1>1
    <3> QED BY <3>1, <2>1, <2>2, <2>4 DEF Leaves
  <2>7. ASSUME NEW i \in 1 .. k PROVE g[i] = IF i - 1 \in drop THEN g[i - 1] ELSE Append(g[i - 1], s[i])
    <3>1. CASE i = k
      BY <3>1, <2>4, <2>5, <2>6
    <3>2. CASE i # k
      <4>1. i \in 1 .. k - 1 /\ i \in 0 .. n /\ i - 1 \in 0 .. n /\ i - 1 # k
        BY <1>1, <3>2
      <4>2. g[i] = f[i] /\ g[i - 1] = f[i - 1]
        BY <4>1, <3>2, <2>4
      <4>3. f[i] = IF i - 1 \in drop THEN f[i - 1] ELSE Append(f[i - 1], s[i])
        BY <4>1, <2>1 DEF Leaves
      <4> QED BY <4>2, <4>3
    <3> QED BY <3>1, <3>2
  <2>8. Leaves(g, s, drop, k)
    BY <2>6, <2>7 DEF Leaves
  <2> QED BY <2>2, <2>4, <2>8
<1>4. \A k \in 0 .. n : k \in S
  <2> HIDE DEF S, n
  <2> QED BY <1>1, <1>2, <1>3, InductionUpTo
<1> QED BY <1>1, <1>4

LEMMA DroppedIs ==
    ASSUME NEW s \in Seq(Nat), NEW drop
    PROVE  \E f \in [0 .. Len(s) -> Seq(Nat)] :
               Leaves(f, s, drop, Len(s)) /\ Dropped(s, drop, FALSE) = f[Len(s)]
<1> DEFINE n == Len(s)
           P == CHOOSE f : f = [i \in 0 .. n |->
                    IF i = 0 THEN <<>> ELSE IF i - 1 \in drop THEN f[i - 1] ELSE Append(f[i - 1], s[i])]
<1>1. n \in Nat
  OBVIOUS
<1>2. Dropped(s, drop, FALSE) = P[n]
  BY Zenon DEF Dropped
<1>3. PICK f \in [0 .. n -> Seq(Nat)] : Leaves(f, s, drop, n)
  BY LeavesExist
<1>4. P = [i \in 0 .. n |->
             IF i = 0 THEN <<>> ELSE IF i - 1 \in drop THEN P[i - 1] ELSE Append(P[i - 1], s[i])]
  <2> DEFINE h == [i \in 0 .. n |->
             IF i = 0 THEN <<>> ELSE IF i - 1 \in drop THEN f[i - 1] ELSE Append(f[i - 1], s[i])]
  <2>1. ASSUME NEW i \in 0 .. n PROVE f[i] = h[i]
    <3>1. CASE i = 0
      BY <3>1, <1>3 DEF Leaves
    <3>2. CASE i # 0
      <4>1. i \in 1 .. n
        BY <1>1, <3>2
      <4> QED BY <4>1, <3>2, <1>3 DEF Leaves
    <3> QED BY <3>1, <3>2
  <2>2. f = h
    <3>1. DOMAIN f = 0 .. n /\ DOMAIN h = 0 .. n /\ f = [i \in 0 .. n |-> f[i]] /\ h = [i \in 0 .. n |-> h[i]]
      OBVIOUS
    <3> QED BY <3>1, <2>1, Zenon
  <2> QED BY <2>2, Zenon
<1> HIDE DEF P
<1>5. P \in [0 .. n -> Seq(Nat)]
  <2> DEFINE S == {i \in 0 .. n : P[i] \in Seq(Nat)}
  <2>1. 0 \in S
    <3>1. 0 \in 0 .. n /\ <<>> \in Seq(Nat)
      BY <1>1
    <3>2. P[0] = <<>>
      BY <3>1, <1>4
    <3> QED BY <3>1, <3>2
  <2>2. ASSUME NEW i \in 1 .. n, i - 1 \in S PROVE i \in S
    <3>1. i \in 0 .. n /\ i # 0 /\ s[i] \in Nat
      BY <1>1
    <3>2. P[i] = IF i - 1 \in drop THEN P[i - 1] ELSE Append(P[i - 1], s[i])
      BY <3>1, <1>4
    <3>3. P[i - 1] \in Seq(Nat)
      BY <2>2
    <3>4. \A x \in Seq(Nat) : Append(x, s[i]) \in Seq(Nat)
      BY <3>1
    <3>5. P[i] \in Seq(Nat)
      <4> HIDE DEF S, n
      <4> QED BY <3>2, <3>3, <3>4
    <3> QED BY <3>1, <3>5
  <2>3. \A i \in 0 .. n : i \in S
    <3> HIDE DEF S, n
    <3> QED BY <1>1, <2>1, <2>2, InductionUpTo
  <2>4. DOMAIN P = 0 .. n /\ P = [i \in 0 .. n |-> P[i]]
    BY <1>4, Zenon
  <2> QED BY <2>3, <2>4
<1>6. Leaves(P, s, drop, n)
  <2>1. P[0] = <<>>
    <3>1. 0 \in 0 .. n
      BY <1>1
    <3> QED BY <3>1, <1>4
  <2>2. ASSUME NEW i \in 1 .. n PROVE P[i] = IF i - 1 \in drop THEN P[i - 1] ELSE Append(P[i - 1], s[i])
    <3>1. i \in 0 .. n /\ i # 0
      BY <1>1
    <3> QED BY <3>1, <1>4
  <2> QED BY <2>1, <2>2 DEF Leaves
<1> QED BY <1>2, <1>5, <1>6

\* The dimensions that go leave the number of elements that would be left if they became 1.
LEMMA DroppedOrOne ==
    ASSUME NEW s \in Seq(Nat), NEW drop
    PROVE  /\ Dropped(s, drop, TRUE) \in Seq(Nat)
           /\ Len(Dropped(s, drop, TRUE)) = Len(s)
           /\ \A i \in 1 .. Len(s) : Dropped(s, drop, TRUE)[i] = IF i - 1 \in drop THEN 1 ELSE s[i]
           /\ Dropped(s, drop, FALSE) \in Seq(Nat)
           /\ Elements(Dropped(s, drop, FALSE)) = Elements(Dropped(s, drop, TRUE))
<1> DEFINE n == Len(s)
           t == Dropped(s, drop, TRUE)
<1>1. n \in Nat /\ DOMAIN s = 1 .. n /\ \A i \in 1 .. n : s[i] \in Nat
  OBVIOUS
<1>2. t = [i \in 1 .. n |-> IF i - 1 \in drop THEN 1 ELSE s[i]]
  BY <1>1 DEF Dropped
<1>3. t \in Seq(Nat) /\ Len(t) = n /\ \A i \in 1 .. n : t[i] = IF i - 1 \in drop THEN 1 ELSE s[i]
  <2>1. \A i \in 1 .. n : (IF i - 1 \in drop THEN 1 ELSE s[i]) \in Nat
    BY <1>1
  <2> HIDE DEF t, n
  <2> QED BY <1>1, <1>2, <2>1
<1>4. PICK f \in [0 .. n -> Seq(Nat)] : Leaves(f, s, drop, n) /\ Dropped(s, drop, FALSE) = f[n]
  BY DroppedIs
<1> HIDE DEF t
<1>5. PICK p \in [0 .. n -> Nat] : Products(p, t)
  BY <1>3, ProductsExist
<1> HIDE DEF n
<1> DEFINE S == {i \in 0 .. n : Elements(f[i]) = p[i]}
<1>6. 0 \in S
  BY <1>1, <1>4, <1>5, ElementsEmpty DEF Leaves, Products
<1>7. ASSUME NEW i \in 1 .. n, i - 1 \in S PROVE i \in S
  <2>1. i - 1 \in 0 .. n /\ i \in 0 .. n
    BY <1>1
  <2>2. f[i - 1] \in Seq(Nat) /\ p[i - 1] \in Nat /\ s[i] \in Nat /\ Elements(f[i - 1]) = p[i - 1]
    BY <1>1, <1>7, <2>1
  <2>3. p[i] = p[i - 1] * t[i] /\ t[i] = IF i - 1 \in drop THEN 1 ELSE s[i]
    BY <1>3, <1>5 DEF Products
  <2>4. f[i] = IF i - 1 \in drop THEN f[i - 1] ELSE Append(f[i - 1], s[i])
    BY <1>4 DEF Leaves
  <2>5. CASE i - 1 \in drop
    BY <2>1, <2>2, <2>3, <2>4, <2>5
  <2>6. CASE i - 1 \notin drop
    <3>1. Elements(Append(f[i - 1], s[i])) = Elements(f[i - 1]) * s[i]
      BY <2>2, ElementsAppend
    <3> QED BY <3>1, <2>1, <2>2, <2>3, <2>4, <2>6
  <2> QED BY <2>5, <2>6
<1>8. \A i \in 0 .. n : i \in S
  <2> HIDE DEF S
  <2> QED BY <1>1, <1>6, <1>7, InductionUpTo
<1>9. n \in 0 .. n
  BY <1>1
<1>10. Elements(f[n]) = p[n] /\ f[n] \in Seq(Nat)
  BY <1>8, <1>9
<1>11. Elements(t) = p[n]
  BY <1>3, <1>5, ElementsIs
<1> QED BY <1>3, <1>4, <1>10, <1>11 DEF t, n

\* Without any of its dimensions, a shape has one element.
LEMMA AllDropped ==
    ASSUME NEW s \in Seq(Nat), NEW drop, \A i \in 1 .. Len(s) : i - 1 \in drop
    PROVE  /\ Dropped(s, drop, TRUE) = [i \in DOMAIN s |-> 1]
           /\ Dropped(s, drop, FALSE) = <<>>
           /\ \A keep \in BOOLEAN : Elements(Dropped(s, drop, keep)) = 1
<1>1. Len(s) \in Nat /\ DOMAIN s = 1 .. Len(s)
  OBVIOUS
<1>2. Dropped(s, drop, TRUE) = [i \in DOMAIN s |-> 1]
  BY <1>1 DEF Dropped
<1>3. PICK f \in [0 .. Len(s) -> Seq(Nat)] :
          Leaves(f, s, drop, Len(s)) /\ Dropped(s, drop, FALSE) = f[Len(s)]
  BY DroppedIs
<1> DEFINE S == {i \in 0 .. Len(s) : f[i] = <<>>}
<1>4. 0 \in S
  BY <1>1, <1>3 DEF Leaves
<1>5. ASSUME NEW i \in 1 .. Len(s), i - 1 \in S PROVE i \in S
  BY <1>1, <1>3, <1>5 DEF Leaves
<1>6. \A i \in 0 .. Len(s) : i \in S
  <2> HIDE DEF S
  <2> QED BY <1>1, <1>4, <1>5, InductionUpTo
<1>7. Dropped(s, drop, FALSE) = <<>>
  <2>1. Len(s) \in 0 .. Len(s)
    BY <1>1
  <2> QED BY <2>1, <1>3, <1>6
<1>8. Elements(Dropped(s, drop, FALSE)) = 1 /\ Elements(Dropped(s, drop, TRUE)) = 1
  BY <1>7, ElementsEmpty, DroppedOrOne
<1> QED BY <1>2, <1>7, <1>8

-----------------------------------------------------------------------------
(* Slices and dimensions counted from the end.                             *)

\* A dimension counted from the end is the one its remainder names.
LEMMA ModOfNegative ==
    ASSUME NEW n \in Nat \ {0}, NEW x \in -n .. n - 1
    PROVE  x % n = IF x < 0 THEN x + n ELSE x
BY SMT

\* Bounds clamped to a dimension enclose the indices between them that there are.
LEMMA Clamped ==
    ASSUME NEW size \in Nat, NEW from \in Int, NEW to \in Int, NEW start, NEW end,
           start = IF from < 0 THEN 0 ELSE IF from >= size THEN size ELSE from,
           end = IF to < start THEN start ELSE IF to >= size THEN size ELSE to
    PROVE  /\ 0 <= start /\ start <= end /\ end <= size
           /\ start .. end - 1 = {i \in 0 .. size - 1 : from <= i /\ i < to}
<1>1. start \in 0 .. size
  OBVIOUS
<1>2. end \in start .. size
  BY <1>1
<1>3. ASSUME NEW i \in start .. end - 1 PROVE i \in 0 .. size - 1 /\ from <= i /\ i < to
  BY <1>1, <1>2
<1>4. ASSUME NEW i \in 0 .. size - 1, from <= i, i < to PROVE i \in start .. end - 1
  BY <1>1, <1>2, <1>4
<1> QED BY <1>1, <1>2, <1>3, <1>4

\* CalculateValuesSlice: the bounds enclose what start and end mean.
LEMMA SliceIsRight ==
    ASSUME NEW q \in Questions, q.helper = "slice" PROVE SliceRight(q, Answer(q))
<1> DEFINE n == Len(q.self)
           s == q.slice
           u == CalculateValuesSliceUpper(q.self, s)
           a == CalculateValuesSliceLower(q.self, u)
           d == IF s.dim < 0 THEN s.dim + n ELSE s.dim
           size == q.self[d + 1]
           from == IF s.start < 0 THEN s.start + size ELSE s.start
           to == IF s.end < 0 THEN s.end + size ELSE s.end
           start == IF from < 0 THEN 0 ELSE IF from >= size THEN size ELSE from
           end == IF to < start THEN start ELSE IF to >= size THEN size ELSE to
<1>1. q.self \in Seq(Nat) /\ q.self # <<>> /\ Ranked(n, <<s.dim>>) /\ s.start \in Int /\ s.end \in Int
  BY QuestionsAssumption
<1>2. n \in Nat \ {0} /\ s.dim \in -n .. n - 1
  <2>1. n \in Nat /\ n # 0
    BY <1>1
  <2>2. 1 \in DOMAIN <<s.dim>> /\ <<s.dim>>[1] = s.dim
    OBVIOUS
  <2>3. s.dim \in IF n = 0 THEN {-1, 0} ELSE -n .. n - 1
    <3> HIDE DEF n, s
    <3> QED BY <1>1, <2>2 DEF Ranked
  <2> QED BY <2>1, <2>3
<1>3. d \in 0 .. n - 1 /\ d = s.dim % n
  <2>1. s.dim % n = IF s.dim < 0 THEN s.dim + n ELSE s.dim
    <3> HIDE DEF n
    <3> QED BY <1>2, ModOfNegative
  <2> HIDE DEF n
  <2> QED BY <2>1, <1>2
<1>4. size \in Nat
  <2> HIDE DEF d
  <2>1. d + 1 \in 1 .. n
    <3> HIDE DEF n
    <3> QED BY <1>2, <1>3
  <2> QED BY <2>1, <1>1
<1>5. u = [dim |-> d, start |-> from, end |-> to]
  BY DEF CalculateValuesSliceUpper, DimOf
<1>6. a = [dim |-> d, start |-> start, end |-> end]
  <2> HIDE DEF u, d, from, to
  <2>1. u.dim = d /\ u.start = from /\ u.end = to
    BY <1>5
  <2> QED BY <2>1 DEF CalculateValuesSliceLower, DimOf
<1>7. Answer(q) = a
  BY DEF Answer
<1>8. from \in Int /\ to \in Int
  <2> HIDE DEF size
  <2> QED BY <1>1, <1>4
<1>9. SliceMeans(size, s) = {i \in 0 .. size - 1 : from <= i /\ i < to}
  BY DEF SliceMeans
<1> HIDE DEF size, from, to, d, u, a, s, n
<1>10. /\ 0 <= start /\ start <= end /\ end <= size
       /\ start .. end - 1 = {i \in 0 .. size - 1 : from <= i /\ i < to}
  BY <1>4, <1>8, Clamped
<1> HIDE DEF start, end
<1>11. a.dim = d /\ a.start = start /\ a.end = end /\ DimOf(q.self, a.dim) = size
  BY <1>6 DEF DimOf, size
<1>12. SliceRight(q, a)
  BY <1>3, <1>9, <1>10, <1>11 DEF SliceRight, s, n
<1> QED BY <1>7, <1>12

\* The smaller and the larger of two.
LEMMA MinMaxOfTwo ==
    ASSUME NEW x \in Int, NEW y \in Int, x <= y
    PROVE  Max({x, y}) = y /\ Max({y, x}) = y /\ Min({x, y}) = x
<1>1. Max({x, y}) \in {x, y} /\ \A z \in {x, y} : Max({x, y}) >= z
  <2>1. \E m \in {x, y} : \A z \in {x, y} : m >= z
    OBVIOUS
  <2> QED BY <2>1, Zenon DEF Max
<1>2. Min({x, y}) \in {x, y} /\ \A z \in {x, y} : Min({x, y}) <= z
  <2>1. \E m \in {x, y} : \A z \in {x, y} : m <= z
    OBVIOUS
  <2> QED BY <2>1, Zenon DEF Min
<1>3. {x, y} = {y, x}
  OBVIOUS
<1> QED BY <1>1, <1>2, <1>3

\* A dimension is accepted when it counts to one that there is.
LEMMA DimIsRight ==
    ASSUME NEW q \in Questions, q.helper = "dim" PROVE DimRight(q, Answer(q))
<1> DEFINE n == Len(q.self)
           d == q.dim
           m == Max({n, 1})
<1>1. n \in Nat /\ d \in Int
  <2>1. q.self \in Seq(Nat) /\ q.dim \in Int
    BY QuestionsAssumption, Zenon
  <2> QED BY <2>1
<1>2. m = IF n = 0 THEN 1 ELSE n
  <2> HIDE DEF n
  <2>1. n <= 1 => m = 1
    BY <1>1, MinMaxOfTwo
  <2>2. 1 <= n => m = n
    BY <1>1, MinMaxOfTwo
  <2> HIDE DEF m
  <2> QED BY <1>1, <2>1, <2>2
<1>3. /\ n = 0 => Min({-n, n - 1}) = -1 /\ Max({-n, n - 1}) = 0
      /\ n # 0 => Min({-n, n - 1}) = -n /\ Max({-n, n - 1}) = n - 1
  <2> HIDE DEF n
  <2>1. ASSUME n # 0 PROVE Min({-n, n - 1}) = -n /\ Max({-n, n - 1}) = n - 1
    <3>1. -n \in Int /\ n - 1 \in Int /\ -n <= n - 1
      BY <1>1, <2>1
    <3> QED BY <3>1, MinMaxOfTwo
  <2>2. ASSUME n = 0 PROVE Min({-n, n - 1}) = -1 /\ Max({-n, n - 1}) = 0
    <3>1. {-n, n - 1} = {-1, 0}
      BY <2>2
    <3>2. Max({-1, 0}) = 0 /\ Min({-1, 0}) = -1
      BY MinMaxOfTwo
    <3> QED BY <3>1, <3>2
  <2> QED BY <2>1, <2>2
<1>4. CheckDimValueWithUnique(q.self, d) <=> IF n = 0 THEN -1 <= d /\ d <= 0 ELSE -n <= d /\ d <= n - 1
  <2>1. CheckDimValueWithUnique(q.self, d) <=> Min({-n, n - 1}) <= d /\ d <= Max({-n, n - 1})
    BY DEF CheckDimValueWithUnique
  <2> HIDE DEF n
  <2> QED BY <2>1, <1>3
<1>5. Answer(q) = <<CheckDimValueWithUnique(q.self, d), GetPosDimWithStd(d, n)>>
  BY DEF Answer
<1>6. GetPosDimWithStd(d, n) = IF d >= 0 THEN d ELSE IF n = 0 THEN d + 1 ELSE d + n
  <2> HIDE DEF n
  <2> QED BY <1>1 DEF GetPosDimWithStd
<1> DEFINE b == CheckDimValueWithUnique(q.self, d)
           g == GetPosDimWithStd(d, n)
<1>7. b <=> g \in 0 .. m - 1
  <2> HIDE DEF n, m, b, g, d
  <2>1. g \in Int /\ (g \in 0 .. m - 1 <=> IF n = 0 THEN -1 <= d /\ d <= 0 ELSE -n <= d /\ d <= n - 1)
    <3>1. g = IF d >= 0 THEN d ELSE IF n = 0 THEN d + 1 ELSE d + n
      BY <1>6 DEF g
    <3>2. CASE n = 0
      BY <1>1, <1>2, <3>1, <3>2
    <3>3. CASE n # 0
      BY <1>1, <1>2, <3>1, <3>3
    <3> QED BY <3>2, <3>3
  <2> QED BY <2>1, <1>4, Zenon DEF b
<1> HIDE DEF b, g
<1>8. Answer(q)[1] = b /\ Answer(q)[2] = g
  BY <1>5 DEF b, g
<1> QED BY <1>7, <1>8 DEF DimRight, m

-----------------------------------------------------------------------------
(* Pooling and types.                                                      *)

\* Padding of at most half a kernel is less than the kernel.
LEMMA HalfIs ==
    ASSUME NEW k \in Int, NEW p \in Int, k > 0, p \in 0 .. k \div 2
    PROVE  0 <= p /\ 2 * p <= k /\ p < k
<1>1. k \div 2 \in Int /\ 2 * (k \div 2) <= k
  BY SMT
<1> QED BY <1>1

\* With such padding, every window of an input of any size holds a cell of it.
LEMMA WindowSees ==
    ASSUME NEW k \in Int, NEW s \in Int, NEW p \in Int, NEW size \in Nat \ {0}, k > 0, s > 0, p \in 0 .. k \div 2
    PROVE  WindowsSee(k, s, p, size)
<1> SUFFICES ASSUME NEW o \in 0 .. (size + (2 * p) - k) \div s, size + (2 * p) >= k
             PROVE  (o * s) - p < size /\ (o * s) - p + k > 0
  BY DEF WindowsSee
<1> DEFINE X == size + (2 * p) - k
           Q == X \div s
<1>1. 0 <= p /\ 2 * p <= k /\ p < k
  BY HalfIs
<1>2. X \in Nat /\ s \in Nat /\ s \in Positive
  BY <1>1 DEF Positive
<1>3. Q \in Nat /\ X % s \in 0 .. s - 1 /\ X = s * Q + (X % s)
  BY <1>2, DivMod
<1>4. o \in Nat /\ o <= Q
  BY <1>3
<1> DEFINE R == X % s
<1>5. R \in Nat /\ X = s * Q + R
  BY <1>2, <1>3
<1> HIDE DEF Q, R
<1>6. o * s <= Q * s /\ o * s \in Nat /\ Q * s = s * Q /\ s * Q \in Nat
  BY <1>2, <1>3, <1>4, MulMonotone
<1>7. o * s <= size + (2 * p) - k
  <2>1. o * s <= X
    <3> HIDE DEF X
    <3> QED BY <1>2, <1>5, <1>6
  <2> QED BY <2>1
<1> DEFINE m == o * s
<1>8. m \in Nat /\ m <= size + (2 * p) - k
  BY <1>6, <1>7
<1> HIDE DEF m
<1>9. m - p < size /\ m - p + k > 0
  BY <1>1, <1>8
<1> QED BY <1>9 DEF m

\* Accepted pooling sees its input, and passes the other check of padding.
LEMMA AvgPoolIsRight ==
    ASSUME NEW q \in Questions, q.helper = "avgPool" PROVE AvgPoolRight(q, Answer(q))
<1> DEFINE k == q.kernel
           s == q.stride
           p == q.padding
<1>1. k \in Seq(Int) /\ s \in Seq(Int) /\ p \in Seq(Int) /\ k # <<>> /\ Len(s) = Len(k)
  BY QuestionsAssumption
<1>2. Answer(q) = <<CheckArrayDataAvgPoolBackWard(k, s, p), CheckPaddingValidAvgPool2D(k, p)>>
  BY DEF Answer
<1> HIDE DEF k, s, p
<1>3. ASSUME CheckArrayDataAvgPoolBackWard(k, s, p)
      PROVE  /\ \A i \in DOMAIN k, size \in 1 .. 4 : WindowsSee(k[i], s[i], p[i], size)
             /\ CheckPaddingValidAvgPool2D(k, p)
  <2>1. /\ \A i \in DOMAIN k : k[i] > 0
        /\ \A i \in DOMAIN s : s[i] > 0
        /\ Len(k) = Len(p)
        /\ \A i \in DOMAIN k : p[i] \in 0 .. k[i] \div 2
    BY <1>3 DEF CheckArrayDataAvgPoolBackWard
  <2>2. DOMAIN k = DOMAIN s /\ DOMAIN k = DOMAIN p /\ p # <<>> /\ 1 \in DOMAIN k /\ Len(k) \in Nat
        /\ DOMAIN k = 1 .. Len(k)
    BY <1>1, <2>1
  <2>3. \A i \in DOMAIN k : k[i] \in Int /\ s[i] \in Int /\ p[i] \in Int
    <3>1. \A x \in Seq(Int) : \A i \in DOMAIN x : x[i] \in Int
      OBVIOUS
    <3> QED BY <1>1, <2>2, <3>1, Zenon
  <2>4. ASSUME NEW i \in DOMAIN k, NEW size \in 1 .. 4 PROVE WindowsSee(k[i], s[i], p[i], size)
    <3>1. k[i] \in Int /\ s[i] \in Int /\ p[i] \in Int /\ k[i] > 0 /\ s[i] > 0 /\ p[i] \in 0 .. k[i] \div 2
          /\ size \in Nat \ {0}
      BY <2>1, <2>2, <2>3
    <3> QED BY <3>1, WindowSees
  <2>5. ASSUME NEW i \in DOMAIN k PROVE k[i] >= 2 * p[i]
    <3>1. 2 * p[i] <= k[i]
      BY <2>1, <2>3, HalfIs
    <3> QED BY <3>1, <2>3
  <2>6. Len(k) # 1 => 2 \in DOMAIN k
    BY <2>2
  <2>7. Second(k) >= 2 * Second(p)
    <3>1. CASE Len(k) = 1
      BY <3>1, <2>1, <2>2, <2>5 DEF Second
    <3>2. CASE Len(k) # 1
      BY <3>2, <2>1, <2>5, <2>6 DEF Second
    <3> QED BY <3>1, <3>2
  <2> QED BY <2>2, <2>4, <2>5, <2>7 DEF CheckPaddingValidAvgPool2D
<1> DEFINE b == CheckArrayDataAvgPoolBackWard(k, s, p)
           c == CheckPaddingValidAvgPool2D(k, p)
<1> HIDE DEF b, c
<1>4. Answer(q)[1] = b /\ Answer(q)[2] = c
  BY <1>2 DEF b, c
<1>5. AvgPoolRight(q, Answer(q)) <=>
        /\ b => \A i \in DOMAIN k, size \in 1 .. 4 : WindowsSee(k[i], s[i], p[i], size)
        /\ b => c
  BY <1>4, Zenon DEF AvgPoolRight, k, s, p
<1> QED BY <1>3, <1>5, Zenon DEF b, c

LEMMA ElementsOfThree ==
    ASSUME NEW s \in Seq(Nat), Len(s) = 3
    PROVE  Elements(s) = s[1] * s[2] * s[3]
<1>1. PICK f \in [0 .. Len(s) -> Nat] : Products(f, s)
  BY ProductsExist
<1>2. f[0] = 1 /\ \A i \in 1 .. 3 : f[i] = f[i - 1] * s[i]
  BY <1>1 DEF Products
<1>3. f[1] = 1 * s[1] /\ f[2] = f[1] * s[2] /\ f[3] = f[2] * s[3]
  <2>1. 1 \in 1 .. 3 /\ 2 \in 1 .. 3 /\ 3 \in 1 .. 3 /\ 1 - 1 = 0 /\ 2 - 1 = 1 /\ 3 - 1 = 2
    OBVIOUS
  <2> QED BY <1>2, <2>1
<1>4. s[1] \in Nat
  OBVIOUS
<1>5. f[3] = s[1] * s[2] * s[3]
  BY <1>3, <1>4
<1> QED BY <1>1, <1>5, ElementsIs

\* Accepted unpooling has a place for every cell of its input.
LEMMA UnpoolIsRight ==
    ASSUME NEW q \in Questions, q.helper = "unpool" PROVE UnpoolRight(q, Answer(q))
<1> DEFINE s == q.self
           o == q.outputSize
           n == Len(s)
           t == SubSeq(s, n - 2, n)
<1>1. s \in Seq(Nat) /\ n \in {4, 5} /\ o \in Seq(Nat)
  BY QuestionsAssumption
<1>2. Answer(q) <=> CheckInpuNullTensorMaxUnPool3D(s)
                      /\ CheckIntArrayShapeMaxUnPool3D(s, o, q.stride, q.padding)
  BY DEF Answer
<1> SUFFICES ASSUME CheckInpuNullTensorMaxUnPool3D(s), CheckIntArrayShapeMaxUnPool3D(s, o, q.stride, q.padding)
             PROVE  Elements(t) \in 1 .. Elements(o)
  BY <1>2, Zenon DEF UnpoolRight
<1>3. \A i \in 2 .. n : s[i] > 0
  BY DEF CheckInpuNullTensorMaxUnPool3D
<1>4. t \in Seq(Nat) /\ Len(t) = 3 /\ t[1] = s[n - 2] /\ t[2] = s[n - 1] /\ t[3] = s[n]
  <2>1. CASE n = 4
    <3>1. t = SubSeq(s, 2, 4)
      BY <2>1
    <3>2. SubSeq(s, 2, 4) \in Seq(Nat) /\ Len(SubSeq(s, 2, 4)) = 3 /\ SubSeq(s, 2, 4)[1] = s[2]
          /\ SubSeq(s, 2, 4)[2] = s[3] /\ SubSeq(s, 2, 4)[3] = s[4]
      BY <1>1, <2>1
    <3> QED BY <3>1, <3>2, <2>1
  <2>2. CASE n = 5
    <3>1. t = SubSeq(s, 3, 5)
      BY <2>2
    <3>2. SubSeq(s, 3, 5) \in Seq(Nat) /\ Len(SubSeq(s, 3, 5)) = 3 /\ SubSeq(s, 3, 5)[1] = s[3]
          /\ SubSeq(s, 3, 5)[2] = s[4] /\ SubSeq(s, 3, 5)[3] = s[5]
      BY <1>1, <2>2
    <3> QED BY <3>1, <3>2, <2>2
  <2> HIDE DEF n, t
  <2> QED BY <1>1, <2>1, <2>2
<1>5. {s[n - 2], s[n - 1], s[n]} \subseteq Nat \ {0}
  <2>1. n - 2 \in 2 .. n /\ n - 1 \in 2 .. n /\ n \in 2 .. n
    <3> HIDE DEF n
    <3> QED BY <1>1
  <2>2. \A i \in 2 .. n : s[i] \in Nat
    BY <1>1
  <2>3. \A i \in 2 .. n : s[i] \in Nat \ {0}
    <3> HIDE DEF n, s
    <3> QED BY <1>3, <2>2
  <2> HIDE DEF n, s
  <2> QED BY <2>1, <2>3
<1>6. /\ Len(o) = 3
      /\ LET dimD == IF n = 5 THEN 2 ELSE 1 IN
         Elements(o) >= DimOf(s, dimD) * DimOf(s, dimD + 1) * DimOf(s, dimD + 2)
  BY Zenon DEF CheckIntArrayShapeMaxUnPool3D
<1>7. Elements(o) >= s[n - 2] * s[n - 1] * s[n]
  <2> HIDE DEF s
  <2>1. CASE n = 4
    BY <2>1, <1>6 DEF DimOf
  <2>2. CASE n = 5
    BY <2>2, <1>6 DEF DimOf
  <2> HIDE DEF n
  <2> QED BY <1>1, <2>1, <2>2
<1>8. Elements(t) = s[n - 2] * s[n - 1] * s[n]
  <2>1. Elements(t) = t[1] * t[2] * t[3]
    <3> HIDE DEF t
    <3> QED BY <1>4, ElementsOfThree
  <2> HIDE DEF t, s, n
  <2> QED BY <2>1, <1>4
<1>9. Elements(o) \in Nat
  BY <1>1, ElementsIs
<1>10. ASSUME NEW x \in Nat \ {0}, NEW y \in Nat \ {0}, NEW z \in Nat \ {0}
       PROVE  x * y * z \in Nat /\ x * y * z >= 1
  <2>1. x * y \in Nat /\ x * y >= 1
    BY SMT
  <2> QED BY <2>1
<1> HIDE DEF s, n, t, o
<1>11. s[n - 2] * s[n - 1] * s[n] \in Nat /\ s[n - 2] * s[n - 1] * s[n] >= 1
  BY <1>5, <1>10
<1> QED BY <1>7, <1>8, <1>9, <1>11

\* Chips outside the range take the second list.
LEMMA NotBetween ==
    ASSUME NEW soc, NEW l1, NEW l2, ~From910BTo910E(soc)
    PROVE  GetDtypeSupportListV1(soc, l1, l2) = l2 /\ GetDtypeSupportListV2(soc, l1, l2) = l2
<1>1. {"ASCEND910B", "ASCEND910_93"} \subseteq Range(SubSeq(Socs, 2, 5))
  <2> DEFINE b == SubSeq(Socs, 2, 5)
  <2>1. 1 \in DOMAIN b /\ b[1] = "ASCEND910B" /\ 2 \in DOMAIN b /\ b[2] = "ASCEND910_93"
    BY DEF Socs
  <2> QED BY <2>1 DEF Range
<1> QED BY <1>1 DEF From910BTo910E, GetDtypeSupportListV1, GetDtypeSupportListV2

\* No check with a list per chip takes BF16 on a chip without it.
LEMMA TypesIsRight ==
    ASSUME NEW q \in Questions, q.helper = "types" PROVE TypesRight(q, Answer(q))
<1> DEFINE list == GetDtypeSupportListV1(q.soc, q.l1, q.l2)
           a == <<CheckDtypeValid1In1Out(q.self, q.out, list, list),
                  CheckDtypeValid1In1OutAttr(q.self, q.third, q.out, list, list, list),
                  CheckDtypeValid1In1OutMatch(q.self, q.out, q.third, q.third, list),
                  CheckDtypeValidActivation(q.soc, q.self, q.out, GetDtypeSupportListV3(q.soc, q.l1, q.l2)),
                  CheckPromoteTypeGeluBackward(q.soc, q.out, q.self, q.l1),
                  CheckDtypeValidMseLoss(q.soc, q.self, q.third, q.out, q.l1, q.l2),
                  CheckDtypeValid1Out1In(q.out, q.self)>>
<1>1. Answer(q) = a
  BY DEF Answer
<1>2. SUFFICES ASSUME "BF16" \in {q.self, q.out}, ~From910BTo910E(q.soc)
               PROVE  ~a[1] /\ ~a[2] /\ ~a[3] /\ ~a[4] /\ ~a[6]
  BY <1>1, Zenon DEF TypesRight
<1>3. list = q.l2 /\ GetDtypeSupportListV2(q.soc, q.l1, q.l2) = q.l2 /\ "BF16" \notin q.l2
  BY <1>2, NotBetween, QuestionsAssumption
<1> HIDE DEF list
<1>4. ~CheckDtypeValid1In1Out(q.self, q.out, list, list)
  BY <1>2, <1>3 DEF CheckDtypeValid1In1Out
<1>5. ~CheckDtypeValid1In1OutAttr(q.self, q.third, q.out, list, list, list)
  BY <1>2, <1>3 DEF CheckDtypeValid1In1OutAttr
<1>6. ~CheckDtypeValid1In1OutMatch(q.self, q.out, q.third, q.third, list)
  BY <1>2, <1>3 DEF CheckDtypeValid1In1OutMatch
<1>7. ~CheckDtypeValidActivation(q.soc, q.self, q.out, GetDtypeSupportListV3(q.soc, q.l1, q.l2))
  BY <1>2 DEF CheckDtypeValidActivation
<1>8. ~CheckDtypeValidMseLoss(q.soc, q.self, q.third, q.out, q.l1, q.l2)
  BY <1>2, <1>3 DEF CheckDtypeValidMseLoss
<1> QED BY <1>4, <1>5, <1>6, <1>7, <1>8, Zenon

-----------------------------------------------------------------------------
(* Shapes of arguments, long shapes and filling.                           *)

LEMMA ElementsOfOne == ASSUME NEW x \in Nat PROVE Elements(<<x>>) = x
<1>1. <<>> \in Seq(Nat) /\ Append(<<>>, x) = <<x>>
  OBVIOUS
<1>2. Elements(Append(<<>>, x)) = Elements(<<>>) * x
  BY <1>1, ElementsAppend
<1>3. 1 * x = x
  OBVIOUS
<1> QED BY <1>1, <1>2, <1>3, ElementsEmpty

\* A shape of too many dimensions keeps its elements, and comes back.
LEMMA LongIsRight ==
    ASSUME NEW q \in Questions, q.helper = "long" PROVE LongRight(q, Answer(q))
<1> DEFINE s == q.self
           short == IF Len(s) > MAX_SUPPORT_DIMS_NUMS THEN <<Elements(s)>> ELSE s
<1>1. s \in Seq(Nat) /\ MAX_SUPPORT_DIMS_NUMS \in Nat \ {0}
  BY QuestionsAssumption
<1>2. Answer(q) = <<ReshapeSelfValueGetActivation(s),
                    ReshapeLongTensorActivation(ReshapeSelfValueGetActivation(s), Len(s), s)>>
  BY DEF Answer, GetTensorShapeActivation
<1> HIDE DEF s
<1>3. ReshapeSelfValueGetActivation(s) = short
  BY <1>1 DEF ReshapeSelfValueGetActivation, ReshapeLongTensorActivation
<1>4. Len(s) \in Nat /\ Elements(s) \in Nat
  BY <1>1, ElementsIs
<1>5. Len(short) = IF Len(s) > MAX_SUPPORT_DIMS_NUMS THEN 1 ELSE Len(s)
  OBVIOUS
<1>6. Elements(short) = Elements(s)
  BY <1>4, ElementsOfOne
<1>7. ReshapeLongTensorActivation(short, Len(s), s) = s
  <2>1. CASE Len(s) > MAX_SUPPORT_DIMS_NUMS
    <3>1. Len(s) # Len(short)
      <4>1. Len(short) = 1
        BY <2>1, <1>5, Zenon
      <4>2. \A n \in Nat, m \in Nat \ {0} : n > m => n # 1
        OBVIOUS
      <4> QED BY <2>1, <4>1, <4>2, <1>1, <1>4, Zenon
    <3> HIDE DEF short
    <3> QED BY <3>1 DEF ReshapeLongTensorActivation
  <2>2. CASE ~(Len(s) > MAX_SUPPORT_DIMS_NUMS)
    <3>1. short = s
      BY <2>2
    <3> QED BY <3>1 DEF ReshapeLongTensorActivation
  <2> QED BY <2>1, <2>2
<1> HIDE DEF short
<1>8. Answer(q)[1] = short /\ Answer(q)[2] = s
  BY <1>2, <1>3, <1>7
<1>9. Len(short) <= MAX_SUPPORT_DIMS_NUMS
  BY <1>1, <1>4, <1>5
<1> QED BY <1>6, <1>8, <1>9 DEF LongRight, s

\* What is filled has the elements of the output.
LEMMA FillIsRight ==
    ASSUME NEW q \in Questions, q.helper = "fill" PROVE FillRight(q, Answer(q))
<1> DEFINE s == q.self
           a == FillTensorWithFalseValueWithInf(s, q.fails)
           b == CheckFillScalarShapeStdAndVar(s, q.fails)
           c == CheckFillScalarLoss(s, q.fails)
<1>1. Elements(<<1>>) = 1 /\ Elements(<<>>) = 1
  BY ElementsOfOne, ElementsEmpty
<1>2. Answer(q) = <<a, b, c>>
  BY DEF Answer
<1>3. a # NotFilled => Elements(a) = Elements(s)
  <2>1. a \in {NotFilled, FillTensorGetTmpDim(s)}
    BY DEF FillTensorWithFalseValueWithInf
  <2>2. Elements(FillTensorGetTmpDim(s)) = Elements(s)
    BY <1>1 DEF FillTensorGetTmpDim
  <2> HIDE DEF a, s
  <2> QED BY <2>1, <2>2
<1>4. b # NotFilled => Elements(b) = Elements(s)
  <2>1. b \in {NotFilled, s}
    BY DEF CheckFillScalarShapeStdAndVar, FillScalarGetShapeValue
  <2> HIDE DEF b, s
  <2> QED BY <2>1
<1>5. c \in {NotFilled, UnknownFill, <<1>>}
  BY DEF CheckFillScalarLoss
<1> HIDE DEF a, b, c, s
<1>6. Answer(q)[1] = a /\ Answer(q)[2] = b /\ Answer(q)[3] = c
  BY <1>2
<1>7. \A i \in {1, 2} : Answer(q)[i] # NotFilled => Elements(Answer(q)[i]) = Elements(s)
  BY <1>3, <1>4, <1>6
<1>8. c \notin {NotFilled, UnknownFill} /\ Elements(s) = 1 => Elements(c) = Elements(s)
  BY <1>1, <1>5, Zenon
<1> QED BY <1>6, <1>7, <1>8, Zenon DEF FillRight, s

\* A shape broadcast with itself is itself.
LEMMA BroadcastWithItself ==
    ASSUME NEW s \in Seq(Nat) PROVE CheckBroadcastLogAddExp(s, s, s)
<1> DEFINE n == Len(s)
           at(i, m) == IF i > m - Len(s) THEN s[i - (m - Len(s))] ELSE 1
<1>1. n \in Nat /\ DOMAIN s = 1 .. n /\ s = [i \in 1 .. n |-> s[i]]
  OBVIOUS
<1>2. Max({n, n}) = n
  <2>1. n \in Int /\ n <= n
    BY <1>1
  <2> HIDE DEF n
  <2> QED BY <2>1, MinMaxOfTwo, Zenon
<1>3. BroadcastInferShape(s, s) = [i \in 1 .. n |-> IF at(i, n) = 1 THEN at(i, n) ELSE at(i, n)]
  BY <1>2, Zenon DEF BroadcastInferShape
<1>4. \A i \in 1 .. n : at(i, n) = s[i]
  BY <1>1
<1>5. BroadcastInferShape(s, s) = s
  <2> HIDE DEF at, n
  <2> QED BY <1>1, <1>3, <1>4
<1>6. Broadcasts(s, s)
  BY Zenon DEF Broadcasts
<1> QED BY <1>5, <1>6 DEF CheckBroadcastLogAddExp

LEMMA SameSequence ==
    ASSUME NEW s \in Seq(Nat), NEW t \in Seq(Nat)
    PROVE  s = t <=> Len(s) = Len(t) /\ \A i \in DOMAIN s : s[i] = t[i]
<1>1. ASSUME Len(s) = Len(t), \A i \in DOMAIN s : s[i] = t[i] PROVE s = t
  <2>1. DOMAIN s = DOMAIN t /\ s = [i \in DOMAIN s |-> s[i]] /\ t = [i \in DOMAIN t |-> t[i]]
    BY <1>1
  <2> QED BY <2>1, <1>1, Zenon
<1> QED BY <1>1

\* How the checks of shapes imply each other.
LEMMA ShapesIsRight ==
    ASSUME NEW q \in Questions, q.helper = "shapes" PROVE ShapesRight(q, Answer(q))
<1> DEFINE s == q.self
           o == q.out
           third == q.third
           a == <<CheckSameShape1In1Out(s, o), CheckShapeCumMinMax(s, o, third),
                  CheckSameShapeNotlimit1In1Out(s, o), CheckShapeNotlimitDim1In1Out(s),
                  Len(s) = Len(o) /\ CheckSizeLoop(s, o), CheckBroadcastLogAddExp(s, third, o)>>
<1>1. s \in Seq(Nat) /\ o \in Seq(Nat) /\ third \in Seq(Nat)
  BY QuestionsAssumption
<1>2. Answer(q) = a
  BY DEF Answer
<1> HIDE DEF s, o, third
<1>3. a[1] <=> a[3] /\ a[4]
  BY DEF CheckSameShape1In1Out, CheckSameShapeNotlimit1In1Out, CheckShapeNotlimitDim1In1Out
<1>4. a[2] => a[1]
  BY DEF CheckSameShape1In1Out, CheckShapeCumMinMax
<1>5. a[3] <=> a[5]
  <2>1. s = o <=> Len(s) = Len(o) /\ \A i \in DOMAIN s : s[i] = o[i]
    BY <1>1, SameSequence
  <2> QED BY <2>1 DEF CheckSameShapeNotlimit1In1Out, CheckSizeLoop
<1>6. a[3] /\ s = third => a[6]
  <2>1. CheckBroadcastLogAddExp(s, s, s)
    BY <1>1, BroadcastWithItself
  <2> QED BY <2>1 DEF CheckSameShapeNotlimit1In1Out
<1> HIDE DEF a
<1> QED BY <1>2, <1>3, <1>4, <1>5, <1>6, Zenon DEF ShapesRight, s, third

-----------------------------------------------------------------------------
(* Reductions.                                                             *)

\* The product of the dimensions that a reduction makes 1 is the factor it takes out.
LEMMA ReducedFactor ==
    ASSUME NEW s \in Seq(Nat), NEW dims \in Seq(Int), IsInjective(dims),
           \A i \in 1 .. Len(dims) : dims[i] \in 0 .. Len(s) - 1
    PROVE  LET sizes == [i \in DOMAIN dims |-> DimOf(s, dims[i])] IN
           /\ Elements(sizes) \in Nat
           /\ Elements(Dropped(s, {dims[i] : i \in 1 .. Len(dims)}, TRUE)) * Elements(sizes) = Elements(s)
<1> DEFINE n == Len(s)
           m == Len(dims)
           G == [i \in DOMAIN dims |-> DimOf(s, dims[i])]
           First(k) == {dims[j] : j \in 1 .. k}
           T(k) == Dropped(s, First(k), TRUE)
<1>1. /\ n \in Nat /\ m \in Nat /\ DOMAIN dims = 1 .. m /\ DOMAIN s = 1 .. n
      /\ \A i \in 1 .. n : s[i] \in Nat
  OBVIOUS
<1>2. \A i \in 1 .. m : dims[i] + 1 \in 1 .. n /\ dims[i] \in Int
  BY <1>1
<1>3. G \in Seq(Nat) /\ Len(G) = m /\ \A i \in 1 .. m : G[i] = s[dims[i] + 1]
  <2>1. G = [i \in 1 .. m |-> s[dims[i] + 1]]
    BY <1>1 DEF DimOf
  <2>2. \A i \in 1 .. m : s[dims[i] + 1] \in Nat
    <3> HIDE DEF m, n
    <3> QED BY <1>1, <1>2
  <2> HIDE DEF G, m
  <2> QED BY <1>1, <2>1, <2>2
<1> HIDE DEF G
<1>4. PICK g \in [0 .. m -> Nat] : Products(g, G)
  BY <1>3, ProductsExist
<1> HIDE DEF m, n
<1>5. \A k : /\ T(k) \in Seq(Nat) /\ Len(T(k)) = n /\ Elements(T(k)) \in Nat
             /\ \A i \in 1 .. n : T(k)[i] = IF i - 1 \in First(k) THEN 1 ELSE s[i]
  <2> SUFFICES ASSUME NEW k
               PROVE  /\ T(k) \in Seq(Nat) /\ Len(T(k)) = n /\ Elements(T(k)) \in Nat
                      /\ \A i \in 1 .. n : T(k)[i] = IF i - 1 \in First(k) THEN 1 ELSE s[i]
    OBVIOUS
  <2> HIDE DEF First
  <2>1. /\ T(k) \in Seq(Nat) /\ Len(T(k)) = n
        /\ \A i \in 1 .. n : T(k)[i] = IF i - 1 \in First(k) THEN 1 ELSE s[i]
    BY DroppedOrOne DEF n
  <2> HIDE DEF T
  <2> QED BY <2>1, ElementsIs
<1> HIDE DEF T
<1> DEFINE S == {k \in 0 .. m : Elements(T(k)) * g[k] = Elements(s)}
<1>6. 0 \in S
  <2>1. T(0) = s
    <3>1. First(0) = {}
      OBVIOUS
    <3>2. Dropped(s, {}, TRUE) = [i \in DOMAIN s |-> s[i]]
      BY DEF Dropped
    <3>3. s = [i \in DOMAIN s |-> s[i]]
      OBVIOUS
    <3> QED BY <3>1, <3>2, <3>3 DEF T
  <2>2. g[0] = 1 /\ 0 \in 0 .. m /\ Elements(s) \in Nat
    BY <1>1, <1>4, ElementsIs DEF Products
  <2> QED BY <2>1, <2>2
<1>7. ASSUME NEW k \in 1 .. m, k - 1 \in S PROVE k \in S
  <2> DEFINE j == dims[k] + 1
             old == T(k - 1)
             new == T(k)
  <2>1. j \in 1 .. n /\ j - 1 = dims[k] /\ k \in 0 .. m /\ k - 1 \in 0 .. m
    BY <1>1, <1>2
  <2>2. First(k) = First(k - 1) \cup {dims[k]}
    <3>1. 1 .. k = (1 .. k - 1) \cup {k}
      BY <1>1
    <3> QED BY <3>1, Zenon
  <2>3. dims[k] \notin First(k - 1)
    <3>1. ASSUME NEW i \in 1 .. k - 1, dims[i] = dims[k] PROVE FALSE
      <4>1. i \in DOMAIN dims /\ k \in DOMAIN dims /\ i # k
        BY <1>1
      <4> QED BY <4>1, <3>1 DEF IsInjective
    <3> QED BY <3>1
  <2>4. /\ old \in Seq(Nat) /\ Len(old) = n /\ Elements(old) \in Nat
        /\ new \in Seq(Nat) /\ Len(new) = n /\ Elements(new) \in Nat
    BY <1>5
  <2>5. old[j] = s[j] /\ s[j] \in Nat
    <3> HIDE DEF old, j, First
    <3> QED BY <1>1, <1>5, <2>1, <2>3 DEF old
  <2>6. new = [old EXCEPT ![j] = 1]
    <3>1. \A i \in 1 .. n : new[i] = IF i - 1 \in First(k) THEN 1 ELSE s[i]
      BY <1>5
    <3>2. \A i \in 1 .. n : old[i] = IF i - 1 \in First(k - 1) THEN 1 ELSE s[i]
      BY <1>5
    <3>3. \A i \in 1 .. n : i - 1 = dims[k] <=> i = j
      <4>1. \A d \in Int : \A i \in 1 .. n : i - 1 = d <=> i = d + 1
        BY <1>1
      <4> QED BY <4>1, <1>2, Zenon
    <3> HIDE DEF First, j, old, new
    <3>4. \A i \in 1 .. n : new[i] = IF i = j THEN 1 ELSE old[i]
      BY <2>2, <3>1, <3>2, <3>3
    <3>5. DOMAIN new = 1 .. n /\ DOMAIN old = 1 .. n /\ new = [i \in DOMAIN new |-> new[i]]
      BY <2>4
    <3> QED BY <2>1, <3>4, <3>5
  <2> HIDE DEF old, new, j, First
  <2>7. Elements(old) = Elements(new) * s[j]
    <3>1. j \in 1 .. Len(old)
      BY <2>1, <2>4
    <3> QED BY <2>4, <2>5, <2>6, <3>1, ElementsOneOut
  <2>8. g[k] = g[k - 1] * s[j] /\ g[k - 1] \in Nat /\ g[k] \in Nat
    BY <1>3, <1>4, <2>1 DEF Products, j
  <2>9. Elements(old) * g[k - 1] = Elements(s)
    BY <1>7 DEF old
  <2>10. \A x \in Nat, y \in Nat, z \in Nat : x * (y * z) = (x * z) * y
    OBVIOUS
  <2>11. Elements(new) * g[k] = Elements(s)
    <3>1. Elements(new) * (g[k - 1] * s[j]) = (Elements(new) * s[j]) * g[k - 1]
      BY <2>4, <2>5, <2>8, <2>10
    <3> QED BY <2>7, <2>8, <2>9, <3>1, Zenon
  <2> QED BY <2>1, <2>11 DEF new
<1>8. \A k \in 0 .. m : k \in S
  <2> HIDE DEF S
  <2> QED BY <1>1, <1>6, <1>7, InductionUpTo
<1>9. m \in 0 .. m /\ m \in S
  BY <1>1, <1>8
<1>10. Elements(G) = g[m] /\ Elements(G) \in Nat
  BY <1>3, <1>4, ElementsIs DEF m
<1> QED BY <1>9, <1>10 DEF T, G, m

\* Axes that the array has room for are marked, each at its place.
LEMMA AllMarked ==
    ASSUME NEW m \in Nat, NEW axes, \A k \in DOMAIN axes : axes[k] \in 0 .. m - 1
    PROVE  Marked(m, axes) = {axes[k] : k \in DOMAIN axes}
BY DEF Marked

\* Both inferences agree, and what they drop and keep are all the elements.
LEMMA ReduceIsRight ==
    ASSUME NEW q \in Questions, q.helper = "reduce" PROVE ReduceRight(q, Answer(q))
<1> DEFINE s == q.self
           dims == q.dims
           keep == q.keepDim
           n == Len(s)
           drop1 == IF dims = <<>> THEN 0 .. MAX_MASK_LEN64 - 1
                    ELSE {GetPosDimWithStd(dims[i], n) : i \in DOMAIN dims}
           drop2 == {IF dims[i] < 0 THEN dims[i] + n ELSE dims[i] : i \in DOMAIN dims}
           a == <<ExpectShapeInferWithDimMask(s, dims, keep), ReduceShapeGetWithVar(s, dims, keep),
                  IF \E i \in DOMAIN dims : dims[i] < 0 THEN Outside ELSE CalcShapeProdStdAndVarMean(s, dims),
                  ReduceShapeGetWithVar(s, CalcDimWithVar(s), keep)>>
<1>1. /\ s \in Seq(Nat) /\ dims \in Seq(Int) /\ Ranked(n, dims) /\ keep \in BOOLEAN
      /\ n <= MAX_SUPPORT_DIMS_NUMS
  BY QuestionsAssumption
<1>2. Answer(q) = a
  BY DEF Answer
<1>0. /\ MAX_SUPPORT_DIMS_NUMS \in Nat /\ MAX_SUPPORT_DIMS_NUMS >= 1 /\ MAX_MASK_LEN64 \in Nat
      /\ MAX_SUPPORT_DIMS_NUMS <= MAX_MASK_LEN64
  BY QuestionsAssumption
<1> HIDE DEF s, dims, keep
<1> DEFINE pos == [i \in DOMAIN dims |-> GetPosDimWithStd(dims[i], n)]
           axis == [i \in DOMAIN dims |-> IF dims[i] < 0 THEN dims[i] + n ELSE dims[i]]
<1>20. \A i \in DOMAIN dims : /\ pos[i] = axis[i]
                              /\ pos[i] \in 0 .. MAX_MASK_LEN64 - 1 /\ axis[i] \in 0 .. MAX_SUPPORT_DIMS_NUMS - 1
  <2> TAKE i \in DOMAIN dims
  <2>1. n \in Nat /\ dims[i] \in Int /\ (n = 0 => dims[i] = 0) /\ (n # 0 => dims[i] \in -n .. n - 1)
    BY <1>1 DEF Ranked
  <2> HIDE DEF n
  <2> QED BY <1>0, <1>1, <2>1 DEF GetPosDimWithStd
<1>21. Marked(MAX_MASK_LEN64, pos) = {pos[i] : i \in DOMAIN dims}
  <2> HIDE DEF pos, axis
  <2>1. DOMAIN pos = DOMAIN dims
    BY DEF pos
  <2> QED BY <1>0, <1>20, <2>1, AllMarked
<1>22. Marked(MAX_SUPPORT_DIMS_NUMS, axis) = {axis[i] : i \in DOMAIN dims}
  <2> HIDE DEF pos, axis
  <2>1. DOMAIN axis = DOMAIN dims
    BY DEF axis
  <2> QED BY <1>0, <1>20, <2>1, AllMarked
<1>23. {pos[i] : i \in DOMAIN dims} = {GetPosDimWithStd(dims[i], n) : i \in DOMAIN dims}
  OBVIOUS
<1>24. {axis[i] : i \in DOMAIN dims} = drop2
  OBVIOUS
<1>3. a[1] = Dropped(s, drop1, keep)
  <2>1. a[1] = Dropped(s, IF dims = <<>> THEN 0 .. MAX_MASK_LEN64 - 1 ELSE Marked(MAX_MASK_LEN64, pos), keep)
    BY DEF ExpectShapeInferWithDimMask
  <2> HIDE DEF a, pos
  <2> QED BY <2>1, <1>21, <1>23
<1>4. n \in Nat /\ DOMAIN s = 1 .. n /\ \A i \in DOMAIN dims : dims[i] \in Int
  BY <1>1
<1>5. n = 0 => s = <<>>
  BY <1>1
<1>6. \A drop : (\A i \in 1 .. n : i - 1 \in drop) =>
            /\ Dropped(s, drop, keep) = IF keep THEN [i \in DOMAIN s |-> 1] ELSE <<>>
            /\ Elements(Dropped(s, drop, keep)) = 1
  BY <1>1, AllDropped
<1>7. Elements(s) \in Nat /\ Elements(<<>>) = 1
  BY <1>1, ElementsIs, ElementsEmpty
<1> HIDE DEF n
<1>8. dims = <<>> \/ n = 0 => \A i \in 1 .. n : i - 1 \in drop1
  BY <1>0, <1>1, <1>4
<1>9. a[1] = a[2]
  <2>1. CASE dims = <<>>
    BY <2>1, <1>3, <1>6, <1>8 DEF ReduceShapeGetWithVar
  <2>2. CASE dims # <<>>
    <3>1. a[2] = Dropped(s, drop2, keep)
      <4>1. a[2] = Dropped(s, Marked(MAX_SUPPORT_DIMS_NUMS, axis), keep)
        BY <2>2 DEF ReduceShapeGetWithVar, n
      <4> HIDE DEF a, axis, drop2
      <4> QED BY <4>1, <1>22, <1>24
    <3>2. CASE n = 0
      <4>1. (\A i \in 1 .. n : i - 1 \in drop1) /\ (\A i \in 1 .. n : i - 1 \in drop2)
        BY <3>2
      <4> HIDE DEF a, drop1, drop2
      <4> QED BY <3>1, <4>1, <1>3, <1>6
    <3>3. CASE n # 0
      <4>1. \A i \in DOMAIN dims : GetPosDimWithStd(dims[i], n) = IF dims[i] < 0 THEN dims[i] + n ELSE dims[i]
        BY <1>4, <3>3 DEF GetPosDimWithStd
      <4>2. drop1 = drop2
        BY <2>2, <4>1
      <4> HIDE DEF a, drop1, drop2
      <4> QED BY <3>1, <4>2, <1>3
    <3> QED BY <3>2, <3>3
  <2> QED BY <2>1, <2>2
<1>10. ASSUME IsInjective(dims), a[3] # Outside PROVE Elements(a[1]) * a[3] = Elements(s)
  <2>1. (\A i \in DOMAIN dims : ~(dims[i] < 0)) /\ a[3] = CalcShapeProdStdAndVarMean(s, dims)
    <3> HIDE DEF s, dims, n
    <3> QED BY <1>10
  <2>2. CASE s = <<>>
    <3>1. n = 0
      BY <2>2 DEF n
    <3>2. a[3] = 1
      BY <2>1, <2>2 DEF CalcShapeProdStdAndVarMean
    <3>3. Elements(a[1]) = 1
      <4> HIDE DEF a, drop1
      <4> QED BY <3>1, <1>3, <1>6, <1>8
    <3> HIDE DEF a
    <3> QED BY <2>2, <3>2, <3>3, <1>7
  <2>3. CASE s # <<>> /\ dims = <<>>
    <3>1. a[3] = Elements(s)
      BY <2>1, <2>3 DEF CalcShapeProdStdAndVarMean
    <3>2. Elements(a[1]) = 1
      <4> HIDE DEF a, drop1
      <4> QED BY <2>3, <1>3, <1>6, <1>8
    <3> HIDE DEF a
    <3> QED BY <3>1, <3>2, <1>7
  <2>4. CASE s # <<>> /\ dims # <<>>
    <3> DEFINE sizes == [i \in DOMAIN dims |-> DimOf(s, dims[i])]
               all == {dims[i] : i \in 1 .. Len(dims)}
    <3>1. a[3] = Elements(sizes)
      BY <2>1, <2>4 DEF CalcShapeProdStdAndVarMean
    <3>2. n # 0
      BY <2>4, <1>5
    <3>3. \A i \in DOMAIN dims : dims[i] \in 0 .. n - 1
      <4>1. \A i \in DOMAIN dims : dims[i] \in -n .. n - 1
        BY <1>1, <3>2 DEF Ranked
      <4> QED BY <4>1, <2>1, <1>4
    <3>4. DOMAIN dims = 1 .. Len(dims)
      BY <1>1
    <3>5. drop1 = all
      <4>1. \A i \in DOMAIN dims : GetPosDimWithStd(dims[i], n) = dims[i]
        BY <3>3, <1>4 DEF GetPosDimWithStd
      <4> QED BY <2>4, <3>4, <4>1
    <3>6. Elements(Dropped(s, all, TRUE)) * Elements(sizes) = Elements(s)
      BY <1>1, <1>10, <3>3, <3>4, ReducedFactor DEF n
    <3>7. Elements(Dropped(s, all, keep)) = Elements(Dropped(s, all, TRUE))
      <4> HIDE DEF all
      <4> QED BY <1>1, DroppedOrOne
    <3> HIDE DEF a, all, sizes, drop1
    <3> QED BY <1>3, <3>1, <3>5, <3>6, <3>7
  <2> QED BY <2>2, <2>3, <2>4
<1>11. Elements(a[4]) = 1 /\ (keep => Len(a[4]) = n)
  <2> DEFINE d == CalcDimWithVar(s)
             axes == [i \in DOMAIN d |-> IF d[i] < 0 THEN d[i] + n ELSE d[i]]
             drop == Marked(MAX_SUPPORT_DIMS_NUMS, axes)
  <2>1. d = [i \in 1 .. n |-> i - 1]
    BY <1>4 DEF CalcDimWithVar
  <2> HIDE DEF d
  <2>2. \A i \in 1 .. n : i \in DOMAIN d /\ d[i] = i - 1 /\ ~(d[i] < 0)
    BY <1>4, <2>1
  <2>3. \A i \in 1 .. n : i - 1 \in drop
    <3> TAKE i \in 1 .. n
    <3>1. i \in DOMAIN axes /\ axes[i] = i - 1
      BY <2>2
    <3>2. i - 1 \in 0 .. MAX_SUPPORT_DIMS_NUMS - 1
      <4> HIDE DEF n
      <4> QED BY <1>0, <1>1, <1>4
    <3> HIDE DEF axes
    <3> QED BY <3>1, <3>2 DEF Marked
  <2>4. a[4] = IF d # <<>> THEN Dropped(s, drop, keep) ELSE IF keep THEN [i \in DOMAIN s |-> 1] ELSE <<>>
    BY DEF ReduceShapeGetWithVar, d, n
  <2>5. a[4] = Dropped(s, drop, keep)
    <3> HIDE DEF a, drop
    <3> QED BY <2>3, <2>4, <1>6
  <2>6. keep => Len(Dropped(s, drop, keep)) = n
    <3> HIDE DEF drop
    <3> QED BY <1>1, DroppedOrOne DEF n
  <2> HIDE DEF a, drop
  <2> QED BY <2>3, <2>5, <2>6, <1>6
<1> HIDE DEF a
<1> QED BY <1>2, <1>9, <1>10, <1>11, Zenon DEF ReduceRight, s, dims, keep, n

-----------------------------------------------------------------------------
(* Every helper answers as its reference says.                             *)

\* An answer is the helper's answer to the question asked.
LevelTwoInv ==
    /\ question = Unasked \/ question \in Questions
    /\ answer # Unasked => /\ question # Unasked
                           /\ answer = [helper |-> question.helper, is |-> Answer(question)]

LEMMA LevelTwoInductive ==
    /\ LevelTwoInit => LevelTwoInv
    /\ LevelTwoInv /\ [LevelTwoNext]_levelTwoVars => LevelTwoInv'
<1>1. LevelTwoInit => LevelTwoInv
  BY DEF LevelTwoInit, LevelTwoInv
<1>2. ASSUME LevelTwoInv, [LevelTwoNext]_levelTwoVars PROVE LevelTwoInv'
  <2>1. CASE AskHelper
    BY <1>2, <2>1, Zenon DEF LevelTwoInv, AskHelper
  <2>2. CASE HelperAnswers
    BY <1>2, <2>2, Zenon DEF LevelTwoInv, HelperAnswers
  <2>3. CASE UNCHANGED levelTwoVars
    <3>1. question' = question /\ answer' = answer
      BY <2>3 DEF levelTwoVars
    <3> QED BY <1>2, <3>1, Zenon DEF LevelTwoInv
  <2> QED BY <1>2, <2>1, <2>2, <2>3 DEF LevelTwoNext
<1> QED BY <1>1, <1>2

LEMMA AnswersAreRight == LevelTwoInv => AnswersMatchReference
<1> SUFFICES ASSUME LevelTwoInv, answer # Unasked PROVE AnswersMatchReference
  BY DEF AnswersMatchReference
<1> DEFINE q == question
           a == Answer(q)
<1>1. q \in Questions /\ answer.is = a
  BY DEF LevelTwoInv
<1>2. /\ q.helper = "slice"   => SliceRight(q, a)
      /\ q.helper = "dim"     => DimRight(q, a)
      /\ q.helper = "reduce"  => ReduceRight(q, a)
      /\ q.helper = "avgPool" => AvgPoolRight(q, a)
      /\ q.helper = "unpool"  => UnpoolRight(q, a)
      /\ q.helper = "types"   => TypesRight(q, a)
      /\ q.helper = "shapes"  => ShapesRight(q, a)
      /\ q.helper = "long"    => LongRight(q, a)
      /\ q.helper = "fill"    => FillRight(q, a)
  BY <1>1, SliceIsRight, DimIsRight, ReduceIsRight, AvgPoolIsRight, UnpoolIsRight, TypesIsRight,
     ShapesIsRight, LongIsRight, FillIsRight
<1> HIDE DEF a
<1> QED BY <1>1, <1>2 DEF AnswersMatchReference

\* Whatever a caller asks of a helper - any slice, any dimensions to reduce of a shape with as many
\* as reduceArray has room for, any pooling - the answer agrees with the independent account of it.
THEOREM LevelTwoAnswersMatch == LevelTwoSpec => []AnswersMatchReference
BY LevelTwoInductive, AnswersAreRight, PTL DEF LevelTwoSpec

-----------------------------------------------------------------------------
(* The installation lock: every refusal has a worker behind it, and a      *)
(* quiet directory is clean.  Both hold although mutual exclusion does not.*)

\* The lock bookkeeping of formal_commands_with_lock: a lock is held exactly by the process that
\* is inside formal_commands with the locked file open.
THEOREM InstallTypeCorrect == InstallSpec => []InstallTypeOK
<1> USE InstallAssumption DEF InstallAssumption
<1>1. InstallInit => InstallTypeOK
  BY DEF InstallInit, InstallTypeOK
<1>2. InstallTypeOK /\ [InstallNext]_installVars => InstallTypeOK'
  <2> SUFFICES ASSUME InstallTypeOK, [InstallNext]_installVars PROVE InstallTypeOK'
    OBVIOUS
  <2> USE DEF InstallTypeOK
  <2>1. ASSUME NEW p \in Processes, Open(p) PROVE InstallTypeOK'
    BY <2>1 DEF Open, NewFiles
  <2>2. ASSUME NEW p \in Processes, TryLock(p) PROVE InstallTypeOK'
    <3>1. CASE Granted(p)
      BY <2>2, <3>1 DEF TryLock, Granted
    <3>2. CASE ~Granted(p)
      BY <2>2, <3>2 DEF TryLock, Granted
    <3> QED BY <3>1, <3>2
  <2>3. ASSUME NEW p \in Processes, Close(p) PROVE InstallTypeOK'
    BY <2>3 DEF Close, Unlocked
  <2>4. ASSUME NEW p \in Processes, RemoveName(p) PROVE InstallTypeOK'
    <3>1. /\ pc' \in [Processes -> {"outside", "opened", "inside", "refused", "closed"}]
          /\ lockfile' \in Files \cup {Nothing} /\ leftover' \in BOOLEAN
          /\ fd' \in [Processes -> Files \cup {Nothing}]
          /\ flock' \in [Files -> Processes \cup {Nothing}]
      BY <2>4 DEF RemoveName
    <3>2. /\ fd' = fd /\ flock' = flock /\ pc[p] = "closed"
          /\ \A q \in Processes : pc'[q] = IF q = p THEN "outside" ELSE pc[q]
      BY <2>4 DEF RemoveName
    <3>3. \A q \in Processes : pc'[q] \in {"opened", "inside", "refused"} <=> fd'[q] # Nothing
      BY <3>2
    <3>4. \A q \in Processes, f \in Files : flock'[f] = q <=> pc'[q] = "inside" /\ fd'[q] = f
      BY <3>2
    <3> QED BY <3>1, <3>3, <3>4
  <2>5. ASSUME NEW p \in Processes, Die(p) PROVE InstallTypeOK'
    BY <2>5 DEF Die, Unlocked
  <2>6. CASE UNCHANGED installVars
    BY <2>6 DEF installVars
  <2> QED BY <2>1, <2>2, <2>3, <2>4, <2>5, <2>6 DEF InstallNext
<1> QED BY <1>1, <1>2, PTL DEF InstallSpec

\* flock -n refuses a process only while another one is inside formal_commands: the name that a
\* killed process left, or a name that was removed, never turns anybody away.
THEOREM RefusalsAreJustified == InstallSpec => RefusedOnlyWhileAnotherWorks
<1> USE InstallAssumption DEF InstallAssumption
<1>1. ASSUME InstallTypeOK, [InstallNext]_installVars, NEW p \in Processes, pc[p] = "opened", pc'[p] = "refused"
      PROVE  Inside \ {p} # {}
  <2>1. TryLock(p) /\ ~Granted(p)
    <3>1. ~UNCHANGED installVars
      BY <1>1 DEF installVars
    <3>2. PICK q \in Processes : Open(q) \/ TryLock(q) \/ Close(q) \/ RemoveName(q) \/ Die(q)
      BY <1>1, <3>1 DEF InstallNext
    <3> QED BY <1>1, <3>2 DEF InstallTypeOK, Open, TryLock, Close, RemoveName, Die
  <2>2. fd[p] \in Files
    BY <1>1 DEF InstallTypeOK
  <2>3. flock[fd[p]] \in Processes
    BY <2>1, <2>2, <1>1 DEF InstallTypeOK, Granted
  <2>4. pc[flock[fd[p]]] = "inside"
    BY <2>2, <2>3, <1>1 DEF InstallTypeOK
  <2> QED BY <1>1, <2>3, <2>4 DEF Inside
<1>2. InstallTypeOK /\ [InstallNext]_installVars
        => [\A p \in Processes : pc[p] = "opened" /\ pc'[p] = "refused" => Inside \ {p} # {}]_installVars
  BY <1>1
<1> QED BY <1>2, InstallTypeCorrect, PTL DEF InstallSpec, RefusedOnlyWhileAnotherWorks

\* The rm -f at the end of formal_commands_with_lock: a directory in which nobody works holds no
\* lock file, unless somebody was killed. The property is inductive over the types: whoever is
\* not outside will remove the name, and only Open gives one.
THEOREM QuietIsClean == InstallSpec => []QuietDirectoryIsClean
<1> USE InstallAssumption DEF InstallAssumption
<1>1. InstallInit => QuietDirectoryIsClean
  BY DEF InstallInit, QuietDirectoryIsClean
<1>2. InstallTypeOK /\ QuietDirectoryIsClean /\ [InstallNext]_installVars => QuietDirectoryIsClean'
  <2> SUFFICES ASSUME InstallTypeOK, QuietDirectoryIsClean, [InstallNext]_installVars PROVE QuietDirectoryIsClean'
    OBVIOUS
  <2> USE DEF InstallTypeOK, QuietDirectoryIsClean
  <2>1. ASSUME NEW p \in Processes, Open(p) \/ TryLock(p) \/ Close(p) PROVE QuietDirectoryIsClean'
    <3>1. pc'[p] # "outside"
      BY <2>1 DEF Open, TryLock, Close
    <3> QED BY <3>1
  <2>2. ASSUME NEW p \in Processes, RemoveName(p) \/ Die(p) PROVE QuietDirectoryIsClean'
    BY <2>2 DEF RemoveName, Die
  <2>3. CASE UNCHANGED installVars
    BY <2>3 DEF installVars
  <2> QED BY <2>1, <2>2, <2>3 DEF InstallNext
<1> QED BY <1>1, <1>2, InstallTypeCorrect, PTL DEF InstallSpec
=============================================================================
