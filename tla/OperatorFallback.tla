-------------------------- MODULE OperatorFallback --------------------------
(***************************************************************************)
(* Operators executed through another library, common/inc/fallback:        *)
(* EXEC_OPAPI_CMD calls an operator's two functions at once,               *)
(* EXEC_OPAPI_PREPARE_CMD calls the first and leaves the second to the     *)
(* framework.  Both are macros with static variables, shared by all        *)
(* threads that pass the same use of the macro.                            *)
(*                                                                         *)
(* Arguments become handles of the library, which live until they are      *)
(* destroyed.  The libraries, the context and the framework are external.  *)
(***************************************************************************)
EXTENDS Integers, Sequences, FiniteSets

CONSTANTS Threads,       \* the threads at one use of a macro
          ArgumentLists, \* the arguments a call may have
          Deployments    \* the installations: which library has which symbols

VARIABLES macro,    \* "EXEC" or "PREPARE"; "none" before the process starts
          symbols,  \* the symbols of every installed library
          ret,      \* the static variable of the macro
          call,     \* the call of each thread
          state     \* of the handles made for these calls: "alive", "gone", "again" if destroyed twice
fallbackVars == <<macro, symbols, ret, call, state>>

-----------------------------------------------------------------------------
(* Finding a symbol.                                                       *)
CustLib   == "libcust_opapi.so"
OpApiLib  == "libopapi.so"
AclnnLibs == <<"libaclnn_ops_infer.so", "libaclnn_ops_train.so", "libaclnn_math.so",
               "libaclnn_rand.so", "libaclnn_sparse.so", "libaclnn_fft.so">>
NoLib     == "none"

InLib(lib, s) == lib \in DOMAIN symbols /\ s \in symbols[lib]

\* The handle of a library is a static variable inside the loop over them: only the first one is
\* ever opened, and every pass of the loop asks it again.
OpenedLib(i) == AclnnLibs[1]
GetAclnnAddrByApiName(s) ==
    IF \E i \in DOMAIN AclnnLibs : InLib(OpenedLib(i), s)
    THEN OpenedLib(CHOOSE i \in DOMAIN AclnnLibs : InLib(OpenedLib(i), s)) ELSE NoLib

\* The library a symbol is taken from.
GetOpApiFuncAddr(s) ==
    IF InLib(CustLib, s) THEN CustLib
    ELSE IF InLib(OpApiLib, s) THEN OpApiLib ELSE GetAclnnAddrByApiName(s)
Found(s) == GetOpApiFuncAddr(s) # NoLib

-----------------------------------------------------------------------------
(* Arguments.  "mm" tensors and scalars are converted by the caller, which  *)
(* passes the handle on; the other kinds are converted by the macro.        *)
Create(kind) ==
    IF kind \in {"tensor", "mm"} THEN "aclCreateTensor"
    ELSE IF kind = "list" THEN "aclCreateTensorList"
    ELSE IF kind = "ints" THEN "aclCreateIntArray" ELSE "aclCreateScalar"
Destroy(kind) ==
    IF kind \in {"tensor", "mm"} THEN "aclDestroyTensor"
    ELSE IF kind = "list" THEN "aclDestroyTensorList"
    ELSE IF kind = "ints" THEN "aclDestroyIntArray" ELSE "aclDestroyScalar"

\* No tensor, an empty vector, a scalar that is no float: a null pointer is passed.
IsAbsent(arg) == arg.dims = <<>>
HasHandle(arg) == arg.kind # "value" /\ ~IsAbsent(arg) /\ Found(Create(arg.kind))
\* The members of a list are converted before the list is made.
Members(arg) == IF arg.kind = "list" /\ HasHandle(arg) /\ Found("aclCreateTensor") THEN 1 .. arg.members ELSE {}
\* The one create function that is called without a look at its address.
CallsNull(arg) == arg.kind = "ints" /\ ~IsAbsent(arg) /\ ~Found(Create("ints"))

\* Types of the table in GetConvertType; another is passed as if it were FLOAT16.
ConvertibleTypes == {"FLOAT", "BF16", "BOOL", "INT64", "INT32", "INT8", "UINT8"}
GetConvertType(arg) == IF arg.type \in ConvertibleTypes THEN arg.type ELSE "FLOAT16"

\* The kinds of arguments there are.  Tensors whose type is in no row of the table are left out.
ASSUME FallbackAssumption ==
    \A args \in ArgumentLists : \A i \in DOMAIN args :
        /\ args[i].kind \in {"tensor", "mm", "list", "ints", "scalar", "value"}
        /\ args[i].dims \in Seq(Nat) /\ args[i].transpose \in BOOLEAN
        /\ args[i].kind \in {"tensor", "list"} \/ (args[i].kind = "mm" /\ Len(args[i].dims) <= 1) =>
              args[i].type \in ConvertibleTypes \cup {"FLOAT16"}

Strides(dims) ==
    LET s[i \in DOMAIN dims] == IF i = Len(dims) THEN 1 ELSE dims[i + 1] * s[i + 1] IN s
SwapLastTwo(f) ==
    [i \in DOMAIN f |-> IF i = Len(f) THEN f[i - 1] ELSE IF i = Len(f) - 1 THEN f[i + 1] ELSE f[i]]

\* The tensor that is made: its type, shape and strides over the storage of the argument.
ConvertType(arg) == [type |-> GetConvertType(arg), shape |-> arg.dims, strides |-> Strides(arg.dims)]
ConvertMmType_ShapeOnly(arg) ==
    IF Len(arg.dims) <= 1 THEN ConvertType(arg)
    ELSE [type |-> arg.type, shape |-> IF arg.transpose THEN SwapLastTwo(arg.dims) ELSE arg.dims,
          strides |-> Strides(arg.dims)]
ConvertMmType(arg) ==
    IF Len(arg.dims) <= 1 THEN ConvertType(arg)
    ELSE IF arg.transpose
    THEN [type |-> arg.type, shape |-> SwapLastTwo(arg.dims), strides |-> SwapLastTwo(Strides(arg.dims))]
    ELSE [type |-> arg.type, shape |-> arg.dims, strides |-> Strides(arg.dims)]
View(arg) == IF arg.kind = "mm" THEN ConvertMmType(arg) ELSE ConvertType(arg)

-----------------------------------------------------------------------------
(* Handles of a thread's call: <<thread, argument, member>>; member 0 is    *)
(* the handle of the argument itself.                                      *)
Slots(t)     == DOMAIN call[t].args
Handle(t, i, k) == <<t, i, k>>
MadeFor(t, byCaller, lost) ==
    {Handle(t, i, 0) : i \in {s \in Slots(t) \ lost : /\ HasHandle(call[t].args[s])
                                                      /\ (call[t].args[s].kind \in {"mm", "scalar"}) = byCaller}}
      \cup IF byCaller THEN {} ELSE UNION {{Handle(t, i, k) : k \in Members(call[t].args[i])} : i \in Slots(t)}
Handles(t) == {h \in DOMAIN state : h[1] = t}
\* What slot i holds once all are converted.
Param(t, i) == call[t].params[i]

\* Handles new to the library.
WithNew(st, hs) == [h \in DOMAIN st \cup hs |-> IF h \in hs THEN "alive" ELSE st[h]]

\* Release and Collect know every kind of handle, and destroy none whose function is not found.
\* The library destroys the members of a list with it.
ReleasedKinds_NoLists == {"tensor", "mm", "ints", "scalar"}
ReleasedKinds == {"tensor", "mm", "ints", "scalar", "list"}
Released(t) ==
    {h \in Handles(t) : /\ Param(t, h[2]) = "handle"
                        /\ call[t].args[h[2]].kind \in ReleasedKinds
                        /\ Found(Destroy(call[t].args[h[2]].kind))}
Without(st, hs) ==
    [h \in DOMAIN st |-> IF h \notin hs THEN st[h] ELSE IF st[h] = "alive" THEN "gone" ELSE "again"]

-----------------------------------------------------------------------------
(* The process, then the calls.                                            *)
NoCall == [at |-> "idle", args |-> <<>>, params |-> <<>>, own |-> "none", alone |-> TRUE,
           called |-> FALSE, result |-> "none"]

FallbackInit ==
    /\ macro = "none"
    /\ symbols = <<>>
    /\ ret = "SUCCESS"
    /\ call = [t \in Threads |-> NoCall]
    /\ state = <<>>

Start ==
    /\ macro = "none"
    /\ macro' \in {"EXEC", "PREPARE"}
    /\ symbols' \in Deployments
    /\ UNCHANGED <<ret, call, state>>

AtRest == {"idle", "returned", "deleted", "crashed"}
InMacro(t) == call[t].at \notin AtRest \cup {"prepared", "launched"}
Goes(t, from, to) == call[t].at = from /\ call' = [call EXCEPT ![t].at = to]
Keep == UNCHANGED <<macro, symbols>>

\* Another call; what an earlier one left behind is not followed any further.
Begin(t) ==
    /\ macro # "none"
    /\ call[t].at \in {"idle", IF macro = "EXEC" THEN "returned" ELSE "deleted"}
    /\ \E args \in ArgumentLists :
         call' = [u \in Threads |->
                    IF u = t THEN [NoCall EXCEPT !.at = "begin", !.args = args,
                                                 !.alone = \A v \in Threads \ {t} : ~InMacro(v)]
                    ELSE [call[u] EXCEPT !.alone = @ /\ ~InMacro(u)]]
    /\ state' = [h \in DOMAIN state \ Handles(t) |-> state[h]]
    /\ UNCHANGED ret /\ Keep

CallerConverts(t) ==
    /\ Goes(t, "begin", "lookup")
    /\ state' = WithNew(state, MadeFor(t, TRUE, {}))
    /\ UNCHANGED ret /\ Keep

\* A failure leaves the macro at once; what has been converted is left as it is.
GivesUp(t, from) ==
    /\ call[t].at = from
    /\ call' = [call EXCEPT ![t].at = "read", ![t].own = "FAILED"]
    /\ ret' = "FAILED"
    /\ UNCHANGED state /\ Keep
NeededSymbols == {"ResetCacheThreadLocal", "GetWorkspaceSize", "api"}
LookupFails(t) == (\E s \in NeededSymbols : ~Found(s)) /\ GivesUp(t, "lookup")
Lookup(t) ==
    /\ \A s \in NeededSymbols : Found(s)
    /\ Goes(t, "lookup", "convert")
    /\ UNCHANGED <<ret, state>> /\ Keep

\* A create function may return null; the handle is then missing.
Convert(t) ==
    /\ call[t].at = "convert"
    /\ \A i \in Slots(t) : ~CallsNull(call[t].args[i])
    /\ \E lost \in {{}} \cup {{i} : i \in Slots(t)} :
         /\ state' = WithNew(state, MadeFor(t, FALSE, lost))
         /\ call' = [call EXCEPT
              ![t].at = "size",
              ![t].params = [i \in Slots(t) |->
                  IF call[t].args[i].kind = "value" THEN "value"
                  ELSE IF HasHandle(call[t].args[i]) /\ (i \notin lost \/ call[t].args[i].kind \in {"mm", "scalar"})
                  THEN "handle" ELSE "null"]]
    /\ UNCHANGED ret /\ Keep

\* A null address is called, or the memory for OpApiParams is null and is written to.
Crash(t) ==
    /\ \/ \E i \in Slots(t) : CallsNull(call[t].args[i])
       \/ macro = "PREPARE"
    /\ Goes(t, "convert", "crashed")
    /\ UNCHANGED <<ret, state>> /\ Keep

\* GetWorkspaceSize: a workspace is needed, or none.
Size(t) ==
    /\ \/ macro = "EXEC" /\ (Goes(t, "size", "malloc") \/ Goes(t, "size", "api"))
       \/ macro = "PREPARE" /\ Goes(t, "size", "set")
    /\ UNCHANGED <<ret, state>> /\ Keep
SizeFails(t) == GivesUp(t, "size")

Malloc(t) == Goes(t, "malloc", "api") /\ UNCHANGED <<ret, state>> /\ Keep
MallocFails_Silent(t) ==
    /\ call[t].at = "malloc"
    /\ call' = [call EXCEPT ![t].at = "read", ![t].own = "FAILED"]
    /\ UNCHANGED <<ret, state>> /\ Keep
MallocFails(t) == GivesUp(t, "malloc")

\* The api, then the handles whatever it returned.
CallApi(t) ==
    /\ call[t].at = "api"
    /\ \E status \in {"SUCCESS", "FAILED"} :
         call' = [call EXCEPT ![t].at = "release", ![t].own = status, ![t].called = TRUE]
    /\ UNCHANGED <<ret, state>> /\ Keep
Release(t) ==
    /\ Goes(t, "release", "read")
    /\ state' = Without(state, Released(t))
    /\ ret' = call[t].own
    /\ Keep

SetWorkspaceSizes(t) ==
    /\ call[t].at = "set"
    /\ \E status \in {"SUCCESS", "FAILED"} :
         /\ call' = [call EXCEPT ![t].at = "read", ![t].own = status]
         /\ ret' = status
    /\ UNCHANGED state /\ Keep

\* The value of the macro is the static variable, read last.
Return(t) ==
    /\ call[t].at = "read"
    /\ call' = [call EXCEPT ![t].result = ret,
                            ![t].at = IF macro = "EXEC" THEN "returned" ELSE "prepared"]
    /\ UNCHANGED <<ret, state>> /\ Keep

\* The framework runs what was prepared, if that succeeded, and deletes the parameters, whose
\* entries destroy the handles.
Launch(t) ==
    /\ call[t].at = "prepared" /\ call[t].result = "SUCCESS"
    /\ call' = [call EXCEPT ![t].at = "launched"]
    /\ UNCHANGED <<ret, state>> /\ Keep
DeleteParams(t) ==
    /\ \/ call[t].at = "launched"
       \/ call[t].at = "prepared" /\ call[t].result = "FAILED"
    /\ call' = [call EXCEPT ![t].at = "deleted"]
    /\ state' = IF call[t].params = <<>> THEN state ELSE Without(state, Released(t))
    /\ UNCHANGED ret /\ Keep

FallbackNext ==
    \/ Start
    \/ \E t \in Threads :
         \/ Begin(t) \/ CallerConverts(t) \/ LookupFails(t) \/ Lookup(t) \/ Convert(t) \/ Crash(t)
         \/ Size(t) \/ SizeFails(t) \/ Malloc(t) \/ MallocFails(t) \/ CallApi(t) \/ Release(t)
         \/ SetWorkspaceSizes(t) \/ Return(t) \/ Launch(t) \/ DeleteParams(t)
FallbackSpec == FallbackInit /\ [][FallbackNext]_fallbackVars

-----------------------------------------------------------------------------
\* The index of a place in memory laid out row by row.
RowMajor(dims, at) ==
    LET h[i \in 0 .. Len(dims)] == IF i = 0 THEN 0 ELSE h[i - 1] * dims[i] + at[i] IN h[Len(dims)]
Address(strides, at) ==
    LET a[i \in 0 .. Len(strides)] == IF i = 0 THEN 0 ELSE a[i - 1] + at[i] * strides[i] IN a[Len(strides)]
Places(dims) == {at \in [DOMAIN dims -> 0 .. 3] : \A i \in DOMAIN dims : at[i] < dims[i]}

DescribesArgument(arg, view) ==
    LET operand(at) == IF arg.kind = "mm" /\ arg.transpose /\ Len(arg.dims) > 1 THEN SwapLastTwo(at) ELSE at IN
    /\ view.type = arg.type
    /\ {operand(at) : at \in Places(view.shape)} = Places(arg.dims)
    /\ \A at \in Places(view.shape) : Address(view.strides, at) = RowMajor(arg.dims, operand(at))

\* When one of the operator's functions is called, every handle it is given is alive, and a tensor
\* among them shows the argument, element by element, transposed where the caller asked for that.
ApiSeesItsArguments ==
    \A t \in Threads : call[t].at \in {"size", "api", "prepared"} =>
        \A i \in DOMAIN call[t].params : Param(t, i) = "handle" =>
            /\ state[Handle(t, i, 0)] = "alive"
            /\ call[t].args[i].kind \in {"tensor", "mm", "list"} =>
                   DescribesArgument(call[t].args[i], View(call[t].args[i]))

\* No handle is destroyed twice, and of a call whose operator has run, or whose parameters the
\* framework has deleted, none is left: of EXEC this says nothing about calls that fail before
\* the operator runs, whose handles stay.  (Handles whose destroy function no library has, and
\* the members of a list that could not be made, stay too.)
HandlesReleasedOnce ==
    /\ \A h \in DOMAIN state : state[h] # "again"
    /\ \A t \in Threads :
         (call[t].at = "returned" /\ call[t].called) \/ (call[t].at = "deleted" /\ call[t].params # <<>>) =>
            \A h \in Handles(t) :
                Param(t, h[2]) = "handle" /\ Found(Destroy(call[t].args[h[2]].kind)) => state[h] = "gone"

\* The macro's static variable makes threads share outcomes, but a call that no other overlaps
\* returns what happened to it: no earlier call's outcome is left in the variable, and success
\* means that the operator has run, or is prepared.
OutcomeIsOwn ==
    \A t \in Threads : call[t].alone /\ call[t].result # "none" => call[t].result = call[t].own

\* fallback.h:117: "api %s can't find in any aclnn lib." is logged of a symbol that is in none.
FoundWhereInstalled ==
    \A lib \in DOMAIN symbols : \A s \in symbols[lib] : Found(s)
=============================================================================
