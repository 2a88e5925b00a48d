----------------------------- MODULE Obfuscation -----------------------------
(***************************************************************************)
(* The obfuscation operators, reliability/obfuscation_{setup,calculate}.   *)
(* The first function of an operator checks the arguments and fills an     *)
(* executor with tasks; only if it succeeds does the caller get the        *)
(* executor, and the second function runs the tasks.  Executor, tasks and  *)
(* the kernel on the AI CPU are external.                                  *)
(***************************************************************************)
EXTENDS Naturals, Sequences

CONSTANT Requests   \* the operator and the tensors it is given

ASSUME RequestsAssumption == \A q \in Requests : q.op \in {"Calculate", "CalculateV2", "Setup", "SetupV2"}

VARIABLES request,  \* the call examined, or Quiet
          step,     \* where it is
          tasks,    \* what the executor will do
          owner,    \* who holds the executor: "unique" (the function), "caller" or "none"
          status,   \* what the first function returned
          output,   \* what the output tensor holds
          dropped   \* a task that the launcher did not take
obfuscationVars == <<request, step, tasks, owner, status, output, dropped>>

Quiet     == [op |-> "none"]
Untouched == <<"untouched">>
Undefined == <<"undefined">>

IsCalculate(q) == q.op \in {"Calculate", "CalculateV2"}
DTYPE_SUPPORT_LIST == {"FLOAT", "FLOAT16", "INT8", "BF16"}

-----------------------------------------------------------------------------
(* Checks of the arguments: tensors are compared by their number of         *)
(* dimensions.                                                              *)
CalculateCheckParams(q) ==
    IF q.x.isNull \/ q.y.isNull THEN "PARAM_NULLPTR"
    ELSE IF q.x.type \notin DTYPE_SUPPORT_LIST \/ q.y.type # q.x.type \/ Len(q.x.dims) # Len(q.y.dims)
    THEN "PARAM_INVALID" ELSE "SUCCESS"
SetupCheckParams(q) ==
    IF q.y.isNull THEN "PARAM_NULLPTR"
    ELSE IF q.y.type # "INT32" \/ Len(q.y.dims) # 1 THEN "PARAM_INVALID" ELSE "SUCCESS"
CheckParams(q) == IF IsCalculate(q) THEN CalculateCheckParams(q) ELSE SetupCheckParams(q)

\* A dimension of size 0; an output is not looked at.
IsEmpty(q) == IsCalculate(q) /\ \E i \in DOMAIN q.x.dims : q.x.dims[i] = 0

-----------------------------------------------------------------------------
(* The kernel's task: its inputs and attributes in the order they are       *)
(* passed on in.  An argument is named after its parameter.                 *)
ObfuscationCalculate_ParamFirst(coefficient) == <<"fd", "param", "x", "cmd", coefficient>>
ObfuscationCalculate(coefficient) == <<"fd", "x", "param", "cmd", coefficient>>
ObfuscationSetup(coefficient) ==
    <<"fdToClose", "dataType", "hiddenSize", "tpRank", "modelObfSeedId", "dataObfSeedId",
      "cmd", "threadNum", coefficient>>

-----------------------------------------------------------------------------
(* The first functions: their steps and the coefficient they pass on.       *)
CalculateSteps == <<"create", "check", "contiguous", "launch", "cast", "copy", "release", "returned">>
SetupSteps     == <<"create", "check", "launch", "cast", "copy", "release", "returned">>
CalculateGetWorkspaceSize   == [steps |-> CalculateSteps, coefficient |-> "1.0"]
CalculateV2GetWorkspaceSize == [steps |-> CalculateSteps, coefficient |-> "obfCoefficient"]
SetupGetWorkspaceSize       == [steps |-> SetupSteps, coefficient |-> "1.0"]
SetupV2GetWorkspaceSize     == [steps |-> SetupSteps, coefficient |-> "obfCoefficient"]
GetWorkspaceSize(q) ==
    IF q.op = "Calculate" THEN CalculateGetWorkspaceSize
    ELSE IF q.op = "CalculateV2" THEN CalculateV2GetWorkspaceSize
    ELSE IF q.op = "Setup" THEN SetupGetWorkspaceSize ELSE SetupV2GetWorkspaceSize
Launched(q) ==
    IF IsCalculate(q) THEN ObfuscationCalculate(GetWorkspaceSize(q).coefficient)
    ELSE ObfuscationSetup(GetWorkspaceSize(q).coefficient)

-----------------------------------------------------------------------------
ObfuscationInit ==
    /\ request = Quiet
    /\ step = "start"
    /\ tasks = <<>>
    /\ owner = "none"
    /\ status = "none"
    /\ output = Untouched
    /\ dropped = FALSE

Ask ==
    /\ request = Quiet
    /\ request' \in Requests
    /\ step' = "create"
    /\ UNCHANGED <<tasks, owner, status, output, dropped>>

Same == UNCHANGED <<request, output>>
StepTo(from, to) == step = from /\ step' = to
StepOn(from) ==
    LET steps == GetWorkspaceSize(request).steps IN
    step = from /\ step' = steps[1 + CHOOSE i \in DOMAIN steps : steps[i] = from]

\* An early return: the executor goes with its unique pointer.
ReturnsError(from, error) ==
    /\ StepTo(from, "returned")
    /\ status' = error
    /\ owner' = "none"
    /\ UNCHANGED <<tasks, dropped>> /\ Same

CreateExecutor ==
    /\ StepOn("create")
    /\ owner' = "unique"
    /\ UNCHANGED <<tasks, status, dropped>> /\ Same
CreateFails == ReturnsError("create", "INNER_CREATE_EXECUTOR")

\* An empty input is an early success.
Check ==
    /\ step = "check" /\ CheckParams(request) = "SUCCESS"
    /\ IF IsEmpty(request) THEN StepTo("check", "release") ELSE StepOn("check")
    /\ UNCHANGED <<tasks, owner, status, dropped>> /\ Same
CheckFails ==
    /\ step = "check" /\ CheckParams(request) # "SUCCESS"
    /\ ReturnsError("check", CheckParams(request))

\* A copy of what is not contiguous, which nothing reads: the kernel is given x.
Contiguous ==
    /\ StepOn("contiguous")
    /\ tasks' = IF request.x.isContiguous THEN tasks ELSE Append(tasks, <<"copy">>)
    /\ UNCHANGED <<owner, status, dropped>> /\ Same
ContiguousFails == ReturnsError("contiguous", "INNER_NULLPTR")

\* The launcher may refuse the task; that is logged, and the function goes on.
AddToLauncher ==
    /\ StepOn("launch")
    /\ dropped' \in BOOLEAN
    /\ tasks' = IF dropped' THEN tasks ELSE Append(tasks, <<"kernel">> \o Launched(request))
    /\ UNCHANGED <<owner, status>> /\ Same

\* Cast to the type of the output, then the copy to its places.
Cast ==
    /\ StepOn("cast")
    /\ tasks' = Append(tasks, <<"cast">>)
    /\ UNCHANGED <<owner, status, dropped>> /\ Same
CastFails == ReturnsError("cast", "INNER_NULLPTR")
ViewCopy ==
    /\ StepOn("copy")
    /\ tasks' = Append(tasks, <<"viewCopy">>)
    /\ UNCHANGED <<owner, status, dropped>> /\ Same
ViewCopyFails == ReturnsError("copy", "INNER_NULLPTR")

ReleaseTo ==
    /\ StepOn("release")
    /\ status' = "SUCCESS"
    /\ owner' = "caller"
    /\ UNCHANGED <<tasks, dropped>> /\ Same

\* What is in the output once the tasks have run in order.
Written(ts) ==
    IF ts = <<>> THEN Untouched
    ELSE IF \E i \in DOMAIN ts : ts[i][1] = "kernel"
    THEN Tail(ts[CHOOSE i \in DOMAIN ts : ts[i][1] = "kernel"]) ELSE Undefined

\* The second function.
CommonOpExecutorRun ==
    /\ StepTo("returned", "ran")
    /\ owner = "caller"
    /\ output' = Written(tasks)
    /\ owner' = "none"
    /\ UNCHANGED <<request, tasks, status, dropped>>

ObfuscationNext ==
    \/ Ask \/ CreateExecutor \/ CreateFails \/ Check \/ CheckFails \/ Contiguous \/ ContiguousFails
    \/ AddToLauncher \/ Cast \/ CastFails \/ ViewCopy \/ ViewCopyFails \/ ReleaseTo \/ CommonOpExecutorRun
ObfuscationSpec == ObfuscationInit /\ [][ObfuscationNext]_obfuscationVars

-----------------------------------------------------------------------------
\* The parameters of the kernels, in their order.
KernelParameters(q) ==
    IF IsCalculate(q) THEN <<"fd", "x", "param", "cmd", "obfCoefficient">>
    ELSE <<"fdToClose", "dataType", "hiddenSize", "tpRank", "modelObfSeedId", "dataObfSeedId",
           "cmd", "threadNum", "obfCoefficient">>
\* The first versions have no coefficient and stand for 1.0.
ArgumentFor(q, name) ==
    IF name = "obfCoefficient" /\ q.op \in {"Calculate", "Setup"} THEN "1.0" ELSE name

\* What the documentation supports: x and y of one shape, x contiguous.
Supported(q) == IsCalculate(q) => q.x.dims = q.y.dims /\ q.x.isContiguous

\* An executor that the caller got for a supported request computes what was asked for: run, it
\* leaves in the output the kernel's result on the caller's own arguments, each in its place, and
\* for an empty input it touches nothing; after an error the caller has no executor, whatever the
\* tensors.  A task that the launcher refuses is reported to nobody; such calls are left out.
OutputAsRequested ==
    /\ status \notin {"none", "SUCCESS"} => owner = "none"
    /\ step = "ran" /\ Supported(request) /\ ~dropped =>
         output = IF IsEmpty(request) THEN Untouched
                  ELSE [i \in DOMAIN KernelParameters(request) |->
                           ArgumentFor(request, KernelParameters(request)[i])]

\* aclnnObfuscationCalculateV2.md: tensors x and y of different shapes are refused.
ShapesRefused == IsCalculate(request) /\ status = "SUCCESS" => request.x.dims = request.y.dims
=============================================================================
