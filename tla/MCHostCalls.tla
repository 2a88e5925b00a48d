---------------------------- MODULE MCHostCalls -----------------------------
(***************************************************************************)
(* What the host does in one call, part by part: a cached tiling item, the *)
(* tiling templates of an operator, the operators executed through another *)
(* library, the legacy library, the obfuscation operators and the helpers  *)
(* of their interface; and the lock of the installers of one directory.    *)
(* The parts share no state: a behaviour is one of one part, the others    *)
(* stay as they were.                                                      *)
(***************************************************************************)
EXTENDS HashItem, TilingTemplates, OperatorFallback, LegacyLibrary, Obfuscation, LevelTwoShapes,
        InstallLock, TLC

HostVars == <<vars, templatesVars, fallbackVars, legacyVars, obfuscationVars, levelTwoVars, installVars>>

\* A part that has not begun.
NotBegun ==
    [items |-> Init, templates |-> TemplatesInit, fallback |-> FallbackInit, legacy |-> LegacyInit,
     obfuscation |-> ObfuscationInit, levelTwo |-> LevelTwoInit, install |-> InstallInit]
OthersIdle(part) == \A other \in DOMAIN NotBegun \ {part} : NotBegun[other]

HostInit ==
    Init /\ TemplatesInit /\ FallbackInit /\ LegacyInit /\ ObfuscationInit /\ LevelTwoInit /\ InstallInit

ItemStep ==
    /\ OthersIdle("items") /\ Next
    /\ UNCHANGED <<templatesVars, fallbackVars, legacyVars, obfuscationVars, levelTwoVars, installVars>>
TemplatesStep ==
    /\ OthersIdle("templates") /\ TemplatesNext
    /\ UNCHANGED <<vars, fallbackVars, legacyVars, obfuscationVars, levelTwoVars, installVars>>
FallbackStep ==
    /\ OthersIdle("fallback") /\ FallbackNext
    /\ UNCHANGED <<vars, templatesVars, legacyVars, obfuscationVars, levelTwoVars, installVars>>
LegacyStep ==
    /\ OthersIdle("legacy") /\ LegacyNext
    /\ UNCHANGED <<vars, templatesVars, fallbackVars, obfuscationVars, levelTwoVars, installVars>>
ObfuscationStep ==
    /\ OthersIdle("obfuscation") /\ ObfuscationNext
    /\ UNCHANGED <<vars, templatesVars, fallbackVars, legacyVars, levelTwoVars, installVars>>
LevelTwoStep ==
    /\ OthersIdle("levelTwo") /\ LevelTwoNext
    /\ UNCHANGED <<vars, templatesVars, fallbackVars, legacyVars, obfuscationVars, installVars>>
InstallStep ==
    /\ OthersIdle("install") /\ InstallNext
    /\ UNCHANGED <<vars, templatesVars, fallbackVars, legacyVars, obfuscationVars, levelTwoVars>>

HostNext ==
    \/ ItemStep \/ TemplatesStep \/ FallbackStep \/ LegacyStep \/ ObfuscationStep \/ LevelTwoStep
    \/ InstallStep
HostSpec == HostInit /\ [][HostNext]_HostVars

-----------------------------------------------------------------------------
\* A tiling without workspaces, one with, and one whose data is empty, which cannot be saved.
MCTilings ==
    {[input |-> 1, size |-> 1, workspaces |-> 0], [input |-> 2, size |-> 2, workspaces |-> 1],
     [input |-> 1, size |-> 0, workspaces |-> 0]}

\* One priority has no class, one has two.
CONSTANTS ClassA, ClassB, ClassC
MCRegistrations == {<<ClassA, 1>>, <<ClassB, 2>>, <<ClassC, 2>>, <<ClassC, 3>>}

\* Every kind of argument, absent ones, a transposed operand.
Arg(kind, dims, type, transpose, members) ==
    [kind |-> kind, dims |-> dims, type |-> type, transpose |-> transpose, members |-> members]
MCArgumentLists ==
    {<<Arg("tensor", <<2, 3, 2>>, "FLOAT", FALSE, 0), Arg("mm", <<2, 2, 3>>, "INT8", TRUE, 0)>>,
     <<Arg("list", <<2, 1>>, "BF16", FALSE, 2), Arg("ints", <<2>>, "INT64", FALSE, 0)>>,
     <<Arg("mm", <<3>>, "FLOAT16", TRUE, 0), Arg("ints", <<>>, "INT64", FALSE, 0),
       Arg("value", <<>>, "INT64", FALSE, 0), Arg("scalar", <<1>>, "FLOAT", FALSE, 0)>>}

HandleFunctions ==
    {"aclCreateTensor", "aclCreateTensorList", "aclCreateIntArray", "aclCreateScalar",
     "aclDestroyTensor", "aclDestroyTensorList", "aclDestroyIntArray", "aclDestroyScalar",
     "ResetCacheThreadLocal"}
OperatorFunctions == {"GetWorkspaceSize", "api"}
\* All in one library, a custom operator, the older libraries, and one without some functions.
MCDeployments ==
    {OpApiLib :> HandleFunctions \cup OperatorFunctions,
     OpApiLib :> HandleFunctions @@ CustLib :> OperatorFunctions,
     AclnnLibs[1] :> HandleFunctions @@ AclnnLibs[3] :> OperatorFunctions,
     AclnnLibs[1] :> (HandleFunctions \ {"aclCreateIntArray", "aclDestroyTensorList"}) \cup OperatorFunctions}

AllLegacy == {SymbolName(f) : f \in Forwarders}
Installed(so, files, own, symbolsOfAll) ==
    [so |-> so, files |-> files, own |-> own, symbols |-> [f \in files |-> symbolsOfAll]]
TheOpp == <<"latest", "opp">>
InTheOpp == InOpp(TheOpp)
BuiltinOpHost == SubSeq(InTheOpp, 1, Len(InTheOpp) - 1) \o <<OPHOST_BUILTIN_SO_NAME>>
BuiltinOpApi  == <<"latest", "arch-linux", "lib64", OPAPI_BUILTIN_SO_NAME>>
CustomOpHost  == TheOpp \o <<"vendors", "custom_ras", "op_impl", "ai_core", "tbe", "op_tiling", "lib",
                             "linux", Arch, OPHOST_CUSTOM_SO_NAME>>
CustomOpApi   == TheOpp \o <<"vendors", "custom_ras", "op_api", "lib", OPAPI_CUSTOM_SO_NAME>>
OfflineModel(model) == <<"tmp", model, "legacy", LEGACY_SO_NAME>>
OfflineOther == <<"tmp", "model", "ophost", OPHOST_CUSTOM_SO_NAME>>
OtherOpp     == InOpp(<<"previous", "opp">>)
MCInstallations ==
    {Installed(so, {InTheOpp, OtherOpp, OfflineModel("other")}, {InTheOpp}, s) :
         so \in {BuiltinOpHost, BuiltinOpApi, CustomOpHost, CustomOpApi},
         s \in {AllLegacy, AllLegacy \ {"LegacyGenWqbmmTiling"}}}
    \cup {Installed(OfflineOther, {OfflineModel("model"), OfflineModel("other")},
                    {OfflineModel("model")}, AllLegacy),
          Installed(BuiltinOpHost, {OtherOpp}, {InTheOpp}, AllLegacy),
          Installed(<<"latest", "lib64", "libanother.so">>, {InTheOpp}, {}, AllLegacy),
          [Installed(CustomOpApi, {InTheOpp}, {InTheOpp}, AllLegacy) EXCEPT !.symbols = <<>>]}

Tensor(isNull, type, dims, isContiguous) ==
    [isNull |-> isNull, type |-> type, dims |-> dims, isContiguous |-> isContiguous]
Inputs ==
    {Tensor(FALSE, t, d, c) : t \in {"FLOAT", "BF16", "INT64"}, d \in {<<2, 2>>, <<0, 2>>, <<3>>}, c \in BOOLEAN}
      \cup {Tensor(TRUE, "FLOAT", <<>>, TRUE)}
Outputs ==
    {Tensor(FALSE, t, d, TRUE) : t \in {"FLOAT", "INT32"}, d \in {<<2, 2>>, <<1>>}}
      \cup {Tensor(TRUE, "FLOAT", <<>>, TRUE)}
MCRequests ==
    {[op |-> o, x |-> x, y |-> y] : o \in {"Calculate", "CalculateV2"}, x \in Inputs, y \in Outputs}
      \cup {[op |-> o, y |-> y] : o \in {"Setup", "SetupV2"}, y \in Outputs}

\* Shapes with up to three dimensions, of which the last is more than the helpers support; a
\* reduction has at most two.
Shapes(sizes, lengths) == UNION {[1 .. n -> sizes] : n \in lengths}
Dims(n) == -n .. n - 1
SliceQuestions ==
    UNION {{[helper |-> "slice", self |-> self, slice |-> [dim |-> d, start |-> s, end |-> e]] :
               d \in Dims(Len(self)), s \in -4 .. 4, e \in -4 .. 4} : self \in {<<3>>, <<0>>, <<1, 3>>}}
ReduceQuestions ==
    UNION {{[helper |-> "reduce", self |-> self, dims |-> dims, keepDim |-> k] :
               dims \in Shapes(Dims(Len(self)), 0 .. 2), k \in BOOLEAN} : self \in Shapes({1, 2, 3}, {1, 2})}
      \cup {[helper |-> "reduce", self |-> <<>>, dims |-> dims, keepDim |-> k] :
               dims \in {<<>>, <<0>>}, k \in BOOLEAN}
MCTypes == {"FLOAT", "BF16", "INT64", "BOOL", "STRING"}
MCQuestions ==
    SliceQuestions \cup ReduceQuestions
    \cup {[helper |-> "dim", self |-> s, dim |-> d] : s \in Shapes({2}, 0 .. 3), d \in -4 .. 4}
    \cup {[helper |-> "avgPool", kernel |-> k, stride |-> s, padding |-> p] :
             k \in Shapes(0 .. 3, {2}), s \in {<<1, 2>>, <<3, 1>>, <<0, 1>>}, p \in Shapes(-1 .. 2, {1, 2})}
    \cup {[helper |-> "unpool", self |-> s, outputSize |-> o, stride |-> <<2, 2, 2>>, padding |-> <<0, 0, 0>>] :
             s \in {<<3>> \o t : t \in Shapes(0 .. 2, {3})} \cup {<<2, 3>> \o t : t \in Shapes({1, 2}, {3})},
             o \in Shapes(0 .. 2, {3})}
    \cup {[helper |-> "upsample", gradOut |-> g, outputSize |-> <<2, 2, 2>>, inputSize |-> i] :
             g \in Shapes({1}, {4, 5}), i \in Shapes({1}, {4, 5})}
    \cup {[helper |-> "types", self |-> a, out |-> b, third |-> c, soc |-> v,
           l1 |-> {"FLOAT", "BF16", "INT64"}, l2 |-> {"FLOAT", "INT64"}] :
             a \in MCTypes, b \in MCTypes, c \in {"FLOAT", "INT64"}, v \in Range(Socs)}
    \cup {[helper |-> "shapes", self |-> a, out |-> b, third |-> c] :
             a \in Shapes({1, 2}, 0 .. 3), b \in Shapes({1, 2}, 0 .. 2), c \in Shapes({1, 2}, 0 .. 2)}
    \cup {[helper |-> "long", self |-> s] : s \in Shapes({1, 3}, 0 .. 4)}
    \cup {[helper |-> "fill", self |-> s, fails |-> f] :
             s \in Shapes({0, 1, 2}, 0 .. 2), f \in {{}} \cup {{x} : x \in {"dims", "shape", "value", "fill", "copy"}}}
    \cup {[helper |-> "reduction", reduction |-> r] : r \in -1 .. 3}
    \cup {[helper |-> "present", args |-> a] : a \in Shapes({"null", "given"}, 2 .. 4)}

MCSymmetry == Permutations(Items) \cup Permutations(Threads)
=============================================================================
