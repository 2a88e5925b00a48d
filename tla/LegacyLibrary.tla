---------------------------- MODULE LegacyLibrary ----------------------------
(***************************************************************************)
(* LegacyCommonMgr and the functions forwarded through it: when one of the *)
(* repository's libraries is loaded, a static object looks for the legacy  *)
(* library of the same installation, whose place depends on which library  *)
(* this is and on how it was installed.  A file is the sequence of the     *)
(* names on its path.                                                      *)
(***************************************************************************)
EXTENDS Integers, Sequences

CONSTANTS Installations, \* this library's file, the files present, the libraries that can be
                         \* opened with the symbols of each
          Arch           \* GetCpuArch

VARIABLES installation, \* none of it is known before the library is loaded
          handle,       \* handle_: the file of the library opened, or Closed
          func          \* the static function pointer of each forwarder
legacyVars == <<installation, handle, func>>

OPHOST_BUILTIN_SO_NAME == "libophost_ras.so"
OPHOST_CUSTOM_SO_NAME  == "libcust_opmaster_rt2.0.so"
OPAPI_BUILTIN_SO_NAME  == "libopapi_ras.so"
OPAPI_CUSTOM_SO_NAME   == "libcust_opapi.so"
SoNames == {OPHOST_BUILTIN_SO_NAME, OPHOST_CUSTOM_SO_NAME, OPAPI_BUILTIN_SO_NAME, OPAPI_CUSTOM_SO_NAME}
LEGACY_SO_NAME == "libophost_comm_legacy.so"
OPHOST_PATH == <<"built-in", "op_impl", "ai_core", "tbe", "op_host", "lib", "linux">>

Closed == <<>>
Unset  == "unset"   \* a forwarder that has not been called yet
Null   == "null"

\* The directory n levels above a path; the root is above itself.
Up(path, n) == SubSeq(path, 1, IF Len(path) > n THEN Len(path) - n ELSE 0)
InOpp(opp)  == opp \o OPHOST_PATH \o <<Arch, LEGACY_SO_NAME>>

-----------------------------------------------------------------------------
(* Where the legacy library may be, seen from this library's file.          *)
CurrSoName(so) == so[Len(so)]
ParentPath(so) == Up(so, 1)

SoPathForBuiltin(so) ==
    IF CurrSoName(so) = OPHOST_BUILTIN_SO_NAME THEN {ParentPath(so) \o <<LEGACY_SO_NAME>>}
    ELSE IF CurrSoName(so) = OPAPI_BUILTIN_SO_NAME THEN {InOpp(Up(ParentPath(so), 2) \o <<"opp">>)}
    ELSE {}

\* opp/vendors/<name>/op_impl/ai_core/tbe/op_tiling/lib/linux/<arch>, or opp/vendors/<name>/op_api/lib.
SoPathForCustomOp_LevelShort(so) ==
    IF CurrSoName(so) = OPHOST_CUSTOM_SO_NAME THEN {InOpp(Up(ParentPath(so), 9) \o <<"opp">>)}
    ELSE IF CurrSoName(so) = OPAPI_CUSTOM_SO_NAME THEN {InOpp(Up(ParentPath(so), 5) \o <<"opp">>)}
    ELSE {}
SoPathForCustomOp(so) ==
    IF CurrSoName(so) = OPHOST_CUSTOM_SO_NAME THEN {InOpp(Up(ParentPath(so), 10) \o <<"opp">>)}
    ELSE IF CurrSoName(so) = OPAPI_CUSTOM_SO_NAME THEN {InOpp(Up(ParentPath(so), 5) \o <<"opp">>)}
    ELSE {}

\* An offline model's libraries are unpacked into directories side by side.
SoPathForOm(so, files) ==
    {f \in files : Len(f) = Len(so) /\ Up(f, 2) = Up(so, 2) /\ CurrSoName(f) = LEGACY_SO_NAME}

\* The first place with a file; of the side-by-side directories, whichever the system lists first.
LegacyCommonSoPath(so, files) ==
    IF CurrSoName(so) \notin SoNames THEN {}
    ELSE IF SoPathForBuiltin(so) \cap files # {} THEN SoPathForBuiltin(so)
    ELSE IF SoPathForCustomOp(so) \cap files # {} THEN SoPathForCustomOp(so)
    ELSE SoPathForOm(so, files)

-----------------------------------------------------------------------------
(* Where the packages put the libraries of an installation (cmake/variables.cmake, and             *)
(* OpsRasInfo.xml for the built-in op API): its root, vendors and machine may have any name.       *)
InstalledAt(root, so) ==
    \E a \in {so[i] : i \in DOMAIN so}, b \in {so[i] : i \in DOMAIN so} :
        \/ so = root \o <<"opp">> \o OPHOST_PATH \o <<Arch, OPHOST_BUILTIN_SO_NAME>>
        \/ so = root \o <<a, b, OPAPI_BUILTIN_SO_NAME>>
        \/ so = root \o <<"opp", "vendors", a, "op_impl", "ai_core", "tbe", "op_tiling", "lib", "linux", b,
                          OPHOST_CUSTOM_SO_NAME>>
        \/ so = root \o <<"opp", "vendors", a, "op_api", "lib", OPAPI_CUSTOM_SO_NAME>>

\* An offline model brings one legacy library, and is not unpacked into an installation.
ASSUME LegacyAssumption ==
    \A i \in Installations :
        /\ i.so \in Seq(STRING) /\ DOMAIN i.symbols \subseteq i.files
        /\ \/ i.own = {}
           \/ \E k \in 0 .. Len(i.so) : LET root == SubSeq(i.so, 1, k) IN
                  InstalledAt(root, i.so) /\ i.own = {InOpp(root \o <<"opp">>)}
           \/ /\ CurrSoName(i.so) \in SoNames
              /\ (SoPathForBuiltin(i.so) \cup SoPathForCustomOp(i.so)) \cap i.files = {}
              /\ \E f \in i.files : f # Closed /\ i.own = {f} /\ SoPathForOm(i.so, i.files) = {f}

Forwarders ==
    {"TilingPrepareForOpCache", "TilingParsePrepareForOpCache", "GenTiling",
     "CheckSupportConditionQbmm", "GenWqbmmTiling"}
SymbolName(f) ==
    CASE f = "TilingPrepareForOpCache"      -> "LegacyTilingPrepareForOpCache"
      [] f = "TilingParsePrepareForOpCache" -> "LegacyTilingParsePrepareForOpCache"
      [] f = "GenTiling"                    -> "LegacyGenTbeMatmulTiling"
      [] f = "CheckSupportConditionQbmm"    -> "LegacyCheckSupportConditionQbmm"
      [] f = "GenWqbmmTiling"               -> "LegacyGenWqbmmTiling"

NotLoaded == [so |-> <<>>, files |-> {}, symbols |-> <<>>, own |-> {}]
Unloaded  == [NotLoaded EXCEPT !.so = <<"unloaded">>]

LegacyInit ==
    /\ installation = NotLoaded
    /\ handle = Closed
    /\ func = [f \in Forwarders |-> Unset]

\* The static object's constructor.
Constructed ==
    /\ installation = NotLoaded
    /\ installation' \in Installations
    /\ LET found == LegacyCommonSoPath(installation'.so, installation'.files) IN
       handle' \in IF found = {} THEN {Closed}
                   ELSE {IF f \in DOMAIN installation'.symbols THEN f ELSE Closed : f \in found}
    /\ UNCHANGED func

GetFunc(s) ==
    IF handle = Closed \/ s \notin installation.symbols[handle] THEN Null ELSE s

\* A forwarder looks its function up at its first call only.
Forward(f) ==
    /\ installation \notin {NotLoaded, Unloaded}
    /\ func' = [func EXCEPT ![f] = IF @ = Unset THEN GetFunc(SymbolName(f)) ELSE @]
    /\ UNCHANGED <<installation, handle>>

\* The destructor, when this library is unloaded.
Destructed ==
    /\ installation \notin {NotLoaded, Unloaded}
    /\ handle' = Closed
    /\ installation' = Unloaded
    /\ UNCHANGED func

LegacyNext == Constructed \/ Destructed \/ \E f \in Forwarders : Forward(f)
LegacySpec == LegacyInit /\ [][LegacyNext]_legacyVars

-----------------------------------------------------------------------------
\* However this library was installed, it opens the legacy library of its own installation
\* ("own": of the same opp, or unpacked beside it from an offline model) if there is one that can
\* be opened, and every forwarder then reaches the function it stands for, if that library has it.
ForwardsToOwnLegacy ==
    LET opened == installation.own \cap DOMAIN installation.symbols IN
    /\ opened # {} => handle \in opened
    /\ \A f \in Forwarders :
          func[f] # Unset /\ opened # {} =>
              func[f] = IF SymbolName(f) \in installation.symbols[handle] THEN SymbolName(f) ELSE Null
=============================================================================
