--------------------------- MODULE TilingTemplates ---------------------------
(***************************************************************************)
(* The tiling templates of one operator type: static initialisers register *)
(* tiling classes under priorities (TilingCases::AddTiling), and           *)
(* DoTilingImpl runs TilingBaseClass::DoTiling of one class after another  *)
(* until one has an answer.  TilingRegistry and TilingRegistryNew have two *)
(* of these functions each: over every registered priority, and over a     *)
(* list of the caller's.  One operator type and SoC version is modelled.   *)
(***************************************************************************)
EXTENDS Integers, Sequences, SequencesExt, FiniteSets

CONSTANTS
    Priorities,     \* the priorities in use; a smaller one is tried first
    Registrations,  \* the <<class, priority>> pairs the static initialisers register
    MaxCalls,       \* bound on the calls of DoTilingImpl
    MaxListed,      \* bound on the length of a caller's list of priorities
    NoClass         \* no class

ASSUME TemplatesAssumption ==
    /\ Priorities \subseteq Int /\ IsFiniteSet(Priorities)
    /\ MaxCalls \in Nat /\ MaxListed \in Nat
    /\ \A r \in Registrations : r[2] \in Priorities /\ r[1] # NoClass

VARIABLES pending,  \* registrations whose initialiser has not run
          cases,    \* cases_: the class of each priority
          walk,     \* the running or last call
          key,      \* the class whose tiling key the context holds
          calls     \* calls begun
templatesVars == <<pending, cases, walk, key, calls>>

Classes == {r[1] : r \in Registrations}
Verdicts == {"SUCCESS", "FAILED", "PARAM_INVALID"}

\* The virtual functions DoTiling calls, in order.
Phases == <<"GetShapeAttrsInfo", "GetPlatformInfo", "IsCapable", "DoOpTiling", "DoLibApiTiling",
            "GetWorkspaceSize", "PostTiling">>

\* todo: priorities left to try; ran: what each class tried has answered.
Idle == [how |-> "none", todo |-> <<>>, phase |-> 0, ran |-> <<>>, status |-> "none"]
Running == walk.how # "none" /\ walk.status = "none"

TemplatesInit ==
    /\ pending = Registrations
    /\ cases = [p \in Priorities |-> NoClass]
    /\ walk = Idle
    /\ key = NoClass
    /\ calls = 0

\* AddTiling: the first registration of a priority stays.
AddTiling(r) ==
    /\ r \in pending
    /\ pending' = pending \ {r}
    /\ cases' = [cases EXCEPT ![r[2]] = IF @ = NoClass THEN r[1] ELSE @]
    /\ UNCHANGED <<walk, key, calls>>

Registered == {p \in Priorities : cases[p] # NoClass}

\* A loop over cases_ visits every registered priority once, in ascending order.
InOrder_LargestFirst(s) ==
    Range(s) = Registered /\ \A i, j \in DOMAIN s : i < j => s[i] > s[j]
InOrder(s) ==
    Range(s) = Registered /\ \A i, j \in DOMAIN s : i < j => s[i] < s[j]

\* DoTilingImpl is called once the library is loaded: every initialiser has run.
\* A fresh context has no tiling key.
BeginCall(how, priorities) ==
    /\ pending = {} /\ ~Running /\ calls < MaxCalls
    /\ walk' = [Idle EXCEPT !.how = how, !.todo = priorities]
    /\ key' = NoClass
    /\ calls' = calls + 1
    /\ UNCHANGED <<pending, cases>>

BeginAll ==
    \E how \in {"all", "allNew"}, s \in [1 .. Cardinality(Registered) -> Registered] :
        InOrder(s) /\ BeginCall(how, s)

\* TilingRegistry applies operator[] to each priority and calls what it finds: the caller
\* must list registered priorities.  TilingRegistryNew passes over the others.
ListsOf(S) == UNION {[1 .. n -> S] : n \in 0 .. MaxListed}
BeginListed    == \E ps \in ListsOf(Registered) : BeginCall("listed", ps)
BeginListedNew == \E ps \in ListsOf(Priorities) : BeginCall("listedNew", ps)

NotRegistered ==
    /\ Running /\ walk.todo # <<>> /\ Head(walk.todo) \notin Registered
    /\ walk' = [walk EXCEPT !.todo = Tail(@)]
    /\ UNCHANGED <<pending, cases, key, calls>>

\* What each DoTilingImpl does with a class's answer.
Stops_OnlyOnSuccess(how, verdict) == verdict = "SUCCESS"
Stops(how, verdict) ==
    IF how = "listedNew" THEN verdict = "SUCCESS" ELSE verdict # "PARAM_INVALID"

TakeAnswer(verdict) ==
    /\ walk' = [walk EXCEPT !.ran = Append(@, <<Head(walk.todo), verdict>>),
                            !.todo = Tail(@), !.phase = 0,
                            !.status = IF Stops(walk.how, verdict) THEN verdict ELSE @]

\* IsCapable says yes or no; the other phases return any status.
Possible(phase) == IF phase = "IsCapable" THEN {"SUCCESS", "PARAM_INVALID"} ELSE Verdicts

\* One phase of DoTiling of the class whose turn it is; the key is set after the last.
IsLast(n) == n = Len(Phases)
SetsKey_BeforePostTiling(n, verdict) == n = Len(Phases) - 1 /\ verdict = "SUCCESS"
SetsKey(n, verdict) == IsLast(n) /\ verdict = "SUCCESS"
RunPhase ==
    LET n == walk.phase + 1 IN
    /\ Running /\ walk.todo # <<>> /\ Head(walk.todo) \in Registered
    /\ \E verdict \in Possible(Phases[n]) :
         /\ \/ verdict = "SUCCESS" /\ ~IsLast(n) /\ walk' = [walk EXCEPT !.phase = n]
            \/ (verdict # "SUCCESS" \/ IsLast(n)) /\ TakeAnswer(verdict)
         /\ key' = IF SetsKey(n, verdict) THEN cases[Head(walk.todo)] ELSE key
    /\ UNCHANGED <<pending, cases, calls>>

\* A class that cannot be allocated is passed over.
NotAllocated ==
    /\ Running /\ walk.todo # <<>> /\ Head(walk.todo) \in Registered /\ walk.phase = 0
    /\ walk' = [walk EXCEPT !.ran = Append(@, <<Head(walk.todo), "NO_MEMORY">>), !.todo = Tail(@)]
    /\ UNCHANGED <<pending, cases, key, calls>>

\* TilingRegistryNew needs the SoC version first and may not get it.
NoSocVersion ==
    /\ Running /\ walk.ran = <<>> /\ walk.phase = 0 /\ walk.how \in {"allNew", "listedNew"}
    /\ walk' = [walk EXCEPT !.status = "FAILED"]
    /\ UNCHANGED <<pending, cases, key, calls>>

\* "no valid template is found"
RunOut ==
    /\ Running /\ walk.todo = <<>>
    /\ walk' = [walk EXCEPT !.status = "FAILED"]
    /\ UNCHANGED <<pending, cases, key, calls>>

TemplatesNext ==
    \/ \E r \in Registrations : AddTiling(r)
    \/ BeginAll \/ BeginListed \/ BeginListedNew
    \/ NotRegistered \/ RunPhase \/ NotAllocated \/ NoSocVersion \/ RunOut
TemplatesSpec == TemplatesInit /\ [][TemplatesNext]_templatesVars

-----------------------------------------------------------------------------
\* Types of the registry, the call and the key (documentation; no run spends time on it).
TemplatesTypeOK ==
    /\ pending \subseteq Registrations
    /\ cases \in [Priorities -> Classes \cup {NoClass}]
    /\ walk.status \in Verdicts \cup {"none"}
    /\ walk.phase \in 0 .. Len(Phases) - 1
    /\ key \in Classes \cup {NoClass}
    /\ calls \in 0 .. MaxCalls

Answers == {walk.ran[n][2] : n \in 1 .. Len(walk.ran)}
BeforeLast == {walk.ran[n][2] : n \in 1 .. Len(walk.ran) - 1}

\* The class chosen is the one of highest priority that supports the case: over the whole
\* registry, every smaller registered priority has answered that it does not, or could not be
\* allocated.
FirstCapableWins ==
    (walk.how \in {"all", "allNew"} /\ walk.status = "SUCCESS") =>
        LET chosen == Last(walk.ran)[1] IN
        /\ \A p \in Registered : p < chosen => \E n \in 1 .. Len(walk.ran) :
             walk.ran[n] \in {<<p, "PARAM_INVALID">>, <<p, "NO_MEMORY">>}
        /\ key = cases[chosen]

\* The context holds a tiling key exactly when the call succeeds, whatever the classes tried
\* before have done to it.
KeyIffSuccess == (walk.how # "none" /\ ~Running) => (key # NoClass <=> walk.status = "SUCCESS")

\* tiling_base.h: GRAPH_FAILED ends the whole tiling, no further class is tried.
FailureAborts == "FAILED" \notin BeforeLast
\* The same for the callers of the two functions that do end it.
FailureAbortsUnlessListedNew == walk.how # "listedNew" => FailureAborts
=============================================================================
