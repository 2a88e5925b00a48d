---------------------------- MODULE VectorPipes ----------------------------
(* How the prologues and epilogues of src/common/act run on a vector core.   *)
(* The scalar unit calls the operations of a kernel one after another; an    *)
(* operation changes the fields of its object at once and appends its        *)
(* instructions to three queues, which then run by themselves: MTE2 copies   *)
(* from global memory to the unified buffer (UB), V computes, MTE3 copies    *)
(* from UB to global memory.  Only the events that SetFlag and WaitFlag, or  *)
(* the buffers of a TQue, put between them order two queues.                 *)
(*                                                                           *)
(* A value is the sequence of the inputs it was computed from, an input is   *)
(* named by its place.  Reading a UB location nothing was written to yields  *)
(* the location's own name, which no output is expected to hold.             *)
EXTENDS Integers, Sequences, FiniteSets, Bags, SequencesExt

CONSTANT
  SubBlocks       \* GetSubBlockIdx(): the vector cores that share the work

VARIABLES
  job,            \* the kernel and its parameters, chosen once
  calls,          \* per core: the calls its scalar unit has still to make
  obj,            \* per core: the fields of the kernel's object
  queue,          \* per core and pipe: instructions issued and not yet run
  flag,           \* per core: the bag of events set and not yet waited for
  mem,            \* per core: what the unified buffer holds, by location
  gm              \* global memory: the values written to a place, in order

vars == <<job, calls, obj, queue, flag, mem, gm>>

Pipes == {"MTE2", "V", "MTE3"}

CeilDiv(a, b) == (a + b - 1) \div b
AlignUp(a, b) == CeilDiv(a, b) * b
Least(a, b) == IF a < b THEN a ELSE b

-----------------------------------------------------------------------------
\* An instruction waits for its events, computes each target from its sources,
\* and sets its events: a WaitFlag belongs to the instruction that follows it
\* in the pipe, a SetFlag to the one before it.
Instr(pipe, waits, sets, moves, stores) ==
  [pipe |-> pipe, waits |-> waits, sets |-> sets, moves |-> moves, stores |-> stores]

CopyIn(waits, sets, moves) == Instr("MTE2", waits, sets, moves, <<>>)
Compute(waits, sets, moves) == Instr("V", waits, sets, moves, <<>>)
CopyOut(waits, sets, stores) == Instr("MTE3", waits, sets, <<>>, stores)

\* The work of one of the cores: CeilDiv(singleM, GetTaskRation()) rows each,
\* the second core takes the rest.
HalfSingleM(m) == CeilDiv(m, Cardinality(SubBlocks))
SingleMInVec(c, m) == IF c = 1 THEN m - HalfSingleM(m) ELSE HalfSingleM(m)

\* The instructions of one pipe, in their order.
OfPipe(instrs, p) ==
  LET upTo[i \in 0..Len(instrs)] ==
        IF i = 0 THEN <<>>
        ELSE IF instrs[i].pipe = p THEN Append(upTo[i - 1], instrs[i]) ELSE upTo[i - 1]
  IN  upTo[Len(instrs)]

Value(c, l) == IF l \in DOMAIN mem[c] THEN mem[c][l] ELSE <<l>>

Computed(c, sources) == FlattenSeq([i \in 1..Len(sources) |-> Value(c, sources[i])])

-----------------------------------------------------------------------------
Boot(theCalls, fields, freeEvents) ==
  /\ calls = [c \in SubBlocks |-> theCalls]
  /\ obj = [c \in SubBlocks |-> fields]
  /\ queue = [c \in SubBlocks |-> [p \in Pipes |-> <<>>]]
  /\ flag = [c \in SubBlocks |-> SetToBag(freeEvents)]
  /\ mem = [c \in SubBlocks |-> <<>>]
  /\ gm = <<>>

\* The next call of core c's scalar unit is `op`; it leaves the object with the
\* given fields and issues the given instructions.
Calls(c, op) == calls[c] # <<>> /\ Head(calls[c]).op = op

Call(c, op, fields, instrs) ==
  /\ Calls(c, op)
  /\ calls' = [calls EXCEPT ![c] = Tail(@)]
  /\ obj' = [obj EXCEPT ![c] = fields]
  /\ queue' = [queue EXCEPT ![c] = [p \in Pipes |-> @[p] \o OfPipe(instrs, p)]]
  /\ UNCHANGED <<job, flag, mem, gm>>

\* External: before it makes the call for a block the caller waits for the cube
\* core's result, and the cube core does not overwrite the previous result in UB
\* before V is done with it.
ResultArrived(c) == queue[c]["V"] = <<>>

\* A pipe of core c runs its next instruction once its events are set.
Execute(c, p) ==
  /\ queue[c][p] # <<>>
  /\ LET i == Head(queue[c][p]) IN
       /\ \A e \in i.waits : BagIn(e, flag[c])
       /\ flag' = [flag EXCEPT ![c] = (@ (-) SetToBag(i.waits)) (+) SetToBag(i.sets)]
       /\ mem' = [mem EXCEPT ![c] = [l \in DOMAIN i.moves |-> Computed(c, i.moves[l])] @@ @]
       /\ gm' = [g \in DOMAIN i.stores |->
                   (IF g \in DOMAIN gm THEN gm[g] ELSE <<>>) \o <<Value(c, i.stores[g])>>] @@ gm
  /\ queue' = [queue EXCEPT ![c][p] = Tail(@)]
  /\ UNCHANGED <<job, calls, obj>>

Drained(c) == \A p \in Pipes : queue[c][p] = <<>>

Finished == \A c \in SubBlocks : calls[c] = <<>> /\ Drained(c)

Stop == Finished /\ UNCHANGED vars
=============================================================================
