------------------------------ MODULE HashItem -------------------------------
(***************************************************************************)
(* GenericHashItem and the CacheTilingContext in it: an item of the tiling *)
(* cache keeps a copy of a finished tiling and writes it back into the     *)
(* context of a later call.  Copies of an item share its two buffers       *)
(* (shared_ptr); the copy functions list every member by hand.             *)
(***************************************************************************)
EXTENDS Naturals, FiniteSets

CONSTANTS Items,    \* the item of the caller, the entry of the cache, the copy Get returns
          Tilings,  \* finished tilings: the input it was computed for, which stands for its
                    \* contents too; the size of its data; its number of workspaces
          MaxSize,  \* MAX_TILING_DADA_SIZE
          None      \* no tiling, no input, no buffer

ASSUME ItemAssumption ==
    /\ IsFiniteSet(Items)
    /\ Tilings \subseteq [input : Nat, size : Nat, workspaces : Nat]
    /\ MaxSize \in Nat
    /\ None \notin Nat /\ None \notin Tilings

\* Every item holds at most two buffers, and Save may allocate one before it drops another.
Buffers == 1 .. 2 * Cardinality(Items) + 1

VARIABLES item,   \* the members of each item
          heap,   \* the tiling whose bytes each buffer holds, None when they are not defined
          meant   \* the last successful SetContext behind an item, None after a failed one
vars == <<item, heap, meant>>

Empty == [head |-> None, data |-> None, size |-> 0, workspaces |-> 0, ws |-> None, input |-> None]

Init ==
    /\ item = [i \in Items |-> Empty]
    /\ heap = [b \in Buffers |-> None]
    /\ meant = [i \in Items |-> None]

\* shared_ptr: a buffer that no item holds any more is freed.
Held(its) == UNION {{its[i].data, its[i].ws} : i \in Items}
Reclaimed(h, its) == [b \in Buffers |-> IF b \in Held(its) THEN h[b] ELSE None]
NewBuffer(its) == CHOOSE b \in Buffers : b \notin Held(its)

-----------------------------------------------------------------------------
(* Save, step by step; each step may be the last.                          *)
HeadSaved(it, t) == [it EXCEPT !.head = t.input, !.workspaces = t.workspaces]
DataSaved(it, t, b) == [HeadSaved(it, t) EXCEPT !.data = b, !.size = t.size]
AllSaved(it, t, b, w) == [DataSaved(it, t, b) EXCEPT !.ws = IF t.workspaces > 0 THEN w ELSE @]

\* SetContext succeeds: data of a size that memcpy_s accepts, then the workspaces, if any.
SetContext(i, t) ==
    LET b == NewBuffer(item)
        w == NewBuffer([item EXCEPT ![i] = DataSaved(item[i], t, b)])
        its == [item EXCEPT ![i] = [AllSaved(item[i], t, b, w) EXCEPT !.input = t.input]]
    IN  /\ t.size \in 1 .. MaxSize
        /\ item' = its
        /\ heap' = Reclaimed([heap EXCEPT ![b] = t.input, ![w] = IF t.workspaces > 0 THEN t.input ELSE @],
                             its)
        /\ meant' = [meant EXCEPT ![i] = t]

\* SetContext fails at some step and leaves what the steps before it assigned.
SaveLeaves(i, it, h) ==
    /\ item' = [item EXCEPT ![i] = it]
    /\ heap' = Reclaimed(h, item')
    /\ meant' = [meant EXCEPT ![i] = None]

\* No tiling data in the context, or too much.
SaveFailsAtHead(i, t) == SaveLeaves(i, HeadSaved(item[i], t), heap)
\* No memory, or a size of zero, which memcpy_s refuses.
SaveFailsAtData(i, t) ==
    /\ t.size <= MaxSize
    /\ LET b == NewBuffer(item) IN
       \/ SaveLeaves(i, [HeadSaved(item[i], t) EXCEPT !.data = None], heap)
       \/ t.size = 0 /\ SaveLeaves(i, [HeadSaved(item[i], t) EXCEPT !.data = b], heap)
\* No memory for the workspaces, or none in the context.
SaveFailsAtWorkspaces(i, t) ==
    /\ t.size \in 1 .. MaxSize /\ t.workspaces > 0
    /\ LET b == NewBuffer(item)
           w == NewBuffer([item EXCEPT ![i] = DataSaved(item[i], t, b)])
       IN  \E v \in {None, w} :
               SaveLeaves(i, [DataSaved(item[i], t, b) EXCEPT !.ws = v], [heap EXCEPT ![b] = t.input])

\* The copy constructor and the assignment.
Assigned_WithoutWorkspaces(lhs, rhs) == [rhs EXCEPT !.ws = lhs.ws]
Assigned(lhs, rhs) == rhs
Copy(i, j) ==
    /\ i # j
    /\ item' = [item EXCEPT ![j] = Assigned(item[j], item[i])]
    /\ heap' = Reclaimed(heap, item')
    /\ meant' = [meant EXCEPT ![j] = meant[i]]

\* GetContext is const: what it leaves in a context with room for capacity bytes, None if it
\* fails. memcpy_s refuses a null source and a source longer than the room; a failed Load has
\* changed at most the context.
Loaded(i, capacity) ==
    LET it == item[i] IN
    IF it.data = None \/ it.size > capacity \/ (it.workspaces > 0 /\ it.ws = None) THEN None
    ELSE [head |-> it.head, data |-> heap[it.data], size |-> it.size,
          workspaces |-> it.workspaces, ws |-> IF it.workspaces > 0 THEN heap[it.ws] ELSE None]

Next ==
    \E i \in Items :
        \/ \E t \in Tilings : SetContext(i, t)
        \/ \E t \in Tilings : SaveFailsAtHead(i, t)
        \/ \E t \in Tilings : SaveFailsAtData(i, t)
        \/ \E t \in Tilings : SaveFailsAtWorkspaces(i, t)
        \/ \E j \in Items : Copy(i, j)
Spec == Init /\ [][Next]_vars

-----------------------------------------------------------------------------
\* What GetContext takes from an item is, in every part, the tiling that the last SetContext
\* behind the item was given, and its input is the one given with it: whatever was saved into
\* copies of the item in between, and from whichever of them it is loaded.
LoadsWhatWasMeant ==
    \A i \in Items : meant[i] # None =>
        LET t == meant[i] IN
        /\ item[i].input = t.input
        /\ Loaded(i, MaxSize) = [head |-> t.input, data |-> t.input, size |-> t.size,
                                workspaces |-> t.workspaces,
                                ws |-> IF t.workspaces > 0 THEN t.input ELSE None]
=============================================================================
