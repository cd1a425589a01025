----------------------------- MODULE MCReadPath -----------------------------
(* An instance of ReadPath for TLC.                                        *)
EXTENDS ReadPath

CONSTANTS c1, c2, k1, o1, o2, g1, l1

MCChunks == {c1, c2}
MCKeys == {k1}
MCOps == {o1, o2}
MCDeletes == {o2}
MCGets == {g1}
MCLists == {l1}
SameKey == [o \in Ops |-> k1]
SameGetKey == [r \in Gets |-> k1]

\* The save and the delete one after the other, in either order; when both are
\* on the primary the Get, and after it the List.  Nothing more once the List
\* is over or the Get has failed.  The chunk that crashes is not the primary: what
\* that has, it still has when it is back, and a handler that dies there is as
\* one that goes no further.
Over(o) == cl[o] \in {"ok", "failed", "crashed"}
Begins(o) == cl[o] = "idle" /\ cl'[o] # "idle"
BeginsRead(r) == rd[r] = "idle" /\ rd'[r] # "idle"
InTurn ==
    /\ rd[g1] # "failed" /\ rd[l1] \in {"idle", "routed"}
    /\ Up(Primary)'
    /\ \A o, p \in Ops : Begins(o) /\ cl[p] # "idle" => Over(p)
    /\ BeginsRead(g1) => \A o \in Ops : Handled(o)
    /\ BeginsRead(l1) => rd[g1] = "done"
MCReadSpec == ReadInit /\ [][ReadNext /\ InTurn]_<<vars, readVars>>
=============================================================================
