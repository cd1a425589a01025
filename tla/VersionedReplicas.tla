------------------------- MODULE VersionedReplicas -------------------------
(***************************************************************************)
(* What the write path promises, without masters, messages or crashes: the *)
(* writes of a key are ordered by the versions they were given, a write    *)
(* counts once the main copy has taken it, other copies take only writes   *)
(* the main copy has taken, and no copy ever returns to an older version.  *)
(***************************************************************************)
EXTENDS Integers

CONSTANTS Copies, Main, Keys, Writes, KeyOf, None

VARIABLES version,   \* the version of each write, 0 before it has one
          accepted,  \* the writes the main copy has taken
          copy       \* copy[r][k]: the write copy r holds for key k

vars == <<version, accepted, copy>>

Init ==
    /\ version = [w \in Writes |-> 0]
    /\ accepted = {}
    /\ copy = [r \in Copies |-> [k \in Keys |-> None]]

Take(r, w) ==
    IF \/ copy[r][KeyOf[w]] = None
       \/ version[w] > version[copy[r][KeyOf[w]]]
    THEN copy' = [copy EXCEPT ![r][KeyOf[w]] = w]
    ELSE UNCHANGED copy

(* A write is given its version once and keeps it.                         *)
Number(w) ==
    /\ version[w] = 0
    /\ version'[w] \in Nat \ {0}
    /\ version' = [version EXCEPT ![w] = version'[w]]
    /\ UNCHANGED <<accepted, copy>>

Accept(w) ==
    /\ version[w] # 0
    /\ w \notin accepted
    /\ accepted' = accepted \cup {w}
    /\ Take(Main, w)
    /\ UNCHANGED version

Deliver(r, w) ==
    /\ w \in accepted
    /\ Take(r, w)
    /\ UNCHANGED <<version, accepted>>

Next == \E w \in Writes : \/ Number(w)
                          \/ Accept(w)
                          \/ \E r \in Copies : Deliver(r, w)

Spec == Init /\ [][Next]_vars
=============================================================================
