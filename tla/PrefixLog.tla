----------------------------- MODULE PrefixLog -----------------------------
(***************************************************************************)
(* What a log that is written back as a whole promises when its writes can *)
(* fail: entries are added at the end, and what a failure leaves of the    *)
(* log is a beginning of it, without holes and in the same order.          *)
(***************************************************************************)
EXTENDS Integers, Sequences

CONSTANT Entries

VARIABLE log

Init == log = << >>

Add(e) == log' = Append(log, e)

Keep(n) == log' = SubSeq(log, 1, n)

Next == \/ \E e \in Entries : Add(e)
        \/ \E n \in 0..Len(log) : Keep(n)

Spec == Init /\ [][Next]_log
=============================================================================
