----------------------------- MODULE MCSessions -----------------------------
(* An instance of Sessions for TLC.                                        *)
EXTENDS Sessions, TLC

CONSTANTS b1, t1, u1, u2

MCBrowsers == {b1}
MCClis == {t1}
MCUsers == {u1, u2}
UserSymmetry == Permutations(Users)
=============================================================================
