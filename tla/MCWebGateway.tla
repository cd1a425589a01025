---------------------------- MODULE MCWebGateway ----------------------------
(* Instances of UserStore and WebGateway for TLC.                          *)
EXTENDS WebGateway, TLC

CONSTANTS p1, p2, u1, u2, r1, r2, r3, r4, l1, l2, q1

MasterAndWeb == {p1, p2}
MCUsers == {u1, u2}
MCRegs4 == {r1, r2, r3, r4}
MCLogins == {l1, l2}
MCRequests == {q1}

\* Two calls for one name, the others for the other name.
MCRegUser == [r \in Regs |-> IF r \in {r1, r2} THEN u1 ELSE u2]

\* The fourth Register call and the second fault happen only while nobody has
\* used the web server yet.
Unused == login = [l \in Logins |-> NoCall] /\ tokens = {} /\ vaultKeys = NoUsers
LargeStore == faults > 1 \/ result[r4] # "none" \/ \E p \in Procs : call[p] = r4
UsersSpec == WebInit /\ [][WebNext /\ (LargeStore' => Unused')]_allVars

LoginSymmetry == Permutations(MCLogins)
=============================================================================
