------------------------------ MODULE MCLogin ------------------------------
(* Instances of LoginChain for TLC. *)
EXTENDS LoginChain
CONSTANTS u1, u2, c1, c2, c3, a1, a2, f1, f2, none
MCUsers == {u1, u2}
MCClients2 == {c1, c2}
MCClients3 == {c1, c2, c3}
MCOneAddr == {a1}
MCTwoAddrs == {a1, a2}
MCOneFES == {f1}
MCTwoFES == {f1, f2}
MCNoLimit == -1
MCSymmetry == Permutations(MCUsers) \cup Permutations(MCClients3)
              \cup Permutations(MCTwoAddrs) \cup Permutations(MCTwoFES)
MCSymmetry2 == Permutations(MCUsers) \cup Permutations(MCClients2)
              \cup Permutations(MCTwoAddrs) \cup Permutations(MCTwoFES)
=============================================================================
