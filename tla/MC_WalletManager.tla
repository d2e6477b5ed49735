-------------------------- MODULE MC_WalletManager --------------------------
(* Symmetry sets for the safety run of WalletManager, the start of the liveness run. *)
EXTENDS WalletManager, TLC

Symmetry == Permutations(Calls) \cup Permutations(Addresses)

\* WalletIsFound supposes a login; which of the addresses is the first does not matter.
FoundInit == Init /\ cookies.login /\ wallet.address = CHOOSE a \in Addresses : TRUE
FoundSpec == FoundInit /\ [][Next]_vars /\ Fairness

=============================================================================
