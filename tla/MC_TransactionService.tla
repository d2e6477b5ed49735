----------------------- MODULE MC_TransactionService -----------------------
(* TransactionService on a small instance. *)
EXTENDS TransactionService, TLC

Symmetry == Permutations(Addresses) \cup Permutations(Requests) \cup Permutations(Calls)

\* Whoever waits is served: a tab's request is answered, and the list does not load for ever.
WaitingEnds == RequestsAnswered /\ LoadingEnds
=============================================================================
