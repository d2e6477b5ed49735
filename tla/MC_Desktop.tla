----------------------------- MODULE MC_Desktop -----------------------------
(* Two parts of the desktop browser that do not act on each other: the merge of a reply into the
   database (TransactionMerge) and the launch of the wallet (WalletLaunch).  A behaviour is about
   one of them, and the other stays as it starts. *)
EXTENDS TransactionMerge, WalletLaunch

VARIABLE part     \* the part the behaviour is about

MCInit ==
    /\ Init /\ LaunchInit /\ part \in {"merge", "launch"}
    /\ part = "merge" => processes = {} /\ token_file = NoToken

\* Nothing here looks at an error that is told, so the two that may be told at any time need not be
\* after the last request.
FewErrors ==
    requests = MaxRequests =>
        \A i \in DOMAIN results' : results'[i].state \notin {"DS_WALLET_DIR_NOT_FOUND",
                                                         "DS_WALLET_PROCESS_STARTED_WITH_ERROR"}

MCNext ==
    \/ part = "merge"  /\ Next       /\ UNCHANGED <<part, launchVars>>
    \/ part = "launch" /\ LaunchNext /\ FewErrors /\ UNCHANGED <<part, vars>>

MCFairSpec == MCInit /\ [][MCNext]_<<part, vars, launchVars>> /\ LaunchFairness

-----------------------------------------------------------------------------
(* The properties; the others are used as they are in the two modules. *)

\* The types of both parts (TypeOK of TransactionMerge, LaunchTypeOK of WalletLaunch).
TypesOK == TypeOK /\ LaunchTypeOK
=============================================================================
