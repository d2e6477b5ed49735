------------------------------ MODULE MC_Start ------------------------------
(* What there is when the desktop browser has started: its session manager (WalletSession) and the
   page of its first tab (NewTabPage).  They do not act on each other, so a behaviour is about one
   of them, and the other stays as it starts. *)
EXTENDS WalletSession, NewTabPage

VARIABLE part     \* the part the behaviour is about

MCInit ==
    /\ Init /\ PageInit /\ part \in {"session", "tab"}
    /\ part = "session" => theme = [color |-> CHOOSE c \in Colors : TRUE, image |-> NoImage]
    /\ part = "tab" => cookies = [guid |-> NoGuid, sign |-> NoGuid, login |-> FALSE]

\* The session treats all errors of a launch alike, but for the one that comes before a fork.
FewErrors == \A i \in DOMAIN results' :
    results'[i].state \notin LaunchErrors \ {"DS_WALLET_RPC_TOKEN_ERROR",
                                             "DS_WALLET_PROCESS_STOPPED_WITH_ERROR"}

MCNext ==
    \/ part = "session" /\ Next /\ FewErrors /\ UNCHANGED <<part, pageVars>>
    \/ part = "tab"     /\ PageNext /\ UNCHANGED <<part, vars>>

\* Each part is as fair as its module says, when the behaviour is about it.
MCFairSpec ==
    /\ MCInit /\ [][MCNext]_<<part, vars, pageVars>>
    /\ WF_vars(part = "session" /\ ChainStep)
    /\ WF_vars(part = "session" /\ AddCookieChangeListener)
    /\ WF_vars(part = "session" /\ OnCookieChange)
    /\ WF_vars(part = "session" /\ PoolStep)
    /\ WF_vars(part = "session" /\ on_wallet_start)
    /\ WF_pageVars(part = "tab" /\ Due)

-----------------------------------------------------------------------------
(* The properties; the others are used as they are in the two modules. *)

\* The types of both parts (TypeOK of WalletSession, PageTypeOK of NewTabPage).
TypesOK == TypeOK /\ PageTypeOK

\* The page, when the behaviour is about it, comes to show the browser's own theme when its dialog
\* stays closed (updateBackgroundImagePath_, onThemeChange_, onload).
TabSettles == part = "tab" => PageSettles
=============================================================================
