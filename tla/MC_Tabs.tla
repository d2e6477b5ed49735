------------------------------ MODULE MC_Tabs ------------------------------
(* Two pages of the browser's own, each in a tab: chrome://news (News) and the wallet debug page
   (DebugPage).  They do not act on each other, so a behaviour is about one of them, and the other
   stays as it starts.  On the news page the slider has to do with the stories, and the languages with
   the choices: a behaviour has several stories or several choices, not both. *)
EXTENDS News, DebugPage

VARIABLE tab      \* the tab the behaviour is about

OnNews == tab \in {"stories", "languages"}

MCInit ==
    /\ Init /\ DebugInit /\ tab \in {"stories", "languages", "debug"}
    /\ OnNews => is_loaded
    /\ tab = "debug" => cookie = CHOOSE c \in SavedCookies : TRUE

MCNext ==
    \/ tab = "stories"   /\ Next /\ choices' <= 1     /\ UNCHANGED <<tab, debugVars>>
    \/ tab = "languages" /\ Next /\ Len(slides') <= 1 /\ UNCHANGED <<tab, debugVars>>
    \/ tab = "debug" /\ DebugNext /\ UNCHANGED <<tab, vars>>

\* Each tab is as fair as its page; the debug page owes nothing before its button is pressed.
MCFairSpec ==
    /\ MCInit /\ [][MCNext]_<<tab, vars, debugVars>>
    /\ WF_vars(OnNews /\ Tick)
    /\ WF_vars(OnNews /\ on_image_slider)
    /\ WF_vars(OnNews /\ Answer)
    /\ WF_debugVars(tab = "debug" /\ PageStep)
    /\ WF_debugVars(tab = "debug" /\ BrowserStep)
    /\ WF_debugVars(tab = "debug" /\ LaunchEnds)

-----------------------------------------------------------------------------
(* The properties; the others are used as they are in the two modules. *)

\* The types of both pages (TypeOK of News, DebugTypeOK of DebugPage).
TypesOK == TypeOK /\ DebugTypeOK

\* Neither page stands still: no story is shown forever (on_image_slider), and the debug page's chain
\* of calls ends, however often the wallet restarts (environment).
PagesMoveOn == SliderMovesOn /\ ChainEnds
=============================================================================
