------------------------------ MODULE MC_Lists ------------------------------
(* Pages that show a list the browser owns: the pages of the password settings (PasswordsSection,
   PasswordCheck) and the shortcuts of the new tab page (MostVisited).  They do not act on each
   other, so a behaviour is about one of them, and the other stays as it starts. *)
EXTENDS PasswordsSection, MostVisited

VARIABLE list        \* the list the behaviour is about

\* The pages that a behaviour is not about start in some state; which one does not matter.
PasswordsRest ==
    /\ page = "check" /\ insecure = {} /\ check.state = "IDLE" /\ ~check.checked
TilesRest == links = <<>> /\ ~custom /\ \A w \in Widths : columns <= w

\* A bound: the section either starts with exceptions or with an account.
SomethingAtRest ==
    \/ exceptions = {}
    \/ /\ account.syncStatus = [signedIn |-> FALSE, hasError |-> FALSE]
       /\ account.syncPrefs = [encryptAllData |-> FALSE, passwordsSynced |-> FALSE]
       /\ ~account.stored

MCInit ==
    /\ Init /\ SomethingAtRest /\ TilesInit /\ list \in {"passwords", "tiles"}
    /\ list = "passwords" => TilesRest
    /\ list = "tiles" => PasswordsRest

MCNext ==
    \/ list = "passwords" /\ Next      /\ UNCHANGED <<list, tilesVars>>
    \/ list = "tiles"     /\ TilesNext /\ UNCHANGED <<list, vars>>

MCSpec == MCInit /\ [][MCNext]_<<list, vars, tilesVars>>

-----------------------------------------------------------------------------

\* The types of all three pages (TypeOK of PasswordsSection and TilesTypeOK of MostVisited).
TypesOK == TypeOK /\ TilesTypeOK
=============================================================================
