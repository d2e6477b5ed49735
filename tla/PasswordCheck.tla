--------------------------- MODULE PasswordCheck ---------------------------
(***************************************************************************)
(* The page that checks saved passwords                                    *)
(* (resources/settings/autofill_page/password_check.js).                   *)
(*                                                                         *)
(* The page asks the browser to start, stop and report a check of all           *)
(* passwords, once by itself when it is opened with start=true, and lists the   *)
(* insecure passwords the browser finds.  A row opens a menu, from which a      *)
(* password is shown, edited or removed.  Editing waits for the password itself, *)
(* for which the system may ask the user; meanwhile another menu may be opened. *)
(* The page keeps one active password for all of them, and a stack of the      *)
(* elements that get the focus back.                                        *)
(*                                                                         *)
(* Abstractions.  Of an element of the stack only its row is kept.  The browser's *)
(* answers reach the page in order, and so do its events, but an answer and an    *)
(* event may overtake each other; a password is answered when the user has proved *)
(* to be the user.  The browser, the dialogs and the behavior that keeps status    *)
(* and the lists, and asks for the status first, are external.  What links the      *)
(* disclaimer to the edit dialog is not in these sources and left out.           *)
(***************************************************************************)
EXTENDS Naturals, Sequences, SequencesExt, FiniteSetsExt

CONSTANTS
    Passwords, NoPassword,
    Weak,                \* passwords that are insecure for being weak; the others have leaked
    MaxChanges,          \* bound: changes of the passwords the browser makes by itself, and ends
                         \* of checks
    MaxActs              \* bound: clicks and navigations of the user

ASSUME PasswordsAssumption ==
    /\ NoPassword \notin Passwords /\ Weak \subseteq Passwords
    /\ MaxChanges \in Nat /\ MaxActs \in Nat

VARIABLES
    insecure,                    \* browser: the insecure passwords
    version,                     \* browser: changes of the saved passwords so far
    check,                       \* browser: state of the check, and whether one has ended
    toBrowser,                   \* calls under way, in order
    toPage,                      \* answers and events under way, in the order they were sent
    status, isInitialStatus,
    insecurePasswords,           \* leakedPasswords and weakPasswords
    startCheckAutomaticallySucceeded,
    activePassword_,
    activeListItem_,             \* the item of the row
    menu,                        \* moreActionsMenu is open
    dialogs,                     \* showPasswordEditDialog_, ...RemoveDialog_, ...EditDisclaimer_
    activeDialogAnchorStack_,
    edits,                       \* getPlaintextInsecurePassword calls under way
    changes, acts,
    chosen,                      \* history: the password of the row the menu was opened on
    disturbed,                   \* history: a password was answered since
    startedAt,                   \* history: version when the browser last agreed to start a check
    overtaken,                   \* history: what the page read an older message about last
    trapped                      \* history: the assertion of an anchor or of the button has failed

browserVars == <<insecure, version, check>>
shownVars   == <<status, isInitialStatus, insecurePasswords>>
statusVars  == <<shownVars, overtaken>>
dialogVars  == <<activePassword_, activeListItem_, menu, dialogs, activeDialogAnchorStack_, edits,
                 chosen, disturbed>>
checkVars   == <<browserVars, toBrowser, toPage, statusVars, startCheckAutomaticallySucceeded,
                 startedAt, dialogVars, trapped, changes, acts>>

CheckState == {"IDLE", "RUNNING", "CANCELED", "OFFLINE", "SIGNED_OUT", "NO_PASSWORDS",
               "QUOTA_LIMIT", "OTHER_ERROR"}
Status     == [state : CheckState, checked : BOOLEAN]
Dialogs    == {"edit", "remove", "disclaimer"}

Call(kind, password) == [kind |-> kind, password |-> password]
Calls  == [kind : {"start", "autostart", "stop", "status", "first"}, password : {NoPassword}]
     \cup [kind : {"remove"}, password : Passwords]
Messages == [kind : {"saved"}] \cup [kind : {"insecure"}, list : SUBSET Passwords]
       \cup [kind : {"status", "answer", "first"}, status : Status]
       \cup [kind : {"started"}, success : BOOLEAN]

\* The passwords change once for each time somebody wants it.
CheckTypeOK ==
    /\ insecure \subseteq Passwords /\ version \in 0 .. (changes + acts) /\ check \in Status
    /\ toBrowser \in Seq(Calls) /\ toPage \in Seq(Messages)
    /\ status \in Status /\ isInitialStatus \in BOOLEAN
    /\ insecurePasswords \subseteq Passwords
    /\ startCheckAutomaticallySucceeded \in BOOLEAN
    /\ activePassword_ \in Passwords \cup {NoPassword}
    /\ activeListItem_ \in Passwords \cup {NoPassword}
    /\ menu \in BOOLEAN /\ dialogs \subseteq Dialogs
    /\ activeDialogAnchorStack_ \in Seq(Passwords) /\ edits \in BoundedSeq(Passwords, MaxActs)
    /\ changes \in 0 .. MaxChanges /\ acts \in 0 .. MaxActs
    /\ chosen \in Passwords \cup {NoPassword} /\ disturbed \in BOOLEAN
    /\ startedAt \in 0 .. version /\ trapped \in BOOLEAN /\ overtaken \subseteq {"check", "status"}

\* The page has been attached and waits for the first status and list.
CheckInit ==
    /\ insecure \in SUBSET Passwords /\ version = 0
    /\ check \in [state : {"IDLE", "SIGNED_OUT", "NO_PASSWORDS"}, checked : {FALSE}]
    /\ toBrowser = <<Call("first", NoPassword)>>
    /\ toPage = <<[kind |-> "insecure", list |-> insecure]>>
    /\ status = [state |-> "IDLE", checked |-> FALSE] /\ isInitialStatus = TRUE
    /\ insecurePasswords = {} /\ startCheckAutomaticallySucceeded = FALSE
    /\ activePassword_ = NoPassword /\ activeListItem_ = NoPassword
    /\ menu = FALSE /\ dialogs = {} /\ activeDialogAnchorStack_ = <<>> /\ edits = <<>>
    /\ changes = 0 /\ acts = 0
    /\ chosen = NoPassword /\ disturbed = FALSE /\ startedAt = 0 /\ trapped = FALSE
    /\ overtaken = {}

Act == acts < MaxActs /\ acts' = acts + 1

\* Menu and dialogs are modal.
NothingOpen == ~menu /\ dialogs = {}
MenuOnTop   == menu /\ dialogs = {}

-----------------------------------------------------------------------------
(* What the page shows of a status.                                        *)

waitsForFirstCheck_     == ~status.checked
hasLeakedCredentials_   == insecurePasswords \ Weak # {}
hasInsecureCredentials_ == insecurePasswords # {}

\* Mutant: the button is there for every native state.
computeIsButtonHidden__OnlyInitial == isInitialStatus

computeIsButtonHidden_ ==
    \/ status.state = "IDLE" /\ isInitialStatus
    \/ status.state \in {"NO_PASSWORDS", "QUOTA_LIMIT"}

computeTitle_ ==
    CASE status.state = "IDLE" /\ waitsForFirstCheck_ -> "checkPasswordsDescription"
      [] status.state = "IDLE" /\ ~waitsForFirstCheck_ -> "checkedPasswords"
      [] status.state = "SIGNED_OUT"                  -> "checkedPasswords"
      [] status.state = "CANCELED"                    -> "checkPasswordsCanceled"
      [] status.state = "RUNNING"                     -> "checkPasswordsProgress"
      [] status.state \in {"OFFLINE", "NO_PASSWORDS", "QUOTA_LIMIT", "OTHER_ERROR"}
                                                      -> "checkPasswordsError"

hasInsecureCredentialsOrErrors_ ==
    hasInsecureCredentials_ \/ status.state \notin {"IDLE", "RUNNING", "SIGNED_OUT"}

\* Mutant: the count is also there before the first check.
showsPasswordsCount__Early ==
    hasInsecureCredentials_ \/ status.state \in {"IDLE", "SIGNED_OUT"}

showsPasswordsCount_ ==
    \/ hasInsecureCredentials_
    \/ status.state = "IDLE" /\ ~waitsForFirstCheck_
    \/ status.state = "SIGNED_OUT"

getStatusIconClass_ ==
    CASE hasLeakedCredentials_                                 -> "has-security-issues"
      [] ~hasInsecureCredentialsOrErrors_ /\ waitsForFirstCheck_ -> "hidden"
      [] ~hasInsecureCredentialsOrErrors_ /\ ~waitsForFirstCheck_ -> "no-security-issues"
      [] hasInsecureCredentialsOrErrors_ /\ ~hasLeakedCredentials_ -> ""

-----------------------------------------------------------------------------
(* The browser: calls it answers, changes it makes.                        *)

SavedEvent       == [kind |-> "saved"]
InsecureEvent(i) == [kind |-> "insecure", list |-> i]
StatusEvent(s)   == [kind |-> "status", status |-> s]

\* A check is started; the answer says whether one runs now.
BrowserStarts ==
    /\ toBrowser # <<>> /\ Head(toBrowser).kind \in {"start", "autostart"}
    /\ \E success \in BOOLEAN :
          LET started == [check EXCEPT !.state = "RUNNING"] IN
          /\ check' = IF success THEN started ELSE check
          /\ startedAt' = IF success THEN version ELSE startedAt
          /\ toPage' = toPage \o (IF success THEN <<StatusEvent(started)>> ELSE <<>>)
                              \o (IF Head(toBrowser).kind = "autostart"
                                  THEN <<[kind |-> "started", success |-> success]>> ELSE <<>>)
    /\ toBrowser' = Tail(toBrowser)
    /\ UNCHANGED <<insecure, version, statusVars, startCheckAutomaticallySucceeded, dialogVars,
                   trapped, changes, acts>>

BrowserStops ==
    /\ toBrowser # <<>> /\ Head(toBrowser).kind = "stop"
    /\ check' = IF check.state = "RUNNING" THEN [check EXCEPT !.state = "CANCELED"] ELSE check
    /\ toPage' = Append(toPage, StatusEvent(check'))
    /\ toBrowser' = Tail(toBrowser)
    /\ UNCHANGED <<insecure, version, statusVars, startCheckAutomaticallySucceeded, startedAt,
                   dialogVars, trapped, changes, acts>>

BrowserReports ==
    /\ toBrowser # <<>> /\ Head(toBrowser).kind \in {"status", "first"}
    /\ toPage' = Append(toPage, [kind   |-> IF Head(toBrowser).kind = "first" THEN "first" ELSE "answer",
                                 status |-> check])
    /\ toBrowser' = Tail(toBrowser)
    /\ UNCHANGED <<browserVars, statusVars, startCheckAutomaticallySucceeded, startedAt,
                   dialogVars, trapped, changes, acts>>

BrowserRemoves ==
    /\ toBrowser # <<>> /\ Head(toBrowser).kind = "remove"
    /\ insecure' = insecure \ {Head(toBrowser).password} /\ version' = version + 1
    /\ toPage' = toPage \o <<SavedEvent, InsecureEvent(insecure')>>
    /\ toBrowser' = Tail(toBrowser)
    /\ UNCHANGED <<check, statusVars, startCheckAutomaticallySucceeded, startedAt, dialogVars,
                   trapped, changes, acts>>

\* A password is saved or changed elsewhere.
PasswordsChange ==
    /\ changes < MaxChanges /\ changes' = changes + 1
    /\ version' = version + 1 /\ insecure' \in SUBSET Passwords
    /\ toPage' = toPage \o <<SavedEvent, InsecureEvent(insecure')>>
    /\ UNCHANGED <<check, toBrowser, statusVars, startCheckAutomaticallySucceeded, startedAt,
                   dialogVars, trapped, acts>>

CheckEnds ==
    /\ check.state = "RUNNING" /\ changes < MaxChanges /\ changes' = changes + 1
    /\ \E state \in CheckState \ {"RUNNING", "CANCELED"} :
          check' = [state |-> state, checked |-> check.checked \/ state = "IDLE"]
    /\ toPage' = Append(toPage, StatusEvent(check'))
    /\ UNCHANGED <<insecure, version, toBrowser, statusVars, startCheckAutomaticallySucceeded,
                   startedAt, dialogVars, trapped, acts>>

-----------------------------------------------------------------------------
(* The page: the check.                                                    *)

\* Mutant: the list of saved passwords is not listened to.
setSavedPasswordsListener_Deaf == startCheckAutomaticallySucceeded

\* The passwords have changed: the check may be started by itself again.
setSavedPasswordsListener == FALSE

\* The messages the answers are: to startBulkPasswordCheck, to the behavior, to currentRouteChanged.
IsAnswer(message) == message.kind \in {"started", "first", "answer"}
IsStatus(message) == message.kind \in {"status", "first", "answer"}

\* What an earlier message that is still to be read will be out of date about.
Overtakes(earlier, later) ==
    {about \in {"check", "status"} :
        IF about = "check" THEN earlier.kind = "started" /\ later.kind = "saved"
                           ELSE IsStatus(earlier) /\ IsStatus(later)}

\* The next answer or the next event.  The answer to currentRouteChanged sets the status only.
PageReads ==
    \E i \in DOMAIN toPage :
       /\ \A j \in 1 .. i - 1 : IsAnswer(toPage[j]) # IsAnswer(toPage[i])
       /\ LET message == toPage[i] IN
          \/ /\ message.kind = "saved"
             /\ startCheckAutomaticallySucceeded' = setSavedPasswordsListener
             /\ UNCHANGED shownVars
          \/ /\ message.kind = "started"
             /\ startCheckAutomaticallySucceeded' =
                   (startCheckAutomaticallySucceeded \/ message.success)
             /\ UNCHANGED shownVars
          \/ /\ IsStatus(message)
             /\ status' = message.status
             /\ isInitialStatus' = (isInitialStatus /\ message.kind = "answer")
             /\ UNCHANGED <<insecurePasswords, startCheckAutomaticallySucceeded>>
          \/ /\ message.kind = "insecure"
             /\ insecurePasswords' = message.list
             /\ UNCHANGED <<status, isInitialStatus, startCheckAutomaticallySucceeded>>
       /\ overtaken' = overtaken \cup UNION {Overtakes(toPage[j], toPage[i]) : j \in 1 .. i - 1}
       /\ toPage' = RemoveAt(toPage, i)
       /\ UNCHANGED <<browserVars, toBrowser, startedAt, dialogVars, trapped, changes, acts>>

\* The check is only started by itself until that has succeeded.
MayStartAutomatically(atCheck, start) == atCheck /\ start /\ ~startCheckAutomaticallySucceeded

\* A navigation to this page, with start=true or without, or to another.
currentRouteChanged ==
    /\ NothingOpen /\ Act
    /\ \E atCheck, start \in BOOLEAN :
          toBrowser' = toBrowser
                \o (IF MayStartAutomatically(atCheck, start)
                    THEN <<Call("autostart", NoPassword)>> ELSE <<>>)
                \o <<Call("status", NoPassword)>>
    /\ UNCHANGED <<browserVars, toPage, statusVars, startCheckAutomaticallySucceeded, startedAt,
                   dialogVars, trapped, changes>>

onPasswordCheckButtonClick_ ==
    /\ NothingOpen /\ ~computeIsButtonHidden_ /\ Act
    /\ toBrowser' =
          CASE status.state = "RUNNING" -> Append(toBrowser, Call("stop", NoPassword))
            [] status.state \in {"IDLE", "CANCELED", "OFFLINE", "OTHER_ERROR", "SIGNED_OUT"} ->
                  Append(toBrowser, Call("start", NoPassword))
            [] status.state \in {"NO_PASSWORDS", "QUOTA_LIMIT"} -> toBrowser
    /\ trapped' = (trapped \/ status.state \in {"NO_PASSWORDS", "QUOTA_LIMIT"})
    /\ UNCHANGED <<browserVars, toPage, statusVars, startCheckAutomaticallySucceeded, startedAt,
                   dialogVars, changes>>

-----------------------------------------------------------------------------
(* The page: menu and dialogs.                                             *)

elsewhereVars == <<browserVars, toPage, statusVars, startCheckAutomaticallySucceeded, startedAt,
                   changes>>

\* Mutant: the anchor of the menu is not remembered.
Pushed_Never(anchor) == activeDialogAnchorStack_

Pushed(anchor) == Append(activeDialogAnchorStack_, anchor)

\* assert(activeDialogAnchorStack_.pop())
AssertPop ==
    /\ activeDialogAnchorStack_' = IF activeDialogAnchorStack_ = <<>> THEN <<>>
                                   ELSE Front(activeDialogAnchorStack_)
    /\ trapped' = (trapped \/ activeDialogAnchorStack_ = <<>>)

\* Mutant: the active password is only set when there is none.
Activated_First(password) == IF activePassword_ = NoPassword THEN password ELSE activePassword_

Activated(password) == password

onMoreActionsClick_ ==
    /\ NothingOpen /\ Act
    /\ \E p \in insecurePasswords :
          /\ menu' = TRUE /\ activeDialogAnchorStack_' = Pushed(p)
          /\ activeListItem_' = p /\ activePassword_' = Activated(p) /\ chosen' = p
    /\ disturbed' = FALSE
    /\ UNCHANGED <<elsewhereVars, toBrowser, dialogs, edits, trapped>>

\* Escape or a click beside the menu: no handler of the page.
MenuDismissed ==
    /\ MenuOnTop /\ menu' = FALSE
    /\ UNCHANGED <<elsewhereVars, toBrowser, activePassword_, activeListItem_, dialogs,
                   activeDialogAnchorStack_, edits, chosen, disturbed, trapped, acts>>

\* With no active password the handler throws, and the menu stays.
onMenuShowPasswordClick_ ==
    /\ MenuOnTop /\ activePassword_ # NoPassword
    /\ menu' = FALSE /\ activePassword_' = NoPassword
    /\ activeDialogAnchorStack_' = Front(activeDialogAnchorStack_)
    /\ UNCHANGED <<elsewhereVars, toBrowser, activeListItem_, dialogs, edits, chosen, disturbed,
                   trapped, acts>>

\* The password is asked for; the menu is closed at once.  With no active password the assertion
\* fails first.
onEditPasswordClick_ ==
    /\ MenuOnTop /\ activePassword_ # NoPassword
    /\ edits' = Append(edits, activePassword_)
    /\ menu' = FALSE
    /\ UNCHANGED <<elsewhereVars, toBrowser, activePassword_, activeListItem_, dialogs,
                   activeDialogAnchorStack_, chosen, disturbed, trapped, acts>>

\* The password is answered, whatever the user does by now.
EditAnswered ==
    /\ edits # <<>>
    /\ activePassword_' = Head(edits) /\ dialogs' = dialogs \cup {"edit"}
    /\ edits' = Tail(edits) /\ disturbed' = TRUE
    /\ UNCHANGED <<elsewhereVars, toBrowser, activeListItem_, menu, activeDialogAnchorStack_,
                   chosen, trapped, acts>>

\* The answer is an error: what closes the edit dialog is run, open or not.
EditRefused ==
    /\ edits # <<>>
    /\ activePassword_' = NoPassword /\ dialogs' = dialogs \ {"edit"}
    /\ AssertPop
    /\ edits' = Tail(edits) /\ disturbed' = TRUE
    /\ UNCHANGED <<elsewhereVars, toBrowser, activeListItem_, menu, chosen, acts>>

onMenuRemovePasswordClick_ ==
    /\ MenuOnTop /\ menu' = FALSE /\ dialogs' = dialogs \cup {"remove"}
    /\ UNCHANGED <<elsewhereVars, toBrowser, activePassword_, activeListItem_,
                   activeDialogAnchorStack_, edits, chosen, disturbed, trapped, acts>>

onAlreadyChangedClick_ ==
    /\ NothingOpen /\ Act
    /\ \E p \in insecurePasswords :
          /\ activeDialogAnchorStack_' = Pushed(p)
          /\ activeListItem_' = p /\ activePassword_' = Activated(p) /\ chosen' = p
    /\ dialogs' = dialogs \cup {"disclaimer"} /\ disturbed' = FALSE
    /\ UNCHANGED <<elsewhereVars, toBrowser, menu, edits, trapped>>

\* Mutant: the dialog that is closed takes the anchor of the menu with it.
DialogPops_Twice ==
    /\ activeDialogAnchorStack_' = IF Len(activeDialogAnchorStack_) < 2 THEN <<>>
                                   ELSE Front(Front(activeDialogAnchorStack_))
    /\ trapped' = (trapped \/ activeDialogAnchorStack_ = <<>>)

DialogPops == AssertPop

\* Mutant: the dialog that removes stays open.
Closed_ButRemove(dialog) == dialogs \ ({dialog} \ {"remove"})

Closed(dialog) == dialogs \ {dialog}

\* onPasswordEditDialogClosed_, onPasswordRemoveDialogClosed_ and onEditDisclaimerClosed_; the
\* dialog on top is closed.  The one that removes may have removed the active password.
DialogClosed ==
    /\ \E dialog \in dialogs :
          /\ dialog = "edit" \/ "edit" \notin dialogs
          /\ dialogs' = Closed(dialog)
          /\ \/ UNCHANGED toBrowser
             \/ /\ dialog = "remove" /\ activePassword_ # NoPassword
                /\ toBrowser' = Append(toBrowser, Call("remove", activePassword_))
    /\ DialogPops
    /\ UNCHANGED <<elsewhereVars, activePassword_, activeListItem_, menu, edits, chosen, disturbed,
                   acts>>

-----------------------------------------------------------------------------

Answers == BrowserStarts \/ BrowserStops \/ BrowserReports \/ BrowserRemoves
Menu    == onMoreActionsClick_ \/ MenuDismissed \/ onMenuShowPasswordClick_ \/ onEditPasswordClick_
             \/ onMenuRemovePasswordClick_
Dialog  == EditAnswered \/ EditRefused \/ onAlreadyChangedClick_ \/ DialogClosed

CheckNext == \/ Answers \/ PasswordsChange \/ CheckEnds
             \/ PageReads \/ currentRouteChanged \/ onPasswordCheckButtonClick_
             \/ Menu \/ Dialog

CheckSpec == CheckInit /\ [][CheckNext]_checkVars

-----------------------------------------------------------------------------
(* Properties.                                                             *)

\* For the open menu, each open dialog and each password that is asked for there is an anchor, so
\* that no assert(activeDialogAnchorStack_.pop()) fails, also when answers come late, in the
\* middle of another menu, or are refused.  There is an anchor, not always the dialog's own; and a
\* menu that is dismissed leaves its anchor, so that the stack is not empty whenever no dialog is
\* open, as the comment on activeDialogAnchorStack_ says.
AnchorsForDialogs ==
    Len(activeDialogAnchorStack_) >= (IF menu THEN 1 ELSE 0) + Cardinality(dialogs) + Len(edits)

\* The button that is shown can be clicked in the state the status says (computeIsButtonHidden_,
\* onPasswordCheckButtonClick_), and every dialog finds an anchor: none of their assertions fails.
\* (That of onEditPasswordClick_ does, in a menu whose password a refused answer has taken away.)
NothingTrapped == ~trapped

\* When no password was answered since the menu was opened, a dialog is for the password of the
\* row the menu was opened on (onMoreActionsClick_, onMenuRemovePasswordClick_).
DialogIsForTheChosen ==
    (menu \/ dialogs # {}) /\ ~disturbed => activePassword_ = chosen /\ activePassword_ # NoPassword

\* The page that thinks it has started a check of the passwords has started one since they changed
\* last, or is about to hear of the change (startCheckAutomaticallySucceeded: otherwise opening the
\* page again starts no check of the new passwords).  It thinks so wrongly only when it heard of a
\* change before the answer to a start that was older.
AutoCheckIsCurrent ==
    startCheckAutomaticallySucceeded /\ (\A i \in DOMAIN toPage : toPage[i].kind # "saved")
        => startedAt = version \/ "check" \in overtaken

\* The page that has read all it was told of the status shows the status the browser has, through
\* starts and stops, ends of checks and navigations (status is assigned by events and by answers),
\* unless it read an older status last.
ShownIsCurrent ==
    ~isInitialStatus /\ (\A i \in DOMAIN toPage : ~IsStatus(toPage[i]))
        => status = check \/ "status" \in overtaken

\* Without insecure passwords a count (of none) is only shown below a title that says the
\* passwords were checked (showsPasswordsCount_, computeTitle_).
CountOnlyAfterCheck ==
    showsPasswordsCount_ /\ ~hasInsecureCredentials_ => computeTitle_ = "checkedPasswords"

\* "The password that the user is interacting with now" (activePassword_) is the one of "the
\* password_check_list_item that the user is interacting with now" (activeListItem_).
ActiveIsTheMenus == menu => activePassword_ = activeListItem_
=============================================================================
