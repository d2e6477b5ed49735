-------------------------- MODULE PasswordsSection --------------------------
(***************************************************************************)
(* The section of saved passwords and exceptions                           *)
(* (resources/settings/autofill_page/passwords_section.js and .html), and what  *)
(* it and the page that checks passwords (PasswordCheck) make of the user's       *)
(* account.                                                                *)
(*                                                                         *)
(* An exception may be stored on the device, in the account or in both; the       *)
(* section shows one row for all copies.  Removals go to the browser, which keeps  *)
(* what it can undo and pushes the new list, so that rows are stale for a while.  *)
(* Sync status, sync preferences, accounts and the opt-in to account storage are   *)
(* asked for once and pushed when they change.                               *)
(*                                                                         *)
(* The answers to these questions and the events that follow are two ways, so an   *)
(* answer may be read after an event that is younger.                             *)
(*                                                                         *)
(* Abstractions.  The two pages do not act on each other, so a behaviour is       *)
(* about one of them.  Passwords are saved and import is offered, so the menu is  *)
(* there.  The element that gets the focus back is always the menu's button, and  *)
(* the stack is its height.  The browser and the lists' behaviors are external.   *)
(***************************************************************************)
EXTENDS PasswordCheck

CONSTANTS
    Sites,                   \* sites with an exception
    AccountStorageEnabled,   \* accountStorageFeatureEnabled_
    Undefined                \* a property that nothing was assigned to

ASSUME SectionAssumption ==
    AccountStorageEnabled \in BOOLEAN /\ Undefined \notin [signedIn : BOOLEAN, hasError : BOOLEAN]

VARIABLES
    page,                    \* the page the behaviour is about
    exceptions,              \* browser: copies of the exceptions
    undos,                   \* browser: what can be undone, the last removal last
    account, optedIn,        \* browser: sync, preferences and accounts; opt-in
    requests,                \* calls of the section under way, in order
    events,                  \* answers and events under way to it, in the order they were sent
    passwordExceptions,
    account_,                \* syncStatus_, syncPrefs_ and storedAccounts_ of both pages
    isOptedInForAccountStorage_,
    exportImportMenu,
    showPasswordsExportDialog_,
    sectionAnchors,          \* height of the section's activeDialogAnchorStack_
    outdated,                \* history: the answer about the opt-in was read after a later event
    grown,                   \* history: sites of which the browser stored a copy by itself
    whole                    \* history: the copies at the start

sectionVars == <<exceptions, undos, account, optedIn, requests, events, passwordExceptions,
                 account_, isOptedInForAccountStorage_, exportImportMenu,
                 showPasswordsExportDialog_, sectionAnchors, outdated, grown, whole>>
vars == <<page, sectionVars, checkVars>>

Stores  == {"device", "account"}
Copies  == Sites \X Stores
CopiesOf(list, site) == {copy \in list : copy[1] = site}

Sync     == [signedIn : BOOLEAN, hasError : BOOLEAN]
Prefs    == [encryptAllData : BOOLEAN, passwordsSynced : BOOLEAN]
Account  == [syncStatus : Sync, syncPrefs : Prefs, stored : BOOLEAN]

Event(kind, value)  == [kind |-> kind, value |-> value, answer |-> FALSE]
Answer(kind, value) == [kind |-> kind, value |-> value, answer |-> TRUE]
Request(kind, copies) == [kind |-> kind, copies |-> copies]

TypeOK ==
    /\ CheckTypeOK /\ page \in {"check", "section"}
    /\ exceptions \subseteq Copies /\ undos \in Seq(SUBSET Copies)
    /\ account \in Account /\ optedIn \in BOOLEAN
    /\ requests \in Seq([kind : {"remove"}, copies : SUBSET Copies]
                        \cup [kind : {"undo"}, copies : {{}}]
                        \cup [kind : {"optin", "optout"}, copies : {{}}])
    /\ events \in Seq([kind : {"exceptions"}, value : SUBSET Copies, answer : BOOLEAN]
                      \cup [kind : {"sync-status"}, value : Sync, answer : BOOLEAN]
                      \cup [kind : {"sync-prefs"}, value : Prefs, answer : BOOLEAN]
                      \cup [kind : {"stored-accounts", "opted"}, value : BOOLEAN, answer : BOOLEAN])
    /\ passwordExceptions \subseteq Copies
    /\ account_ \in [syncStatus : Sync \cup {Undefined}, syncPrefs : Prefs \cup {Undefined},
                     stored : BOOLEAN]
    /\ isOptedInForAccountStorage_ \in BOOLEAN
    /\ exportImportMenu \in BOOLEAN /\ showPasswordsExportDialog_ \in BOOLEAN
    /\ ~(exportImportMenu /\ showPasswordsExportDialog_)
    /\ sectionAnchors \in 0 .. MaxActs
    /\ outdated \in BOOLEAN /\ grown \subseteq Sites /\ whole \subseteq Copies

\* attached has asked for the lists, the opt-in and the account; the preferences come as an event.
Init ==
    /\ CheckInit /\ page \in {"check", "section"}
    /\ page = "section" => insecure = {} /\ check.state = "IDLE"
    /\ exceptions \in SUBSET Copies /\ whole = exceptions /\ undos = <<>>
    /\ account \in Account /\ optedIn \in BOOLEAN
    /\ page = "check" => /\ exceptions = {} /\ ~optedIn /\ ~account.stored
                         /\ account.syncStatus = [signedIn |-> FALSE, hasError |-> FALSE]
                         /\ account.syncPrefs = [encryptAllData |-> FALSE, passwordsSynced |-> FALSE]
    /\ requests = <<>>
    /\ events = <<Answer("exceptions", exceptions), Answer("opted", optedIn),
                  Answer("sync-status", account.syncStatus), Event("sync-prefs", account.syncPrefs),
                  Answer("stored-accounts", account.stored)>>
    /\ passwordExceptions = {} /\ isOptedInForAccountStorage_ = FALSE
    /\ account_ = [syncStatus |-> Undefined, syncPrefs |-> Undefined, stored |-> FALSE]
    /\ exportImportMenu = FALSE /\ showPasswordsExportDialog_ = FALSE /\ sectionAnchors = 0
    /\ outdated = FALSE /\ grown = {}

-----------------------------------------------------------------------------
(* What the two pages make of the account.                                 *)

SyncIs(signedIn) == account_.syncStatus # Undefined /\ account_.syncStatus.signedIn = signedIn
EncryptsAll      == account_.syncPrefs # Undefined /\ account_.syncPrefs.encryptAllData

\* Of the section: signed in without an error, or with an account but no sync.
computeSignedIn_ ==
    IF SyncIs(TRUE) THEN ~account_.syncStatus.hasError ELSE account_.stored

\* Mutant: without sync the user counts as signed out.
computeIsSignedOut__NoAccounts ==
    IF SyncIs(TRUE) THEN account_.syncStatus.hasError ELSE TRUE

\* Of the page that checks passwords.
computeIsSignedOut_ ==
    IF SyncIs(TRUE) THEN account_.syncStatus.hasError ELSE ~account_.stored

computeIsSyncingPasswords_ ==
    /\ SyncIs(TRUE) /\ ~account_.syncStatus.hasError
    /\ account_.syncPrefs # Undefined /\ account_.syncPrefs.passwordsSynced

computeCanUsePasswordCheckup_ == SyncIs(TRUE) /\ ~EncryptsAll

computeEligibleForAccountStorage_ ==
    AccountStorageEnabled /\ SyncIs(FALSE) /\ computeSignedIn_ /\ ~EncryptsAll

computeShouldShowStorageDetails_ ==
    computeEligibleForAccountStorage_ /\ isOptedInForAccountStorage_

computeHidePasswordsLink_ ==
    computeEligibleForAccountStorage_ \/ (SyncIs(TRUE) /\ EncryptsAll)

-----------------------------------------------------------------------------
(* The browser.                                                            *)

\* External: what one call removes is undone as one; a call that removes nothing is not undone.
Undoable(removed) == IF removed = {} THEN <<>> ELSE <<removed>>

RemovesExceptions ==
    /\ requests # <<>> /\ Head(requests).kind = "remove"
    /\ exceptions' = exceptions \ Head(requests).copies
    /\ undos' = undos \o Undoable(exceptions \cap Head(requests).copies)
    /\ events' = Append(events, Event("exceptions", exceptions'))
    /\ requests' = Tail(requests)
    /\ UNCHANGED <<account, optedIn, passwordExceptions, account_, isOptedInForAccountStorage_,
                   exportImportMenu, showPasswordsExportDialog_, sectionAnchors, outdated, grown, whole,
                   acts, changes>>

Undoes ==
    /\ requests # <<>> /\ Head(requests).kind = "undo"
    /\ exceptions' = IF undos = <<>> THEN exceptions ELSE exceptions \cup Last(undos)
    /\ undos' = IF undos = <<>> THEN <<>> ELSE Front(undos)
    /\ events' = Append(events, Event("exceptions", exceptions'))
    /\ requests' = Tail(requests)
    /\ UNCHANGED <<account, optedIn, passwordExceptions, account_, isOptedInForAccountStorage_,
                   exportImportMenu, showPasswordsExportDialog_, sectionAnchors, outdated, grown, whole,
                   acts, changes>>

\* The opt-in asks the user to sign in once more, who may refuse.
ChangesOptIn ==
    /\ requests # <<>> /\ Head(requests).kind \in {"optin", "optout"}
    /\ \/ optedIn' = (Head(requests).kind = "optin")
       \/ Head(requests).kind = "optin" /\ optedIn' = optedIn
    /\ events' = IF optedIn' = optedIn THEN events ELSE Append(events, Event("opted", optedIn'))
    /\ requests' = Tail(requests)
    /\ UNCHANGED <<exceptions, undos, account, passwordExceptions, account_,
                   isOptedInForAccountStorage_, exportImportMenu, showPasswordsExportDialog_,
                   sectionAnchors, outdated, grown, whole, acts, changes>>

\* The user stops asking for passwords on a site, or sync brings a copy of an exception.
ExceptionStored ==
    /\ changes < MaxChanges /\ changes' = changes + 1
    /\ \E copy \in Copies \ exceptions :
          exceptions' = exceptions \cup {copy} /\ grown' = grown \cup {copy[1]}
    /\ events' = Append(events, Event("exceptions", exceptions'))
    /\ UNCHANGED <<undos, account, optedIn, requests, passwordExceptions, account_,
                   isOptedInForAccountStorage_, exportImportMenu, showPasswordsExportDialog_,
                   sectionAnchors, outdated, whole, acts>>

\* The user signs in or out, sync meets an error, preferences change.
AccountChanges ==
    /\ changes < MaxChanges /\ changes' = changes + 1
    /\ \/ \E s \in Sync : /\ account' = [account EXCEPT !.syncStatus = s]
                          /\ events' = Append(events, Event("sync-status", s))
       \/ \E p \in Prefs : /\ account' = [account EXCEPT !.syncPrefs = p]
                           /\ events' = Append(events, Event("sync-prefs", p))
       \/ \E b \in BOOLEAN : /\ account' = [account EXCEPT !.stored = b]
                             /\ events' = Append(events, Event("stored-accounts", b))
    /\ UNCHANGED <<exceptions, undos, optedIn, requests, passwordExceptions, account_,
                   isOptedInForAccountStorage_, exportImportMenu, showPasswordsExportDialog_,
                   sectionAnchors, outdated, grown, whole, acts>>

-----------------------------------------------------------------------------
(* The section.                                                            *)

browserSide == <<exceptions, undos, account, optedIn, grown, whole, changes>>

\* Mutant: an opt-out is not heard.
setIsOptedInForAccountStorageListener_OnlyIn(optedIn_) == isOptedInForAccountStorage_ \/ optedIn_

setIsOptedInForAccountStorageListener(optedIn_) == optedIn_

\* The next answer or the next event; what is computed of it follows at once.
SectionReads ==
    \E i \in DOMAIN events :
       /\ \A j \in 1 .. i - 1 : events[j].answer # events[i].answer
       /\ LET event == events[i] IN
          \/ /\ event.kind = "exceptions" /\ passwordExceptions' = event.value
             /\ UNCHANGED <<account_, isOptedInForAccountStorage_>>
          \/ /\ event.kind = "opted"
             /\ isOptedInForAccountStorage_' = setIsOptedInForAccountStorageListener(event.value)
             /\ UNCHANGED <<account_, passwordExceptions>>
          \/ /\ \/ /\ event.kind = "sync-status"
                   /\ account_' = [account_ EXCEPT !.syncStatus = event.value]
                \/ /\ event.kind = "sync-prefs"
                   /\ account_' = [account_ EXCEPT !.syncPrefs = event.value]
                \/ /\ event.kind = "stored-accounts"
                   /\ account_' = [account_ EXCEPT !.stored = event.value]
             /\ UNCHANGED <<passwordExceptions, isOptedInForAccountStorage_>>
       /\ outdated' = (outdated \/ \E j \in 1 .. i - 1 : events[j].kind = "opted"
                                                       /\ events[i].kind = "opted")
       /\ events' = RemoveAt(events, i)
       /\ UNCHANGED <<browserSide, requests, exportImportMenu, showPasswordsExportDialog_,
                      sectionAnchors, acts>>

sectionShown == <<browserSide, events, outdated, passwordExceptions, account_,
                  isOptedInForAccountStorage_>>
menuVars     == <<exportImportMenu, showPasswordsExportDialog_, sectionAnchors>>

\* Mutant: the copy on the device is removed, or else the one in the account.
allExceptionIds_One(site) ==
    LET shown == CopiesOf(passwordExceptions, site)
    IN  IF <<site, "device">> \in shown THEN {<<site, "device">>} ELSE shown

\* The copies of the row.
allExceptionIds(site) == CopiesOf(passwordExceptions, site)

SectionFree == ~exportImportMenu /\ ~showPasswordsExportDialog_

onRemoveExceptionButtonTap_ ==
    /\ SectionFree /\ Act
    /\ \E site \in {copy[1] : copy \in passwordExceptions} :
          requests' = Append(requests, Request("remove", allExceptionIds(site)))
    /\ UNCHANGED <<sectionShown, menuVars>>

\* Ctrl+Z, unless the focus is in a text; menu and dialog do not keep it away.
onUndoKeyBinding_ ==
    /\ Act /\ requests' = Append(requests, Request("undo", {}))
    /\ UNCHANGED <<sectionShown, menuVars>>

\* onOptIn_ and onOptOut_, of which one button is there for users who may choose.
onOpt_ ==
    /\ SectionFree /\ computeEligibleForAccountStorage_ /\ Act
    /\ requests' = Append(requests, Request(IF isOptedInForAccountStorage_ THEN "optout"
                                                                           ELSE "optin", {}))
    /\ UNCHANGED <<sectionShown, menuVars>>

onImportExportMenuTap_ ==
    /\ SectionFree /\ Act
    /\ exportImportMenu' = TRUE /\ sectionAnchors' = sectionAnchors + 1
    /\ UNCHANGED <<sectionShown, requests, showPasswordsExportDialog_>>

\* The menu is dismissed, or import (external) is chosen: the anchor stays.
onImportTap_ ==
    /\ exportImportMenu /\ exportImportMenu' = FALSE
    /\ UNCHANGED <<sectionShown, requests, showPasswordsExportDialog_, sectionAnchors, acts>>

\* Mutant: the menu stays open below the dialog.
ExportMenuAfter_Open == TRUE

ExportMenuAfter == FALSE

onExportTap_ ==
    /\ exportImportMenu /\ exportImportMenu' = ExportMenuAfter
    /\ showPasswordsExportDialog_' = TRUE
    /\ UNCHANGED <<sectionShown, requests, sectionAnchors, acts>>

onPasswordsExportDialogClosed_ ==
    /\ showPasswordsExportDialog_ /\ showPasswordsExportDialog_' = FALSE
    /\ sectionAnchors' = IF sectionAnchors > 0 THEN sectionAnchors - 1 ELSE 0
    /\ UNCHANGED <<sectionShown, requests, exportImportMenu, acts>>

-----------------------------------------------------------------------------

SectionNext ==
    \/ RemovesExceptions \/ Undoes \/ ChangesOptIn \/ ExceptionStored \/ AccountChanges
    \/ SectionReads \/ onRemoveExceptionButtonTap_ \/ onUndoKeyBinding_ \/ onOpt_
    \/ onImportExportMenuTap_ \/ onImportTap_ \/ onExportTap_ \/ onPasswordsExportDialogClosed_

\* What of PasswordCheck the section does not count with.
checkOnly == <<browserVars, toBrowser, toPage, statusVars, startCheckAutomaticallySucceeded,
               startedAt, dialogVars, trapped>>

Next == \/ page = "check" /\ CheckNext /\ UNCHANGED <<page, sectionVars>>
        \/ page = "section" /\ SectionNext /\ UNCHANGED <<page, checkOnly>>

Spec == Init /\ [][Next]_vars

-----------------------------------------------------------------------------
(* Properties.                                                             *)

\* Removing and undoing never leave an exception on the device but not in the account, or the other
\* way round, though rows are stale and taps are repeated: what one tap removes comes back as one
\* (onRemoveExceptionButtonTap_, onUndoKeyBinding_).
CopiesStayTogether ==
    \A site \in Sites \ grown :
        CopiesOf(exceptions, site) \in {{}, CopiesOf(whole, site)}

\* The export dialog that closes finds an anchor, the one of the menu it was opened from
\* (onPasswordsExportDialogClosed_).
ExportFindsItsAnchor ==
    sectionAnchors >= (IF exportImportMenu THEN 1 ELSE 0)
                    + (IF showPasswordsExportDialog_ THEN 1 ELSE 0)

\* The section that has read all it was told of the opt-in shows the one the browser has (attached:
\* the answer to the first question and the events are two ways to the same property), unless it
\* read the answer after an event that was younger: nothing compares the two.
OptInIsCurrent ==
    (\A i \in DOMAIN events : events[i].kind # "opted")
        => isOptedInForAccountStorage_ = optedIn \/ outdated

\* The two pages, which compute it each by itself, agree on whether the user is signed in, and no
\* user is offered account storage who syncs passwords or can use the checkup of synced ones.
PagesAgree ==
    /\ computeSignedIn_ = ~computeIsSignedOut_
    /\ computeEligibleForAccountStorage_ =>
          ~computeIsSyncingPasswords_ /\ ~computeCanUsePasswordCheckup_ /\ computeHidePasswordsLink_
    /\ computeShouldShowStorageDetails_ => ~computeIsSignedOut_

\* A dialog of the password pages is for the password its menu was opened on, and finds its anchor
\* when it closes (onMoreActionsClick_, activeDialogAnchorStack_).
DialogsAreSound ==
    AnchorsForDialogs /\ NothingTrapped /\ DialogIsForTheChosen /\ ExportFindsItsAnchor

\* What the password pages think of the browser is current once they have read what they were told,
\* unless an older message was read last (startCheckAutomaticallySucceeded, status,
\* isOptedInForAccountStorage_, syncStatus_).
StatusIsCurrent ==
    AutoCheckIsCurrent /\ ShownIsCurrent /\ CountOnlyAfterCheck /\ OptInIsCurrent /\ PagesAgree

=============================================================================
