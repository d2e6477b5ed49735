----------------------------- MODULE ListsProofs -----------------------------
(***************************************************************************)
(* Proofs about the password pages and the shortcuts, for any passwords,       *)
(* sites and URLs, and any number of changes and clicks.                     *)
(*                                                                         *)
(* Dialogs (IInv): the argument counts anchors.  The stack is at least as high  *)
(* as there are things that will pop from it: the open menu, the open dialogs,   *)
(* and the passwords that are asked for, whose answer opens or closes a dialog.  *)
(* The menu hands its anchor on to what it opens; a menu that is dismissed      *)
(* leaves its anchor behind, so the stack may be higher, never lower.          *)
(*                                                                         *)
(* Copies (CopiesInv): whatever carries copies of exceptions, a row, a request, *)
(* an event or something to undo, carries all copies of a site or none.        *)
(*                                                                         *)
(* Status (OptInv, AutoInv, ShownInv): what a page will think after the messages *)
(* on their way is decided by the last of them that matters, as long as none that *)
(* matters has been overtaken.  Messages are read from the middle, so each step    *)
(* looks at what a sequence is without one of its elements (RemovedAt).          *)
(*                                                                         *)
(* Shortcuts (TilesInv): the browser's lists have no URL twice.  The last push  *)
(* on its way is the browser's list; without one the page shows it, or a request *)
(* on its way will bring a push (SettleInv).  Menu, dialog and drag exclude one  *)
(* another, so what a menu was opened for changes by a push or a late answer     *)
(* only.  Only the element that is dragged carries the mark a drop goes by.      *)
(*                                                                         *)
(* Types (BudgetInv): a menu, a dialog, a password that is asked for and a call *)
(* that removes one have each cost a click, which is spent once.              *)
(***************************************************************************)
EXTENDS MC_Lists, FiniteSetTheorems, SequenceTheorems,
        WellFoundedInduction, TLAPS

\* What the page lists are passwords.
ListsOK ==
    /\ insecure \subseteq Passwords /\ insecurePasswords \subseteq Passwords
    /\ toPage \in Seq(Messages) /\ check \in Status

\* Dialogs, anchors and passwords that are asked for.
DialogsOK ==
    /\ dialogs \subseteq Dialogs /\ edits \in Seq(Passwords)
    /\ activeDialogAnchorStack_ \in Seq(Passwords) /\ sectionAnchors \in Nat
    /\ activePassword_ \in Passwords \cup {NoPassword}

IInv == ListsOK /\ DialogsOK /\ DialogsAreSound

-----------------------------------------------------------------------------
(* Sequences and sets.                                                     *)

\* What is left of a sequence that is not empty, at either end.
LEMMA Shorter ==
    ASSUME NEW S, NEW s \in Seq(S), s # <<>>
    PROVE  /\ Len(s) \in Nat /\ Len(s) > 0 /\ Head(s) \in S
           /\ Tail(s) \in Seq(S) /\ Len(Tail(s)) = Len(s) - 1
           /\ Front(s) \in Seq(S) /\ Len(Front(s)) = Len(s) - 1
<1>1. Len(s) \in Nat /\ Len(s) > 0 /\ \A i \in 1 .. Len(s) - 1 : s[i] \in S
  BY EmptySeq, LenProperties, ElementOfSeq
<1>2. Front(s) \in Seq(S) /\ Len(Front(s)) = Len(s) - 1
  <2> DEFINE n == Len(s) - 1
  <2>1. n \in Nat /\ \A i \in 1 .. n : s[i] \in S
    BY <1>1
  <2>2. Front(s) = SubSeq(s, 1, n)
    BY DEF Front
  <2> HIDE DEF n
  <2>3. SubSeq(s, 1, n) \in Seq(S) /\ Len(SubSeq(s, 1, n)) = IF 1 <= n THEN n - 1 + 1 ELSE 0
    BY <2>1, SubSeqProperties
  <2>4. Front(s) \in Seq(S) /\ Len(Front(s)) = n
    BY <2>1, <2>2, <2>3
  <2> QED
    BY <2>4 DEF n
<1> QED
  BY <1>1, <1>2, HeadTailProperties

\* The height of a sequence, one more at its end, and what an empty one is.
LEMMA Heights ==
    ASSUME NEW S, NEW s \in Seq(S)
    PROVE  /\ Len(s) \in Nat /\ (Len(s) = 0 <=> s = <<>>)
           /\ \A e \in S : Append(s, e) \in Seq(S) /\ Len(Append(s, e)) = Len(s) + 1
<1>1. ASSUME NEW e \in S PROVE Append(s, e) \in Seq(S) /\ Len(Append(s, e)) = Len(s) + 1
  BY AppendProperties
<1>2. Len(s) \in Nat /\ (Len(s) = 0 <=> s = <<>>)
  BY EmptySeq, LenProperties
<1> QED
  BY <1>1, <1>2

\* t has the elements of s but its i-th, in their order.
LessOne(s, i, t) ==
    /\ \A n \in 1 .. Len(s) : n # i => \E l \in 1 .. Len(t) : t[l] = s[n]
    /\ \A k \in 1 .. Len(t) : \E m \in 1 .. Len(s) :
          /\ m # i /\ t[k] = s[m]
          /\ \A n \in m + 1 .. Len(s) : n # i => \E l \in k + 1 .. Len(t) : t[l] = s[n]

\* A sequence without its i-th element: the others, in their order.
LEMMA RemovedAt ==
    ASSUME NEW S, NEW s \in Seq(S), NEW i \in DOMAIN s, NEW t, t = RemoveAt(s, i)
    PROVE  /\ t \in Seq(S) /\ s[i] \in S /\ i \in 1 .. Len(s)
           /\ Len(s) \in Nat /\ Len(t) \in Nat /\ Len(s) = Len(t) + 1
           /\ LessOne(s, i, t)
<1> DEFINE a == SubSeq(s, 1, i - 1)
           b == SubSeq(s, i + 1, Len(s))
<1>1. Len(s) \in Nat /\ i \in 1 .. Len(s) /\ \A j \in 1 .. Len(s) : s[j] \in S
  BY LenProperties, ElementOfSeq
<1>2. a \in Seq(S) /\ Len(a) = i - 1 /\ \A j \in 1 .. i - 1 : a[j] = s[j]
  <2>1. \A j \in 1 .. i - 1 : s[j] \in S
    BY <1>1
  <2>2. /\ a \in Seq(S) /\ Len(a) = IF 1 <= i - 1 THEN i - 1 - 1 + 1 ELSE 0
        /\ \A j \in 1 .. i - 1 - 1 + 1 : a[j] = s[1 + j - 1]
    BY <1>1, <2>1, SubSeqProperties
  <2> QED
    BY <1>1, <2>2
<1>3. b \in Seq(S) /\ Len(b) = Len(s) - i /\ \A j \in 1 .. Len(s) - i : b[j] = s[i + j]
  <2>1. \A j \in i + 1 .. Len(s) : s[j] \in S
    BY <1>1
  <2>2. /\ b \in Seq(S) /\ Len(b) = IF i + 1 <= Len(s) THEN Len(s) - (i + 1) + 1 ELSE 0
        /\ \A j \in 1 .. Len(s) - (i + 1) + 1 : b[j] = s[i + 1 + j - 1]
    BY <1>1, <2>1, SubSeqProperties
  <2> QED
    BY <1>1, <2>2
<1>4. t = a \o b
  BY DEF RemoveAt
<1> HIDE DEF a, b
<1>5. /\ t \in Seq(S) /\ Len(t) = Len(s) - 1
      /\ \A j \in 1 .. Len(t) : t[j] = IF j <= i - 1 THEN a[j] ELSE b[j - (i - 1)]
  BY <1>1, <1>2, <1>3, <1>4, ConcatProperties
<1>6. \A j \in 1 .. Len(t) : (j < i => t[j] = s[j]) /\ (j >= i => t[j] = s[j + 1])
  <2>1. ASSUME NEW j \in 1 .. Len(t), j < i PROVE t[j] = s[j]
    BY <1>1, <1>2, <1>5, <2>1
  <2>2. ASSUME NEW j \in 1 .. Len(t), j >= i PROVE t[j] = s[j + 1]
    <3>1. t[j] = b[j - (i - 1)] /\ j - (i - 1) \in 1 .. Len(s) - i
      BY <1>1, <1>5, <2>2
    <3>2. b[j - (i - 1)] = s[i + (j - (i - 1))] /\ i + (j - (i - 1)) = j + 1
      BY <1>1, <1>3, <3>1
    <3> QED
      BY <3>1, <3>2
  <2> QED
    BY <2>1, <2>2
<1>7. ASSUME NEW n \in 1 .. Len(s), n # i
      PROVE  LET l == IF n < i THEN n ELSE n - 1 IN l \in 1 .. Len(t) /\ t[l] = s[n]
  <2>1. CASE n < i
    <3>1. n \in 1 .. Len(t)
      BY <1>1, <1>5, <2>1
    <3> QED
      BY <1>6, <2>1, <3>1
  <2>2. CASE n > i
    <3>1. n - 1 \in 1 .. Len(t) /\ n - 1 >= i /\ (n - 1) + 1 = n /\ ~(n < i)
      BY <1>1, <1>5, <2>2
    <3>2. t[n - 1] = s[(n - 1) + 1]
      BY <1>6, <3>1
    <3> QED
      BY <3>1, <3>2
  <2> QED
    BY <1>1, <1>7, <2>1, <2>2
<1>8. ASSUME NEW k \in 1 .. Len(t)
      PROVE  \E m \in 1 .. Len(s) :
                 /\ m # i /\ t[k] = s[m]
                 /\ \A n \in m + 1 .. Len(s) : n # i => \E l \in k + 1 .. Len(t) : t[l] = s[n]
  <2>1. CASE k < i
    <3>1. k \in 1 .. Len(s) /\ k # i /\ t[k] = s[k]
      BY <1>1, <1>5, <1>6, <2>1
    <3>2. ASSUME NEW n \in k + 1 .. Len(s), n # i PROVE \E l \in k + 1 .. Len(t) : t[l] = s[n]
      <4> DEFINE l == IF n < i THEN n ELSE n - 1
      <4>1. l \in 1 .. Len(t) /\ t[l] = s[n]
        BY <1>7, <3>2
      <4>2. l >= k + 1
        BY <1>1, <2>1, <3>2
      <4> QED
        BY <1>1, <1>5, <4>1, <4>2
    <3> QED
      BY <3>1, <3>2
  <2>2. CASE k >= i
    <3>1. k + 1 \in 1 .. Len(s) /\ k + 1 # i /\ t[k] = s[k + 1]
      BY <1>1, <1>5, <1>6, <2>2
    <3>2. ASSUME NEW n \in (k + 1) + 1 .. Len(s), n # i
          PROVE  \E l \in k + 1 .. Len(t) : t[l] = s[n]
      <4>1. n - 1 \in k + 1 .. Len(t) /\ n - 1 \in 1 .. Len(t) /\ n - 1 >= i /\ (n - 1) + 1 = n
        BY <1>1, <1>5, <2>2, <3>2
      <4>2. t[n - 1] = s[(n - 1) + 1]
        BY <1>6, <4>1
      <4> QED
        BY <4>1, <4>2
    <3> QED
      BY <3>1, <3>2
  <2> QED
    BY <1>1, <1>5, <2>1, <2>2
<1>9. \A n \in 1 .. Len(s) : n # i => \E l \in 1 .. Len(t) : t[l] = s[n]
  BY <1>7
<1>10. \A k \in 1 .. Len(t) : \E m \in 1 .. Len(s) :
          /\ m # i /\ t[k] = s[m]
          /\ \A n \in m + 1 .. Len(s) : n # i => \E l \in k + 1 .. Len(t) : t[l] = s[n]
  BY <1>8
<1>11. Len(t) \in Nat /\ Len(s) = Len(t) + 1 /\ s[i] \in S /\ t \in Seq(S)
  <2>1. Len(t) \in Nat /\ Len(s) = Len(t) + 1
    BY <1>1, <1>5
  <2> QED
    BY <1>1, <1>5, <2>1
<1> QED
  BY <1>1, <1>9, <1>10, <1>11 DEF LessOne

\* The number of open dialogs.
LEMMA DialogCount ==
    ASSUME NEW D \in SUBSET Dialogs
    PROVE  /\ Cardinality(D) \in Nat /\ Cardinality({}) = 0 /\ (D # {} => Cardinality(D) > 0)
           /\ \A d \in Dialogs : /\ Cardinality(D \cup {d}) <= Cardinality(D) + 1
                                 /\ d \in D => Cardinality(D \ {d}) = Cardinality(D) - 1
                                 /\ d \notin D => D \ {d} = D
<1>1. Dialogs = (({} \cup {"edit"}) \cup {"remove"}) \cup {"disclaimer"}
  BY DEF Dialogs
<1>2. IsFiniteSet(Dialogs)
  <2>1. IsFiniteSet({} \cup {"edit"})
    BY FS_EmptySet, FS_AddElement
  <2>2. IsFiniteSet(({} \cup {"edit"}) \cup {"remove"})
    BY <2>1, FS_AddElement
  <2> QED
    BY <1>1, <2>2, FS_AddElement
<1>3. IsFiniteSet(D) /\ Cardinality(D) \in Nat
  BY <1>2, FS_Subset, FS_CardinalityType
<1>4. ASSUME NEW d PROVE /\ Cardinality(D \cup {d}) <= Cardinality(D) + 1
                         /\ d \in D => Cardinality(D \ {d}) = Cardinality(D) - 1
  <2>1. Cardinality(D \cup {d}) = IF d \in D THEN Cardinality(D) ELSE Cardinality(D) + 1
    BY <1>3, FS_AddElement
  <2>2. Cardinality(D \ {d}) = IF d \in D THEN Cardinality(D) - 1 ELSE Cardinality(D)
    BY <1>3, FS_RemoveElement
  <2> QED
    BY <1>3, <2>1, <2>2
<1>5. Cardinality({}) = 0 /\ (D # {} => Cardinality(D) > 0)
  BY <1>3, FS_EmptySet
<1> QED
  BY <1>3, <1>4, <1>5

-----------------------------------------------------------------------------

LEMMA InitIInv == Init => IInv
<1> SUFFICES ASSUME Init PROVE IInv
  OBVIOUS
<1>1. [kind |-> "insecure", list |-> insecure] \in Messages
  BY DEF Init, CheckInit, Messages
<1>2. ListsOK
  <2>1. toPage \in Seq(Messages)
    BY <1>1 DEF Init, CheckInit
  <2>2. check \in Status
    BY DEF Init, CheckInit, Status, CheckState
  <2> QED
    BY <2>1, <2>2 DEF Init, CheckInit, ListsOK
<1>3. DialogsOK
  BY EmptySeq DEF Init, CheckInit, DialogsOK
<1>4. AnchorsForDialogs
  BY FS_EmptySet, EmptySeq DEF Init, CheckInit, AnchorsForDialogs
<1>5. NothingTrapped /\ DialogIsForTheChosen /\ ExportFindsItsAnchor
  BY DEF Init, CheckInit, NothingTrapped, DialogIsForTheChosen, ExportFindsItsAnchor
<1> QED
  BY <1>2, <1>3, <1>4, <1>5 DEF IInv, DialogsAreSound

\* Messages to the page, alone and in a row.
LEMMA MessagesToPage ==
    /\ \A i \in SUBSET Passwords : InsecureEvent(i) \in Messages
    /\ \A s \in Status : StatusEvent(s) \in Messages
    /\ \A s \in Status : \A k \in {"first", "answer"} : [kind |-> k, status |-> s] \in Messages
    /\ \A b \in BOOLEAN : [kind |-> "started", success |-> b] \in Messages
    /\ SavedEvent \in Messages
    /\ \A s, t \in Seq(Messages) : s \o t \in Seq(Messages)
BY ConcatProperties DEF InsecureEvent, StatusEvent, SavedEvent, Messages

\* What the browser sends keeps the page's lists lists of passwords.
LEMMA ListsStep == ListsOK /\ [CheckNext]_checkVars => ListsOK'
<1> SUFFICES ASSUME ListsOK, [CheckNext]_checkVars PROVE ListsOK'
  OBVIOUS
<1>0. toPage \in Seq(Messages) /\ check \in Status /\ insecure \subseteq Passwords
  BY DEF ListsOK
<1>1. CASE UNCHANGED <<insecure, check, toPage, insecurePasswords>>
  BY <1>1 DEF ListsOK
<1>2. CASE BrowserStarts
  <2>1. PICK success \in BOOLEAN :
          LET started == [check EXCEPT !.state = "RUNNING"] IN
          /\ check' = IF success THEN started ELSE check
          /\ toPage' = toPage \o (IF success THEN <<StatusEvent(started)>> ELSE <<>>)
                              \o (IF Head(toBrowser).kind = "autostart"
                                  THEN <<[kind |-> "started", success |-> success]>> ELSE <<>>)
    BY <1>2 DEF BrowserStarts
  <2>2. [check EXCEPT !.state = "RUNNING"] \in Status
    BY <1>0 DEF Status, CheckState
  <2> DEFINE first == IF success THEN <<StatusEvent([check EXCEPT !.state = "RUNNING"])>> ELSE <<>>
             second == IF Head(toBrowser).kind = "autostart"
                       THEN <<[kind |-> "started", success |-> success]>> ELSE <<>>
  <2>3. first \in Seq(Messages) /\ second \in Seq(Messages)
    BY <2>2, MessagesToPage
  <2>4. toPage' = (toPage \o first) \o second
    BY <2>1
  <2> HIDE DEF first, second
  <2>5. toPage' \in Seq(Messages)
    BY <1>0, <2>3, <2>4, MessagesToPage
  <2> QED
    BY <1>0, <1>2, <2>1, <2>2, <2>5 DEF BrowserStarts, ListsOK, statusVars, shownVars
<1>3. CASE BrowserStops
  <2>1. check' \in Status
    BY <1>0, <1>3 DEF BrowserStops, Status, CheckState
  <2>2. toPage' \in Seq(Messages)
    BY <1>0, <1>3, <2>1, MessagesToPage, AppendProperties DEF BrowserStops
  <2> QED
    BY <1>3, <2>1, <2>2 DEF BrowserStops, ListsOK, statusVars, shownVars
<1>4. CASE BrowserReports
  <2>1. PICK k \in {"first", "answer"} : toPage' = Append(toPage, [kind |-> k, status |-> check])
    BY <1>4 DEF BrowserReports
  <2>2. toPage' \in Seq(Messages)
    BY <1>0, <2>1, MessagesToPage, AppendProperties
  <2> QED
    BY <1>4, <2>2 DEF BrowserReports, ListsOK, browserVars, statusVars, shownVars
<1>5. CASE BrowserRemoves \/ PasswordsChange
  <2>1. insecure' \subseteq Passwords /\ toPage' = toPage \o <<SavedEvent, InsecureEvent(insecure')>>
        /\ UNCHANGED <<check, insecurePasswords>>
    BY <1>0, <1>5 DEF BrowserRemoves, PasswordsChange, statusVars, shownVars
  <2>2. <<SavedEvent, InsecureEvent(insecure')>> \in Seq(Messages)
    BY <2>1, MessagesToPage
  <2>3. toPage' \in Seq(Messages)
    BY <1>0, <2>1, <2>2, MessagesToPage
  <2> QED
    BY <2>1, <2>3 DEF ListsOK
<1>6. CASE CheckEnds
  <2>1. check' \in Status
    BY <1>0, <1>6 DEF CheckEnds, Status, CheckState
  <2>2. toPage' \in Seq(Messages)
    BY <1>0, <1>6, <2>1, MessagesToPage, AppendProperties DEF CheckEnds
  <2> QED
    BY <1>6, <2>1, <2>2 DEF CheckEnds, ListsOK, statusVars, shownVars
<1>7. CASE PageReads
  <2>1. PICK i \in DOMAIN toPage :
          /\ toPage' = RemoveAt(toPage, i) /\ UNCHANGED <<insecure, check>>
          /\ \/ UNCHANGED insecurePasswords
             \/ toPage[i].kind = "insecure" /\ insecurePasswords' = toPage[i].list
    BY <1>7 DEF PageReads, browserVars, shownVars
  <2>2. toPage[i] \in Messages /\ toPage' \in Seq(Messages)
    BY <1>0, <2>1, RemovedAt
  <2>3. toPage[i].kind = "insecure" => toPage[i].list \subseteq Passwords
    BY <2>2 DEF Messages
  <2>4. insecurePasswords' \subseteq Passwords
    BY <2>1, <2>3 DEF ListsOK
  <2> QED
    BY <2>1, <2>2, <2>4 DEF ListsOK
<1> QED
  BY <1>1, <1>2, <1>3, <1>4, <1>5, <1>6, <1>7
     DEF CheckNext, Answers, Menu, Dialog, currentRouteChanged, onPasswordCheckButtonClick_,
         onMoreActionsClick_, MenuDismissed, onMenuShowPasswordClick_, onEditPasswordClick_,
         onMenuRemovePasswordClick_, EditAnswered, EditRefused, onAlreadyChangedClick_,
         DialogClosed, elsewhereVars, browserVars, statusVars, shownVars, checkVars

-----------------------------------------------------------------------------
(* The page that checks passwords: anchors.                                *)

\* The parts of the invariant that dialogs are about.
CheckSound ==
    /\ dialogs \subseteq Dialogs /\ edits \in Seq(Passwords)
    /\ activeDialogAnchorStack_ \in Seq(Passwords)
    /\ activePassword_ \in Passwords \cup {NoPassword}
    /\ AnchorsForDialogs /\ NothingTrapped /\ DialogIsForTheChosen

\* Every action of the page keeps anchors enough, and an undisturbed dialog for the chosen password.
LEMMA CheckSoundStep ==
    ASSUME ListsOK, CheckSound, [CheckNext]_checkVars PROVE CheckSound'
<1> DEFINE stack == activeDialogAnchorStack_
           needed == (IF menu THEN 1 ELSE 0) + Cardinality(dialogs) + Len(edits)
<1>0. /\ stack \in Seq(Passwords) /\ edits \in Seq(Passwords) /\ dialogs \in SUBSET Dialogs
      /\ Len(stack) \in Nat /\ Len(edits) \in Nat /\ Cardinality(dialogs) \in Nat
      /\ activePassword_ \in Passwords \cup {NoPassword}
      /\ Len(stack) >= needed /\ NothingTrapped /\ DialogIsForTheChosen
  BY Heights, DialogCount DEF CheckSound, AnchorsForDialogs
<1>a. \A d \in Dialogs : /\ dialogs \cup {d} \in SUBSET Dialogs
                         /\ Cardinality(dialogs \cup {d}) \in Nat
                         /\ Cardinality(dialogs \cup {d}) <= Cardinality(dialogs) + 1
  <2>1. ASSUME NEW d \in Dialogs PROVE dialogs \cup {d} \in SUBSET Dialogs
    BY <1>0
  <2> QED
    BY <1>0, <2>1, DialogCount
<1>b. \A d \in Dialogs : /\ dialogs \ {d} \in SUBSET Dialogs
                         /\ Cardinality(dialogs \ {d}) \in Nat
                         /\ d \in dialogs => Cardinality(dialogs \ {d}) = Cardinality(dialogs) - 1
                         /\ d \notin dialogs => dialogs \ {d} = dialogs
  <2>1. ASSUME NEW d \in Dialogs PROVE dialogs \ {d} \in SUBSET Dialogs
    BY <1>0
  <2> QED
    BY <1>0, <2>1, DialogCount
<1>p. insecurePasswords \subseteq Passwords /\ NoPassword \notin Passwords
  BY PasswordsAssumption DEF ListsOK, PasswordsAssumption
<1>1. CASE UNCHANGED <<dialogVars, trapped>>
  BY <1>1 DEF dialogVars, CheckSound, AnchorsForDialogs, NothingTrapped, DialogIsForTheChosen
<1>2. CASE onPasswordCheckButtonClick_
  <2>1. status.state \notin {"NO_PASSWORDS", "QUOTA_LIMIT"}
    BY <1>2 DEF onPasswordCheckButtonClick_, computeIsButtonHidden_
  <2>2. trapped' = (trapped \/ status.state \in {"NO_PASSWORDS", "QUOTA_LIMIT"})
        /\ UNCHANGED dialogVars
    BY <1>2 DEF onPasswordCheckButtonClick_
  <2>3. NothingTrapped'
    BY <1>0, <2>1, <2>2 DEF NothingTrapped
  <2> QED
    BY <2>2, <2>3 DEF dialogVars, CheckSound, AnchorsForDialogs, NothingTrapped, DialogIsForTheChosen
<1>3. CASE onMoreActionsClick_
  <2>1. PICK p \in insecurePasswords :
          /\ menu' = TRUE /\ activeDialogAnchorStack_' = Pushed(p)
          /\ activePassword_' = Activated(p) /\ chosen' = p
    BY <1>3 DEF onMoreActionsClick_
  <2>2. stack' = Append(stack, p) /\ p \in Passwords /\ UNCHANGED <<dialogs, edits, trapped>>
        /\ ~menu /\ activePassword_' = p
    BY <1>3, <1>p, <2>1 DEF onMoreActionsClick_, Pushed, NothingOpen, Activated
  <2>3. stack' \in Seq(Passwords) /\ Len(stack') = Len(stack) + 1
    BY <1>0, <2>2, Heights
  <2>4. Len(stack') >= needed'
    BY <1>0, <2>1, <2>2, <2>3
  <2>5. DialogIsForTheChosen'
    BY <1>p, <2>1, <2>2 DEF DialogIsForTheChosen
  <2> QED
    BY <1>0, <2>2, <2>3, <2>4, <2>5 DEF CheckSound, AnchorsForDialogs, NothingTrapped
<1>4. CASE MenuDismissed \/ onMenuRemovePasswordClick_
  <2>1. /\ menu /\ ~menu' /\ UNCHANGED <<activePassword_, chosen, disturbed, edits, trapped>>
        /\ stack' = stack /\ (dialogs' = dialogs \/ dialogs' = dialogs \cup {"remove"})
    BY <1>4 DEF MenuDismissed, onMenuRemovePasswordClick_, MenuOnTop
  <2>2. "remove" \in Dialogs
    BY DEF Dialogs
  <2>3. dialogs' \in SUBSET Dialogs /\ Cardinality(dialogs') \in Nat
        /\ Cardinality(dialogs') <= Cardinality(dialogs) + 1
    <3>1. CASE dialogs' = dialogs
      BY <1>0, <3>1
    <3>2. CASE dialogs' = dialogs \cup {"remove"}
      BY <1>a, <2>2, <3>2
    <3> QED
      BY <2>1, <3>1, <3>2
  <2>4. Len(stack') >= needed'
    BY <1>0, <2>1, <2>3
  <2>5. DialogIsForTheChosen'
    BY <1>0, <2>1 DEF DialogIsForTheChosen
  <2> QED
    BY <1>0, <2>1, <2>3, <2>4, <2>5 DEF CheckSound, AnchorsForDialogs, NothingTrapped
<1>5. CASE onMenuShowPasswordClick_
  <2>1. /\ menu /\ dialogs = {} /\ ~menu' /\ stack' = Front(stack)
        /\ UNCHANGED <<dialogs, edits, trapped>> /\ activePassword_' = NoPassword
    BY <1>5 DEF onMenuShowPasswordClick_, MenuOnTop
  <2>2. stack # <<>>
    BY <1>0, <2>1, Heights
  <2>3. stack' \in Seq(Passwords) /\ Len(stack') = Len(stack) - 1
    BY <1>0, <2>1, <2>2, Shorter
  <2>4. Len(stack') >= needed'
    BY <1>0, <2>1, <2>3
  <2>5. DialogIsForTheChosen'
    BY <2>1 DEF DialogIsForTheChosen
  <2> QED
    BY <1>0, <2>1, <2>3, <2>4, <2>5 DEF CheckSound, AnchorsForDialogs, NothingTrapped
<1>6. CASE onEditPasswordClick_
  <2>1. /\ menu /\ dialogs = {} /\ ~menu' /\ edits' = Append(edits, activePassword_)
        /\ stack' = stack /\ UNCHANGED <<dialogs, activePassword_, trapped>>
        /\ activePassword_ # NoPassword
    BY <1>6 DEF onEditPasswordClick_, MenuOnTop
  <2>2. edits' \in Seq(Passwords) /\ Len(edits') = Len(edits) + 1
    BY <1>0, <2>1, Heights
  <2>3. Len(stack') >= needed'
    BY <1>0, <2>1, <2>2
  <2>4. DialogIsForTheChosen'
    BY <2>1 DEF DialogIsForTheChosen
  <2> QED
    BY <1>0, <2>1, <2>2, <2>3, <2>4 DEF CheckSound, AnchorsForDialogs, NothingTrapped
<1>7. CASE EditAnswered
  <2>1. /\ edits # <<>> /\ edits' = Tail(edits) /\ activePassword_' = Head(edits)
        /\ dialogs' = dialogs \cup {"edit"} /\ disturbed' = TRUE /\ stack' = stack
        /\ UNCHANGED <<menu, trapped>>
    BY <1>7 DEF EditAnswered
  <2>2. "edit" \in Dialogs
    BY DEF Dialogs
  <2>3. edits' \in Seq(Passwords) /\ Len(edits') = Len(edits) - 1 /\ activePassword_' \in Passwords
    BY <1>0, <2>1, Shorter
  <2>4. dialogs' \in SUBSET Dialogs /\ Cardinality(dialogs') \in Nat
        /\ Cardinality(dialogs') <= Cardinality(dialogs) + 1
    BY <1>a, <2>1, <2>2
  <2>5. Len(stack') >= needed'
    BY <1>0, <2>1, <2>3, <2>4
  <2>6. DialogIsForTheChosen'
    BY <2>1 DEF DialogIsForTheChosen
  <2> QED
    BY <1>0, <2>1, <2>3, <2>4, <2>5, <2>6 DEF CheckSound, AnchorsForDialogs, NothingTrapped
<1>8. CASE EditRefused
  <2>1. /\ edits # <<>> /\ edits' = Tail(edits) /\ activePassword_' = NoPassword
        /\ dialogs' = dialogs \ {"edit"} /\ disturbed' = TRUE /\ AssertPop /\ UNCHANGED menu
    BY <1>8 DEF EditRefused
  <2>2. "edit" \in Dialogs
    BY DEF Dialogs
  <2>3. edits' \in Seq(Passwords) /\ Len(edits') = Len(edits) - 1 /\ Len(edits) > 0
    BY <1>0, <2>1, Shorter
  <2>4. dialogs' \in SUBSET Dialogs /\ Cardinality(dialogs') \in Nat
        /\ Cardinality(dialogs') <= Cardinality(dialogs)
    <3>1. /\ dialogs' \in SUBSET Dialogs /\ Cardinality(dialogs') \in Nat
          /\ "edit" \in dialogs => Cardinality(dialogs') = Cardinality(dialogs) - 1
          /\ "edit" \notin dialogs => dialogs' = dialogs
      BY <1>b, <2>1, <2>2
    <3> QED
      BY <1>0, <3>1
  <2>5. stack # <<>>
    BY <1>0, <2>3, Heights
  <2>6. stack' = Front(stack) /\ ~trapped'
    BY <1>0, <2>1, <2>5 DEF AssertPop, NothingTrapped
  <2>7. stack' \in Seq(Passwords) /\ Len(stack') = Len(stack) - 1
    BY <1>0, <2>5, <2>6, Shorter
  <2>8. Len(stack') >= needed'
    BY <1>0, <2>1, <2>3, <2>4, <2>7
  <2>9. DialogIsForTheChosen'
    BY <2>1 DEF DialogIsForTheChosen
  <2> QED
    BY <1>0, <2>1, <2>3, <2>4, <2>6, <2>7, <2>8, <2>9
       DEF CheckSound, AnchorsForDialogs, NothingTrapped
<1>9. CASE onAlreadyChangedClick_
  <2>1. PICK p \in insecurePasswords :
          activeDialogAnchorStack_' = Pushed(p) /\ activePassword_' = Activated(p) /\ chosen' = p
    BY <1>9 DEF onAlreadyChangedClick_
  <2>2. /\ stack' = Append(stack, p) /\ p \in Passwords /\ activePassword_' = p
        /\ dialogs' = dialogs \cup {"disclaimer"} /\ UNCHANGED <<menu, edits, trapped>>
    BY <1>9, <1>p, <2>1 DEF onAlreadyChangedClick_, Pushed, Activated
  <2>3. "disclaimer" \in Dialogs
    BY DEF Dialogs
  <2>4. stack' \in Seq(Passwords) /\ Len(stack') = Len(stack) + 1
    BY <1>0, <2>2, Heights
  <2>5. dialogs' \in SUBSET Dialogs /\ Cardinality(dialogs') \in Nat
        /\ Cardinality(dialogs') <= Cardinality(dialogs) + 1
    BY <1>a, <2>2, <2>3
  <2>6. Len(stack') >= needed'
    BY <1>0, <2>2, <2>4, <2>5
  <2>7. DialogIsForTheChosen'
    BY <1>p, <2>1, <2>2 DEF DialogIsForTheChosen
  <2> QED
    BY <1>0, <2>2, <2>4, <2>5, <2>6, <2>7 DEF CheckSound, AnchorsForDialogs, NothingTrapped
<1>10. CASE DialogClosed
  <2>1. PICK closed \in dialogs : dialogs' = dialogs \ {closed}
    BY <1>10 DEF DialogClosed, Closed
  <2>2. AssertPop /\ UNCHANGED <<activePassword_, menu, edits, chosen, disturbed>>
    BY <1>10 DEF DialogClosed, DialogPops
  <2>3. dialogs' \in SUBSET Dialogs /\ Cardinality(dialogs') \in Nat
        /\ Cardinality(dialogs') = Cardinality(dialogs) - 1
    <3>1. closed \in Dialogs
      BY <1>0
    <3> QED
      BY <1>b, <2>1, <3>1
  <2>4. stack # <<>>
    BY <1>0, <2>3, Heights
  <2>5. stack' = Front(stack) /\ ~trapped'
    BY <1>0, <2>2, <2>4 DEF AssertPop, NothingTrapped
  <2>6. stack' \in Seq(Passwords) /\ Len(stack') = Len(stack) - 1
    BY <1>0, <2>4, <2>5, Shorter
  <2>7. Len(stack') >= needed'
    BY <1>0, <2>2, <2>3, <2>6
  <2>8. DialogIsForTheChosen'
    BY <1>0, <2>1, <2>2 DEF DialogIsForTheChosen
  <2> QED
    BY <1>0, <2>2, <2>3, <2>5, <2>6, <2>7, <2>8 DEF CheckSound, AnchorsForDialogs, NothingTrapped
<1> QED
  BY <1>1, <1>2, <1>3, <1>4, <1>5, <1>6, <1>7, <1>8, <1>9, <1>10
     DEF CheckNext, Answers, Menu, Dialog, BrowserStarts, BrowserStops, BrowserReports,
         BrowserRemoves, PasswordsChange, CheckEnds, PageReads, currentRouteChanged, checkVars

-----------------------------------------------------------------------------
(* The section: the anchor of its menu.                                    *)

\* A step of the section keeps an anchor for its menu or its dialog.
LEMMA SectionStep ==
    ASSUME sectionAnchors \in Nat, ExportFindsItsAnchor, SectionNext
    PROVE  sectionAnchors' \in Nat /\ ExportFindsItsAnchor'
<1>1. CASE UNCHANGED menuVars
  BY <1>1 DEF menuVars, ExportFindsItsAnchor
<1>2. CASE onImportExportMenuTap_
  BY <1>2 DEF onImportExportMenuTap_, SectionFree, ExportFindsItsAnchor
<1>3. CASE onImportTap_
  BY <1>3 DEF onImportTap_, ExportFindsItsAnchor
<1>4. CASE onExportTap_
  BY <1>4 DEF onExportTap_, ExportMenuAfter, ExportFindsItsAnchor
<1>5. CASE onPasswordsExportDialogClosed_
  BY <1>5 DEF onPasswordsExportDialogClosed_, ExportFindsItsAnchor
<1> QED
  BY <1>1, <1>2, <1>3, <1>4, <1>5
     DEF SectionNext, RemovesExceptions, Undoes, ChangesOptIn, ExceptionStored, AccountChanges,
         SectionReads, onRemoveExceptionButtonTap_, onUndoKeyBinding_, onOpt_, menuVars

-----------------------------------------------------------------------------

LEMMA NextIInv == IInv /\ [Next]_vars => IInv'
<1> SUFFICES ASSUME IInv, [Next]_vars PROVE IInv'
  OBVIOUS
<1>0. ListsOK /\ CheckSound /\ sectionAnchors \in Nat /\ ExportFindsItsAnchor
  BY DEF IInv, DialogsOK, DialogsAreSound, CheckSound
<1>1. ASSUME [CheckNext]_checkVars, UNCHANGED sectionVars PROVE IInv'
  <2>1. ListsOK' /\ CheckSound'
    BY <1>0, <1>1, ListsStep, CheckSoundStep
  <2>2. sectionAnchors' \in Nat /\ ExportFindsItsAnchor'
    BY <1>0, <1>1 DEF sectionVars, ExportFindsItsAnchor
  <2> QED
    BY <2>1, <2>2 DEF IInv, DialogsOK, DialogsAreSound, CheckSound
<1>2. ASSUME SectionNext, UNCHANGED checkOnly PROVE IInv'
  <2>1. ListsOK'
    BY <1>0, <1>2 DEF checkOnly, browserVars, statusVars, shownVars, ListsOK
  <2>2. CheckSound'
    BY <1>0, <1>2 DEF checkOnly, dialogVars, CheckSound, AnchorsForDialogs, NothingTrapped,
                      DialogIsForTheChosen
  <2>3. sectionAnchors' \in Nat /\ ExportFindsItsAnchor'
    BY <1>0, <1>2, SectionStep
  <2> QED
    BY <2>1, <2>2, <2>3 DEF IInv, DialogsOK, DialogsAreSound, CheckSound
<1> QED
  BY <1>1, <1>2 DEF Next, vars

\* No dialog of the password pages closes without an anchor and the button of the check finds no state
\* it does not expect, in whatever order clicks and answers come (activeDialogAnchorStack_,
\* onPasswordCheckButtonClick_).  A dialog or menu is for the password of the row it was opened on
\* as long as no password was answered since (onMoreActionsClick_): an answer in between makes its
\* own password the active one, and this says nothing of what is open then.
THEOREM DialogsStaySound == Spec => []DialogsAreSound
<1>1. IInv => DialogsAreSound
  BY DEF IInv
<1> QED
  BY <1>1, InitIInv, NextIInv, PTL DEF Spec

-----------------------------------------------------------------------------
(* The section's messages.                                                 *)

Requests == [kind : {"remove"}, copies : SUBSET Copies] \cup [kind : {"undo"}, copies : {{}}]
              \cup [kind : {"optin", "optout"}, copies : {{}}]
Events   == [kind : {"exceptions"}, value : SUBSET Copies, answer : BOOLEAN]
              \cup [kind : {"sync-status"}, value : Sync, answer : BOOLEAN]
              \cup [kind : {"sync-prefs"}, value : Prefs, answer : BOOLEAN]
              \cup [kind : {"stored-accounts", "opted"}, value : BOOLEAN, answer : BOOLEAN]

\* What the section and its side of the browser hold.
SectionOK ==
    /\ exceptions \subseteq Copies /\ passwordExceptions \subseteq Copies
    /\ undos \in Seq(SUBSET Copies) /\ requests \in Seq(Requests) /\ events \in Seq(Events)
    /\ optedIn \in BOOLEAN /\ isOptedInForAccountStorage_ \in BOOLEAN /\ outdated \in BOOLEAN
    /\ account_ \in [syncStatus : Sync \cup {Undefined}, syncPrefs : Prefs \cup {Undefined},
                     stored : BOOLEAN]

\* One more at the end.
LEMMA Appended ==
    ASSUME NEW S, NEW s \in Seq(S), NEW e \in S, NEW t, t = Append(s, e)
    PROVE  /\ t \in Seq(S) /\ Len(s) \in Nat /\ Len(t) = Len(s) + 1 /\ t[Len(s) + 1] = e
           /\ \A i \in 1 .. Len(s) : t[i] = s[i]
<1>1. Len(s) \in Nat
  BY LenProperties
<1> QED
  BY <1>1, AppendProperties

\* One less at the front.
LEMMA Taken ==
    ASSUME NEW S, NEW s \in Seq(S), s # <<>>, NEW t, t = Tail(s)
    PROVE  /\ t \in Seq(S) /\ Len(s) \in Nat /\ Len(t) \in Nat /\ Len(s) = Len(t) + 1
           /\ Head(s) = s[1] /\ s[1] \in S /\ \A i \in 1 .. Len(t) : t[i] = s[i + 1]
<1>1. Len(s) \in Nat /\ Len(s) > 0 /\ Len(t) = Len(s) - 1 /\ Head(s) \in S /\ t \in Seq(S)
  BY Shorter
<1>2. \A i \in 1 .. Len(t) : t[i] = s[i + 1]
  BY HeadTailProperties
<1>3. Head(s) = s[1]
  OBVIOUS
<1> QED
  BY <1>1, <1>2, <1>3

\* The messages that can be made.
LEMMA MessagesOfSection ==
    /\ \A S \in SUBSET Copies : Event("exceptions", S) \in Events /\ Request("remove", S) \in Requests
    /\ \A s \in Sync : Event("sync-status", s) \in Events
    /\ \A p \in Prefs : Event("sync-prefs", p) \in Events
    /\ \A b \in BOOLEAN : Event("stored-accounts", b) \in Events /\ Event("opted", b) \in Events
    /\ \A k \in {"undo", "optin", "optout"} : Request(k, {}) \in Requests
    /\ \A S \in SUBSET Copies : Answer("exceptions", S) \in Events
    /\ \A s \in Sync : Answer("sync-status", s) \in Events
    /\ \A b \in BOOLEAN : Answer("stored-accounts", b) \in Events /\ Answer("opted", b) \in Events
BY DEF Event, Answer, Request, Events, Requests

\* What a step does to the browser's list of removals.
LEMMA UndosStep ==
    ASSUME SectionOK
    PROVE  /\ \A S \in SUBSET Copies :
                 undos \o Undoable(S) = undos \/ undos \o Undoable(S) = Append(undos, S)
           /\ undos # <<>> =>
                 /\ Len(undos) \in Nat /\ Len(undos) > 0 /\ Last(undos) = undos[Len(undos)]
                 /\ Last(undos) \in SUBSET Copies /\ Front(undos) \in Seq(SUBSET Copies)
                 /\ Len(Front(undos)) = Len(undos) - 1
                 /\ \A i \in 1 .. Len(undos) - 1 : Front(undos)[i] = undos[i]
<1>1. ASSUME NEW S \in SUBSET Copies
      PROVE  undos \o Undoable(S) = undos \/ undos \o Undoable(S) = Append(undos, S)
  <2>1. undos \o <<>> = undos
    BY ConcatEmptySeq DEF SectionOK
  <2>2. Append(undos, S) = undos \o <<S>>
    BY AppendIsConcat DEF SectionOK
  <2> QED
    BY <2>1, <2>2 DEF Undoable
<1>2. ASSUME undos # <<>>
      PROVE  /\ Len(undos) \in Nat /\ Len(undos) > 0 /\ Last(undos) = undos[Len(undos)]
             /\ Last(undos) \in SUBSET Copies /\ Front(undos) \in Seq(SUBSET Copies)
             /\ Len(Front(undos)) = Len(undos) - 1
             /\ \A i \in 1 .. Len(undos) - 1 : Front(undos)[i] = undos[i]
  <2>1. /\ Len(undos) \in Nat /\ Len(undos) > 0 /\ Front(undos) \in Seq(SUBSET Copies)
        /\ Len(Front(undos)) = Len(undos) - 1
    BY <1>2, Shorter DEF SectionOK
  <2>2. Last(undos) = undos[Len(undos)]
    BY DEF Last
  <2>3. undos[Len(undos)] \in SUBSET Copies
    BY <2>1, ElementOfSeq DEF SectionOK
  <2>4. \A i \in 1 .. Len(undos) - 1 : Front(undos)[i] = undos[i]
    <3> DEFINE n == Len(undos) - 1
    <3>1. n \in Nat /\ \A i \in 1 .. n : undos[i] \in SUBSET Copies
      BY <2>1, ElementOfSeq DEF SectionOK
    <3>2. Front(undos) = SubSeq(undos, 1, n)
      BY DEF Front
    <3> HIDE DEF n
    <3>3. \A i \in 1 .. n - 1 + 1 : SubSeq(undos, 1, n)[i] = undos[1 + i - 1]
      BY <3>1, SubSeqProperties
    <3>4. \A i \in 1 .. n : Front(undos)[i] = undos[i]
      BY <3>1, <3>2, <3>3
    <3> QED
      BY <3>4 DEF n
  <2> QED
    BY <2>1, <2>2, <2>3, <2>4
<1> QED
  BY <1>1, <1>2

-----------------------------------------------------------------------------
(* The copies of an exception.                                             *)

\* Of each site that did not grow, S has all the copies of the start or none.
Together(S, g, w) == \A site \in Sites \ g : CopiesOf(S, site) \in {{}, CopiesOf(w, site)}

LEMMA TogetherIsKept ==
    ASSUME NEW A, NEW B, NEW g, NEW w, Together(A, g, w), Together(B, g, w)
    PROVE  /\ Together(A \ B, g, w) /\ Together(A \cap B, g, w) /\ Together(A \cup B, g, w)
           /\ \A site : Together(CopiesOf(A, site), g, w)
<1>1. ASSUME NEW site \in Sites \ g
      PROVE  /\ CopiesOf(A \ B, site) \in {{}, CopiesOf(w, site)}
             /\ CopiesOf(A \cap B, site) \in {{}, CopiesOf(w, site)}
             /\ CopiesOf(A \cup B, site) \in {{}, CopiesOf(w, site)}
  <2>1. /\ CopiesOf(A, site) \in {{}, CopiesOf(w, site)}
        /\ CopiesOf(B, site) \in {{}, CopiesOf(w, site)}
    BY DEF Together
  <2>2. /\ CopiesOf(A \ B, site) = CopiesOf(A, site) \ CopiesOf(B, site)
        /\ CopiesOf(A \cap B, site) = CopiesOf(A, site) \cap CopiesOf(B, site)
        /\ CopiesOf(A \cup B, site) = CopiesOf(A, site) \cup CopiesOf(B, site)
    BY DEF CopiesOf
  <2> HIDE DEF CopiesOf
  <2> QED
    BY <2>1, <2>2
<1>2. ASSUME NEW site, NEW other \in Sites \ g
      PROVE  CopiesOf(CopiesOf(A, site), other) \in {{}, CopiesOf(w, other)}
  <2>1. CASE other = site
    <3>1. CopiesOf(CopiesOf(A, site), other) = CopiesOf(A, other)
      BY <2>1 DEF CopiesOf
    <3> QED
      BY <3>1 DEF Together
  <2>2. CASE other # site
    BY <2>2 DEF CopiesOf
  <2> QED
    BY <2>1, <2>2
<1> QED
  BY <1>1, <1>2 DEF Together

\* A copy that is stored concerns its own site only.
LEMMA TogetherGrows ==
    ASSUME NEW A, NEW g, NEW w, Together(A, g, w), NEW copy
    PROVE  /\ Together(A, g \cup {copy[1]}, w)
           /\ Together(A \cup {copy}, g \cup {copy[1]}, w)
<1>1. ASSUME NEW site \in Sites \ (g \cup {copy[1]})
      PROVE  CopiesOf(A \cup {copy}, site) = CopiesOf(A, site)
  BY <1>1 DEF CopiesOf
<1> QED
  BY <1>1 DEF Together

\* The copies that events, requests and undos carry.
EventsTogether(es, g, w) == \A i \in 1 .. Len(es) :
                               es[i].kind = "exceptions" => Together(es[i].value, g, w)
RequestsTogether(rs, g, w) == \A i \in 1 .. Len(rs) :
                                 rs[i].kind = "remove" => Together(rs[i].copies, g, w)
UndosTogether(us, g, w) == \A i \in 1 .. Len(us) : Together(us[i], g, w)

\* Whatever the section and the browser hold or tell each other of copies keeps them together.
CopiesInv ==
    /\ Together(exceptions, grown, whole) /\ Together(passwordExceptions, grown, whole)
    /\ EventsTogether(events, grown, whole) /\ RequestsTogether(requests, grown, whole)
    /\ UndosTogether(undos, grown, whole)

\* The opt-in that the section has, or will have read, is the browser's: in what is under way to it,
\* or in what it shows when nothing of the kind is, as long as nothing was overtaken.
LastOpted(es, shown, opted) ==
    /\ (\A i \in 1 .. Len(es) : es[i].kind # "opted") => shown = opted
    /\ \A i \in 1 .. Len(es) :
          es[i].kind = "opted" /\ (\A j \in i + 1 .. Len(es) : es[j].kind # "opted")
              => es[i].value = opted

OptInv == ~outdated => LastOpted(events, isOptedInForAccountStorage_, optedIn)

SectionInv == SectionOK /\ CopiesInv /\ OptInv

LEMMA InitSectionInv == Init => SectionInv
<1> SUFFICES ASSUME Init PROVE SectionInv
  OBVIOUS
<1>1. /\ account \in Account /\ optedIn \in BOOLEAN /\ exceptions \in SUBSET Copies
      /\ account.syncStatus \in Sync /\ account.syncPrefs \in Prefs /\ account.stored \in BOOLEAN
  BY DEF Init, Account
<1>2. events = <<Answer("exceptions", exceptions), Answer("opted", optedIn),
                 Answer("sync-status", account.syncStatus), Event("sync-prefs", account.syncPrefs),
                 Answer("stored-accounts", account.stored)>>
  BY DEF Init
<1>3. events \in Seq(Events)
  BY <1>1, <1>2, MessagesOfSection
<1>4. /\ Len(events) = 5 /\ events[1] = Answer("exceptions", exceptions)
      /\ events[2] = Answer("opted", optedIn)
      /\ \A i \in 3 .. 5 : events[i].kind \in {"sync-status", "sync-prefs", "stored-accounts"}
  BY <1>2 DEF Event, Answer
<1>5. SectionOK
  BY <1>1, <1>3, EmptySeq DEF Init, SectionOK
<1>6. OptInv
  BY <1>4 DEF OptInv, LastOpted, Answer
<1>7. CopiesInv
  <2>1. Together(exceptions, grown, whole) /\ Together(passwordExceptions, grown, whole)
    BY DEF Init, Together, CopiesOf
  <2>2. Len(undos) = 0 /\ Len(requests) = 0
    BY EmptySeq DEF Init
  <2>3. \A i \in 1 .. Len(events) : events[i].kind = "exceptions" => events[i].value = exceptions
    BY <1>4 DEF Answer
  <2> QED
    BY <2>1, <2>2, <2>3 DEF CopiesInv, EventsTogether, RequestsTogether, UndosTogether
<1> QED
  BY <1>5, <1>6, <1>7 DEF SectionInv

-----------------------------------------------------------------------------
(* The steps of the section.                                               *)

\* An event more: the opt-in is still the last one heard, or what this event says.
LEMMA OptHeard ==
    ASSUME SectionOK, OptInv, UNCHANGED <<isOptedInForAccountStorage_, outdated>>,
           NEW e \in Events, events' = Append(events, e),
           IF e.kind = "opted" THEN e.value = optedIn' ELSE optedIn' = optedIn
    PROVE  OptInv'
<1> SUFFICES ASSUME ~outdated
             PROVE  LastOpted(events, isOptedInForAccountStorage_, optedIn)'
  BY DEF OptInv
<1>0. LastOpted(events, isOptedInForAccountStorage_, optedIn)
  BY DEF OptInv
<1>1. /\ Len(events) \in Nat /\ Len(events') = Len(events) + 1 /\ events'[Len(events) + 1] = e
      /\ \A i \in 1 .. Len(events) : events'[i] = events[i]
  BY Appended DEF SectionOK
<1>2. CASE e.kind = "opted"
  <2>1. Len(events') \in 1 .. Len(events') /\ events'[Len(events')].kind = "opted"
        /\ events'[Len(events')].value = optedIn'
    BY <1>1, <1>2
  <2>2. ASSUME NEW i \in 1 .. Len(events'), \A j \in i + 1 .. Len(events') : events'[j].kind # "opted"
        PROVE  i = Len(events')
    BY <1>1, <2>1, <2>2
  <2> QED
    BY <2>1, <2>2 DEF LastOpted
<1>3. CASE e.kind # "opted"
  <2>1. ASSUME \A i \in 1 .. Len(events') : events'[i].kind # "opted"
        PROVE  isOptedInForAccountStorage_' = optedIn'
    <3>1. \A i \in 1 .. Len(events) : events[i].kind # "opted"
      BY <1>1, <2>1
    <3> QED
      BY <1>0, <1>3, <3>1 DEF LastOpted
  <2>2. ASSUME NEW i \in 1 .. Len(events'), events'[i].kind = "opted",
               \A j \in i + 1 .. Len(events') : events'[j].kind # "opted"
        PROVE  events'[i].value = optedIn'
    <3>1. i \in 1 .. Len(events) /\ events'[i] = events[i]
      BY <1>1, <1>3, <2>2
    <3>2. \A j \in i + 1 .. Len(events) : events[j].kind # "opted"
      BY <1>1, <2>2
    <3> QED
      BY <1>0, <1>3, <2>2, <3>1, <3>2 DEF LastOpted
  <2> QED
    BY <2>1, <2>2 DEF LastOpted
<1> QED
  BY <1>2, <1>3

\* An event less: it is not the last opt-in, or else it is what is shown now, or it has overtaken
\* another.
LEMMA OptRead ==
    ASSUME SectionOK, OptInv, UNCHANGED optedIn,
           NEW i \in DOMAIN events, events' = RemoveAt(events, i),
           isOptedInForAccountStorage_' = IF events[i].kind = "opted" THEN events[i].value
                                          ELSE isOptedInForAccountStorage_,
           outdated' = (outdated \/ \E j \in 1 .. i - 1 : events[j].kind = "opted"
                                                         /\ events[i].kind = "opted")
    PROVE  OptInv'
<1> SUFFICES ASSUME ~outdated'
             PROVE  LastOpted(events, isOptedInForAccountStorage_, optedIn)'
  BY DEF OptInv
<1>0. /\ LastOpted(events, isOptedInForAccountStorage_, optedIn)
      /\ \A j \in 1 .. i - 1 : ~(events[j].kind = "opted" /\ events[i].kind = "opted")
  BY DEF OptInv
<1>1. Len(events) \in Nat /\ i \in 1 .. Len(events) /\ LessOne(events, i, events')
  <2>1. events \in Seq(Events)
    BY DEF SectionOK
  <2> QED
    BY <2>1, RemovedAt
<1>2. ASSUME \A k \in 1 .. Len(events') : events'[k].kind # "opted"
      PROVE  isOptedInForAccountStorage_' = optedIn'
  <2>1. ASSUME NEW n \in 1 .. Len(events), n # i PROVE events[n].kind # "opted"
    <3>1. PICK l \in 1 .. Len(events') : events'[l] = events[n]
      BY <1>1, <2>1 DEF LessOne
    <3> QED
      BY <1>2, <3>1
  <2>2. CASE events[i].kind = "opted"
    <3>1. \A j \in i + 1 .. Len(events) : events[j].kind # "opted"
      BY <1>1, <2>1
    <3> QED
      BY <1>0, <1>1, <2>2, <3>1 DEF LastOpted
  <2>3. CASE events[i].kind # "opted"
    <3>1. \A n \in 1 .. Len(events) : events[n].kind # "opted"
      BY <2>1, <2>3
    <3> QED
      BY <1>0, <2>3, <3>1 DEF LastOpted
  <2> QED
    BY <2>2, <2>3
<1>3. ASSUME NEW k \in 1 .. Len(events'), events'[k].kind = "opted",
             \A j \in k + 1 .. Len(events') : events'[j].kind # "opted"
      PROVE  events'[k].value = optedIn'
  <2>1. PICK m \in 1 .. Len(events) :
            /\ m # i /\ events'[k] = events[m]
            /\ \A n \in m + 1 .. Len(events) :
                  n # i => \E l \in k + 1 .. Len(events') : events'[l] = events[n]
    BY <1>1 DEF LessOne
  <2>2. \A n \in m + 1 .. Len(events) : n # i => events[n].kind # "opted"
    BY <1>3, <2>1
  <2>3. i \in m + 1 .. Len(events) => m \in 1 .. i - 1
    BY <1>1
  <2>4. \A n \in m + 1 .. Len(events) : events[n].kind # "opted"
    BY <1>0, <1>3, <2>1, <2>2, <2>3
  <2> QED
    BY <1>0, <1>3, <2>1, <2>4 DEF LastOpted
<1> QED
  BY <1>2, <1>3 DEF LastOpted

LEMMA EventsMove ==
    ASSUME NEW es \in Seq(Events), NEW g, NEW w, EventsTogether(es, g, w)
    PROVE  /\ \A e \in Events : (e.kind = "exceptions" => Together(e.value, g, w))
                                   => EventsTogether(Append(es, e), g, w)
           /\ \A i \in DOMAIN es :
                 /\ EventsTogether(RemoveAt(es, i), g, w)
                 /\ es[i].kind = "exceptions" => Together(es[i].value, g, w)
<1>1. ASSUME NEW e \in Events, e.kind = "exceptions" => Together(e.value, g, w)
      PROVE  EventsTogether(Append(es, e), g, w)
  <2> DEFINE t == Append(es, e)
  <2>1. /\ Len(es) \in Nat /\ Len(t) = Len(es) + 1 /\ t[Len(es) + 1] = e
        /\ \A i \in 1 .. Len(es) : t[i] = es[i]
    BY Appended
  <2> HIDE DEF t
  <2>2. EventsTogether(t, g, w)
    BY <1>1, <2>1 DEF EventsTogether
  <2> QED
    BY <2>2 DEF t
<1>2. ASSUME NEW i \in DOMAIN es
      PROVE  /\ EventsTogether(RemoveAt(es, i), g, w)
             /\ es[i].kind = "exceptions" => Together(es[i].value, g, w)
  <2> DEFINE t == RemoveAt(es, i)
  <2>1. i \in 1 .. Len(es) /\ \A k \in 1 .. Len(t) : \E m \in 1 .. Len(es) : t[k] = es[m]
    BY RemovedAt DEF LessOne
  <2> HIDE DEF t
  <2>2. EventsTogether(t, g, w)
    BY <2>1 DEF EventsTogether
  <2> QED
    BY <2>1, <2>2 DEF EventsTogether, t
<1> QED
  BY <1>1, <1>2

LEMMA RequestsMove ==
    ASSUME NEW rs \in Seq(Requests), NEW g, NEW w, RequestsTogether(rs, g, w)
    PROVE  /\ \A r \in Requests : (r.kind = "remove" => Together(r.copies, g, w))
                                     => RequestsTogether(Append(rs, r), g, w)
           /\ rs # <<>> => /\ RequestsTogether(Tail(rs), g, w)
                           /\ Head(rs).kind = "remove" => Together(Head(rs).copies, g, w)
<1>1. ASSUME NEW r \in Requests, r.kind = "remove" => Together(r.copies, g, w)
      PROVE  RequestsTogether(Append(rs, r), g, w)
  <2> DEFINE t == Append(rs, r)
  <2>1. /\ Len(rs) \in Nat /\ Len(t) = Len(rs) + 1 /\ t[Len(rs) + 1] = r
        /\ \A i \in 1 .. Len(rs) : t[i] = rs[i]
    BY Appended
  <2> HIDE DEF t
  <2>2. RequestsTogether(t, g, w)
    BY <1>1, <2>1 DEF RequestsTogether
  <2> QED
    BY <2>2 DEF t
<1>2. ASSUME rs # <<>>
      PROVE  /\ RequestsTogether(Tail(rs), g, w)
             /\ Head(rs).kind = "remove" => Together(Head(rs).copies, g, w)
  <2> DEFINE t == Tail(rs)
  <2>1. /\ Len(t) \in Nat /\ Len(rs) = Len(t) + 1 /\ Head(rs) = rs[1]
        /\ \A i \in 1 .. Len(t) : t[i] = rs[i + 1]
    BY <1>2, Taken
  <2> HIDE DEF t
  <2>2. RequestsTogether(t, g, w)
    BY <2>1 DEF RequestsTogether
  <2>3. 1 \in 1 .. Len(rs)
    BY <2>1
  <2> QED
    BY <2>1, <2>2, <2>3 DEF RequestsTogether, t
<1> QED
  BY <1>1, <1>2

\* What a site is known to hold survives the growth of another.
LEMMA EverythingGrows ==
    ASSUME NEW es, NEW rs, NEW us, NEW g, NEW w, NEW copy,
           EventsTogether(es, g, w), RequestsTogether(rs, g, w), UndosTogether(us, g, w)
    PROVE  /\ EventsTogether(es, g \cup {copy[1]}, w) /\ RequestsTogether(rs, g \cup {copy[1]}, w)
           /\ UndosTogether(us, g \cup {copy[1]}, w)
BY TogetherGrows DEF EventsTogether, RequestsTogether, UndosTogether

\* The section changes nothing else: its requests grow by one that keeps copies together, or stay.
LEMMA SectionAsks ==
    ASSUME SectionInv, UNCHANGED <<sectionShown, undos>>,
           \/ UNCHANGED requests
           \/ \E r \in Requests : /\ requests' = Append(requests, r)
                                  /\ r.kind = "remove" => Together(r.copies, grown, whole)
    PROVE  SectionInv'
<1>1. requests' \in Seq(Requests) /\ RequestsTogether(requests', grown, whole)
  <2>1. CASE UNCHANGED requests
    BY <2>1 DEF SectionInv, SectionOK, CopiesInv
  <2>2. ASSUME NEW r \in Requests, requests' = Append(requests, r),
               r.kind = "remove" => Together(r.copies, grown, whole)
        PROVE  requests' \in Seq(Requests) /\ RequestsTogether(requests', grown, whole)
    BY <2>2, AppendProperties, RequestsMove DEF SectionInv, SectionOK, CopiesInv
  <2> QED
    BY <2>1, <2>2
<1>2. UNCHANGED <<exceptions, optedIn, grown, whole, events, outdated, passwordExceptions, account_,
                  isOptedInForAccountStorage_, undos>>
  BY DEF sectionShown, browserSide
<1>3. SectionOK' /\ CopiesInv'
  BY <1>1, <1>2 DEF SectionInv, SectionOK, CopiesInv
<1>4. OptInv'
  BY <1>2 DEF SectionInv, OptInv
<1> QED
  BY <1>3, <1>4 DEF SectionInv

\* The browser takes a request about exceptions: what it removes or brings back are all copies.
LEMMA ExceptionsStep ==
    ASSUME SectionInv, RemovesExceptions \/ Undoes PROVE SectionInv'
<1>0. /\ requests # <<>> /\ requests' = Tail(requests)
      /\ events' = Append(events, Event("exceptions", exceptions'))
      /\ UNCHANGED <<optedIn, passwordExceptions, account_, isOptedInForAccountStorage_, outdated,
                     grown, whole>>
  BY DEF RemovesExceptions, Undoes
<1>1. /\ Head(requests) \in Requests /\ requests' \in Seq(Requests)
      /\ RequestsTogether(requests', grown, whole)
      /\ Head(requests).kind = "remove" => /\ Head(requests).copies \in SUBSET Copies
                                           /\ Together(Head(requests).copies, grown, whole)
  <2>1. Head(requests) \in Requests /\ requests' \in Seq(Requests)
    BY <1>0, HeadTailProperties DEF SectionInv, SectionOK
  <2>2. /\ RequestsTogether(requests', grown, whole)
        /\ Head(requests).kind = "remove" => Together(Head(requests).copies, grown, whole)
    BY <1>0, RequestsMove DEF SectionInv, SectionOK, CopiesInv
  <2> QED
    BY <2>1, <2>2 DEF Requests
<1>2. /\ exceptions' \in SUBSET Copies /\ Together(exceptions', grown, whole)
      /\ undos' \in Seq(SUBSET Copies) /\ UndosTogether(undos', grown, whole)
  <2>1. CASE RemovesExceptions
    <3> DEFINE copies == Head(requests).copies
               removed == exceptions \cap copies
    <3>1. copies \in SUBSET Copies /\ Together(copies, grown, whole)
          /\ Together(exceptions, grown, whole) /\ exceptions \in SUBSET Copies
      BY <1>1, <2>1 DEF RemovesExceptions, SectionInv, SectionOK, CopiesInv
    <3>2. Together(exceptions \ copies, grown, whole) /\ Together(removed, grown, whole)
          /\ removed \in SUBSET Copies /\ exceptions \ copies \in SUBSET Copies
      BY <3>1, TogetherIsKept
    <3>3. exceptions' = exceptions \ copies /\ undos' = undos \o Undoable(removed)
      BY <2>1 DEF RemovesExceptions
    <3> HIDE DEF copies, removed
    <3>4. undos' = undos \/ undos' = Append(undos, removed)
      BY <3>2, <3>3, UndosStep DEF SectionInv
    <3>5. CASE undos' = undos
      BY <3>2, <3>3, <3>5 DEF SectionInv, SectionOK, CopiesInv
    <3>6. CASE undos' = Append(undos, removed)
      <4>1. /\ undos' \in Seq(SUBSET Copies) /\ Len(undos) \in Nat
            /\ Len(undos') = Len(undos) + 1 /\ undos'[Len(undos) + 1] = removed
            /\ \A i \in 1 .. Len(undos) : undos'[i] = undos[i]
        BY <3>2, <3>6, Appended DEF SectionInv, SectionOK
      <4>2. UndosTogether(undos, grown, whole)
        BY DEF SectionInv, CopiesInv
      <4>3. UndosTogether(undos', grown, whole)
        BY <3>2, <4>1, <4>2 DEF UndosTogether
      <4> QED
        BY <3>2, <3>3, <4>1, <4>3
    <3> QED
      BY <3>4, <3>5, <3>6
  <2>2. CASE Undoes /\ undos = <<>>
    <3>1. exceptions' = exceptions /\ undos' = undos
      BY <2>2 DEF Undoes
    <3> QED
      BY <3>1 DEF SectionInv, SectionOK, CopiesInv
  <2>3. CASE Undoes /\ undos # <<>>
    <3>1. exceptions' = exceptions \cup Last(undos) /\ undos' = Front(undos)
      BY <2>3 DEF Undoes
    <3>2. /\ Len(undos) \in Nat /\ Len(undos) > 0 /\ Last(undos) = undos[Len(undos)]
          /\ Last(undos) \in SUBSET Copies /\ Front(undos) \in Seq(SUBSET Copies)
          /\ Len(Front(undos)) = Len(undos) - 1
          /\ \A i \in 1 .. Len(undos) - 1 : Front(undos)[i] = undos[i]
      BY <2>3, UndosStep DEF SectionInv
    <3>3. /\ UndosTogether(undos, grown, whole) /\ Together(exceptions, grown, whole)
          /\ exceptions \in SUBSET Copies
      BY DEF SectionInv, SectionOK, CopiesInv
    <3>4. Together(Last(undos), grown, whole)
      BY <3>2, <3>3 DEF UndosTogether
    <3>5. Together(exceptions', grown, whole)
      BY <3>1, <3>3, <3>4, TogetherIsKept
    <3>6. UndosTogether(undos', grown, whole)
      BY <3>1, <3>2, <3>3 DEF UndosTogether
    <3> QED
      BY <3>1, <3>2, <3>3, <3>5, <3>6
  <2> QED
    BY <2>1, <2>2, <2>3
<1>3. Event("exceptions", exceptions') \in Events
  BY <1>2, MessagesOfSection
<1>4. events' \in Seq(Events) /\ EventsTogether(events', grown, whole)
  <2>1. Event("exceptions", exceptions').value = exceptions'
    BY DEF Event
  <2> QED
    BY <1>0, <1>2, <1>3, <2>1, AppendProperties, EventsMove DEF SectionInv, SectionOK, CopiesInv
<1>5. OptInv'
  <2>1. Event("exceptions", exceptions').kind # "opted"
    BY DEF Event
  <2> QED
    BY <1>0, <1>3, <2>1, OptHeard DEF SectionInv
<1>6. SectionOK' /\ CopiesInv'
  BY <1>0, <1>1, <1>2, <1>4 DEF SectionInv, SectionOK, CopiesInv
<1> QED
  BY <1>5, <1>6 DEF SectionInv

\* The browser takes a request about the opt-in, or the account changes.
LEMMA AccountStep ==
    ASSUME SectionInv, ChangesOptIn \/ AccountChanges PROVE SectionInv'
<1>1. requests' \in Seq(Requests) /\ RequestsTogether(requests', grown, whole)
  <2>1. CASE ChangesOptIn
    <3>1. requests # <<>> /\ requests' = Tail(requests)
      BY <2>1 DEF ChangesOptIn
    <3> QED
      BY <3>1, HeadTailProperties, RequestsMove DEF SectionInv, SectionOK, CopiesInv
  <2>2. CASE AccountChanges
    BY <2>2 DEF AccountChanges, SectionInv, SectionOK, CopiesInv
  <2> QED
    BY <2>1, <2>2
<1>2. /\ optedIn' \in BOOLEAN
      /\ UNCHANGED <<exceptions, undos, passwordExceptions, account_,
                     isOptedInForAccountStorage_, outdated, grown, whole>>
  BY DEF ChangesOptIn, AccountChanges, SectionInv, SectionOK
<1>3. \/ UNCHANGED <<events, optedIn>>
      \/ \E e \in Events : /\ events' = Append(events, e) /\ e.kind # "exceptions"
                           /\ IF e.kind = "opted" THEN e.value = optedIn' ELSE optedIn' = optedIn
  <2>1. CASE ChangesOptIn
    <3>1. UNCHANGED <<events, optedIn>> \/ events' = Append(events, Event("opted", optedIn'))
      BY <2>1 DEF ChangesOptIn
    <3>2. /\ Event("opted", optedIn') \in Events /\ Event("opted", optedIn').kind = "opted"
          /\ Event("opted", optedIn').value = optedIn'
      BY <1>2, MessagesOfSection DEF Event
    <3> QED
      BY <3>1, <3>2
  <2>2. CASE AccountChanges
    <3>1. optedIn' = optedIn
      BY <2>2 DEF AccountChanges
    <3>2. \/ \E s \in Sync : events' = Append(events, Event("sync-status", s))
          \/ \E p \in Prefs : events' = Append(events, Event("sync-prefs", p))
          \/ \E b \in BOOLEAN : events' = Append(events, Event("stored-accounts", b))
      BY <2>2 DEF AccountChanges
    <3>3. \A v : /\ Event("sync-status", v).kind = "sync-status"
                 /\ Event("sync-prefs", v).kind = "sync-prefs"
                 /\ Event("stored-accounts", v).kind = "stored-accounts"
      BY DEF Event
    <3> QED
      BY <3>1, <3>2, <3>3, MessagesOfSection
  <2> QED
    BY <2>1, <2>2
<1>4. /\ events' \in Seq(Events) /\ EventsTogether(events', grown, whole) /\ OptInv'
  <2>1. CASE UNCHANGED <<events, optedIn>>
    BY <1>2, <2>1 DEF SectionInv, SectionOK, CopiesInv, OptInv
  <2>2. ASSUME NEW e \in Events, events' = Append(events, e), e.kind # "exceptions",
               IF e.kind = "opted" THEN e.value = optedIn' ELSE optedIn' = optedIn
        PROVE  events' \in Seq(Events) /\ EventsTogether(events', grown, whole) /\ OptInv'
    <3>1. events' \in Seq(Events) /\ EventsTogether(events', grown, whole)
      BY <2>2, AppendProperties, EventsMove DEF SectionInv, SectionOK, CopiesInv
    <3>2. OptInv'
      BY <1>2, <2>2, OptHeard DEF SectionInv
    <3> QED
      BY <3>1, <3>2
  <2> QED
    BY <1>3, <2>1, <2>2
<1>5. SectionOK' /\ CopiesInv'
  BY <1>1, <1>2, <1>4 DEF SectionInv, SectionOK, CopiesInv
<1> QED
  BY <1>4, <1>5 DEF SectionInv

\* A copy is stored: its site has grown, and the others are as they were.
LEMMA StoredStep ==
    ASSUME SectionInv, ExceptionStored PROVE SectionInv'
<1>1. PICK copy \in Copies \ exceptions :
        exceptions' = exceptions \cup {copy} /\ grown' = grown \cup {copy[1]}
  BY DEF ExceptionStored
<1>2. /\ events' = Append(events, Event("exceptions", exceptions'))
      /\ UNCHANGED <<undos, optedIn, requests, passwordExceptions, account_,
                     isOptedInForAccountStorage_, outdated, whole>>
  BY DEF ExceptionStored
<1>3. /\ Together(exceptions', grown', whole) /\ Together(passwordExceptions, grown', whole)
      /\ EventsTogether(events, grown', whole) /\ RequestsTogether(requests, grown', whole)
      /\ UndosTogether(undos, grown', whole)
  BY <1>1, TogetherGrows, EverythingGrows DEF SectionInv, CopiesInv
<1>4. exceptions' \in SUBSET Copies /\ Event("exceptions", exceptions') \in Events
      /\ Event("exceptions", exceptions').kind = "exceptions"
      /\ Event("exceptions", exceptions').value = exceptions'
  <2>1. exceptions' \in SUBSET Copies
    BY <1>1 DEF SectionInv, SectionOK
  <2> QED
    BY <2>1, MessagesOfSection DEF Event
<1>5. events' \in Seq(Events) /\ EventsTogether(events', grown', whole)
  BY <1>2, <1>3, <1>4, AppendProperties, EventsMove DEF SectionInv, SectionOK
<1>6. OptInv'
  BY <1>2, <1>4, OptHeard DEF SectionInv
<1>7. SectionOK' /\ CopiesInv'
  BY <1>2, <1>3, <1>4, <1>5 DEF SectionInv, SectionOK, CopiesInv
<1> QED
  BY <1>6, <1>7 DEF SectionInv

\* The section reads an event or an answer.
LEMMA ReadsStep ==
    ASSUME SectionInv, SectionReads PROVE SectionInv'
<1>1. PICK i \in DOMAIN events :
        /\ events' = RemoveAt(events, i)
        /\ \/ passwordExceptions' = passwordExceptions
           \/ events[i].kind = "exceptions" /\ passwordExceptions' = events[i].value
        /\ isOptedInForAccountStorage_' = IF events[i].kind = "opted" THEN events[i].value
                                          ELSE isOptedInForAccountStorage_
        /\ \/ account_' = account_
           \/ /\ events[i].kind = "sync-status"
              /\ account_' = [account_ EXCEPT !.syncStatus = events[i].value]
           \/ /\ events[i].kind = "sync-prefs"
              /\ account_' = [account_ EXCEPT !.syncPrefs = events[i].value]
           \/ /\ events[i].kind = "stored-accounts"
              /\ account_' = [account_ EXCEPT !.stored = events[i].value]
        /\ outdated' = (outdated \/ \E j \in 1 .. i - 1 : events[j].kind = "opted"
                                                         /\ events[i].kind = "opted")
  BY DEF SectionReads, setIsOptedInForAccountStorageListener
<1>a. UNCHANGED <<exceptions, undos, optedIn, requests, grown, whole>>
  BY DEF SectionReads, browserSide
<1>2. /\ events[i] \in Events /\ events' \in Seq(Events)
      /\ EventsTogether(events', grown, whole)
      /\ events[i].kind = "exceptions" => Together(events[i].value, grown, whole)
  BY <1>1, RemovedAt, EventsMove DEF SectionInv, SectionOK, CopiesInv
<1>3. /\ events[i].kind = "exceptions" => events[i].value \in SUBSET Copies
      /\ events[i].kind = "opted" => events[i].value \in BOOLEAN
      /\ events[i].kind = "sync-status" => events[i].value \in Sync
      /\ events[i].kind = "sync-prefs" => events[i].value \in Prefs
      /\ events[i].kind = "stored-accounts" => events[i].value \in BOOLEAN
  BY <1>2 DEF Events
<1>4. passwordExceptions' \in SUBSET Copies /\ Together(passwordExceptions', grown, whole)
  BY <1>1, <1>2, <1>3 DEF SectionInv, SectionOK, CopiesInv
<1>5. outdated' \in BOOLEAN
  BY <1>1
<1>6. isOptedInForAccountStorage_' \in BOOLEAN
  BY <1>1, <1>3 DEF SectionInv, SectionOK
<1>7. account_' \in [syncStatus : Sync \cup {Undefined}, syncPrefs : Prefs \cup {Undefined},
                     stored : BOOLEAN]
  BY <1>1, <1>3 DEF SectionInv, SectionOK
<1>8. OptInv'
  BY <1>1, <1>a, OptRead DEF SectionInv
<1>9. SectionOK' /\ CopiesInv'
  BY <1>a, <1>2, <1>4, <1>5, <1>6, <1>7 DEF SectionInv, SectionOK, CopiesInv
<1> QED
  BY <1>8, <1>9 DEF SectionInv

LEMMA NextSectionInv == SectionInv /\ [Next]_vars => SectionInv'
<1> SUFFICES ASSUME SectionInv, [Next]_vars PROVE SectionInv'
  OBVIOUS
<1>1. CASE UNCHANGED sectionVars
  BY <1>1 DEF sectionVars, SectionInv, SectionOK, CopiesInv, OptInv
<1>2. CASE onRemoveExceptionButtonTap_
  <2>1. PICK site \in {copy[1] : copy \in passwordExceptions} :
          requests' = Append(requests, Request("remove", allExceptionIds(site)))
    BY <1>2 DEF onRemoveExceptionButtonTap_
  <2>2. allExceptionIds(site) \in SUBSET Copies /\ Together(allExceptionIds(site), grown, whole)
    <3>1. /\ passwordExceptions \in SUBSET Copies
          /\ Together(passwordExceptions, grown, whole)
      BY DEF SectionInv, SectionOK, CopiesInv
    <3>2. allExceptionIds(site) \in SUBSET Copies
      BY <3>1 DEF allExceptionIds, CopiesOf
    <3>3. Together(CopiesOf(passwordExceptions, site), grown, whole)
      BY <3>1, TogetherIsKept
    <3> QED
      BY <3>2, <3>3 DEF allExceptionIds
  <2>3. /\ Request("remove", allExceptionIds(site)) \in Requests
        /\ Request("remove", allExceptionIds(site)).copies = allExceptionIds(site)
    BY <2>2, MessagesOfSection DEF Request
  <2>4. UNCHANGED <<sectionShown, undos>>
    BY <1>2 DEF onRemoveExceptionButtonTap_, sectionShown, browserSide
  <2> QED
    BY <2>1, <2>2, <2>3, <2>4, SectionAsks
<1>3. CASE onUndoKeyBinding_ \/ onOpt_
  <2>1. UNCHANGED <<sectionShown, undos>>
    BY <1>3 DEF onUndoKeyBinding_, onOpt_, sectionShown, browserSide
  <2>2. \E k \in {"undo", "optin", "optout"} : requests' = Append(requests, Request(k, {}))
    BY <1>3 DEF onUndoKeyBinding_, onOpt_
  <2>3. \A k \in {"undo", "optin", "optout"} :
          Request(k, {}) \in Requests /\ Request(k, {}).kind # "remove"
    BY MessagesOfSection DEF Request
  <2> QED
    BY <2>1, <2>2, <2>3, SectionAsks
<1>4. CASE onImportExportMenuTap_ \/ onImportTap_ \/ onExportTap_ \/ onPasswordsExportDialogClosed_
  <2>1. UNCHANGED <<sectionShown, undos>> /\ UNCHANGED requests
    BY <1>4 DEF onImportExportMenuTap_, onImportTap_, onExportTap_,
                onPasswordsExportDialogClosed_, sectionShown, browserSide
  <2> QED
    BY <2>1, SectionAsks
<1> QED
  BY <1>1, <1>2, <1>3, <1>4, ExceptionsStep, AccountStep, StoredStep, ReadsStep
     DEF Next, SectionNext, vars

\* However stale the rows are and however often they are tapped, the copies of an exception go and
\* come back together, for any sites and any number of taps, undos and changes of the browser
\* (onRemoveExceptionButtonTap_, onUndoKeyBinding_).
THEOREM CopiesGoTogether == Spec => []CopiesStayTogether
<1>1. SectionInv => CopiesStayTogether
  BY DEF SectionInv, CopiesInv, Together, CopiesStayTogether
<1> QED
  BY <1>1, InitSectionInv, NextSectionInv, PTL DEF Spec

-----------------------------------------------------------------------------
(* What the pages think of the browser.                                    *)

\* A check that is known to have started, or that the page is still to hear of, was started for
\* the passwords of now, unless the page is still to hear that they changed.
StartedNow(messages, succeeded, at, now) ==
    /\ succeeded /\ (\A i \in 1 .. Len(messages) : messages[i].kind # "saved") => at = now
    /\ \A i \in 1 .. Len(messages) :
          messages[i].kind = "started" /\ messages[i].success
            /\ (\A j \in i + 1 .. Len(messages) : messages[j].kind # "saved") => at = now

AutoInv ==
    "check" \notin overtaken =>
        StartedNow(toPage, startCheckAutomaticallySucceeded, startedAt, version)

\* The last status that is under way is the browser's, or what is shown when none is.
LastStatus(messages, shown, initial, actual) ==
    /\ (\A i \in 1 .. Len(messages) : ~IsStatus(messages[i])) => initial \/ shown = actual
    /\ \A i \in 1 .. Len(messages) :
          IsStatus(messages[i]) /\ (\A j \in i + 1 .. Len(messages) : ~IsStatus(messages[j]))
              => messages[i].status = actual

ShownInv == "status" \notin overtaken => LastStatus(toPage, status, isInitialStatus, check)

\* Where the elements of a sequence are when there is one more.
LEMMA OneMore ==
    ASSUME NEW S, NEW s \in Seq(S), NEW e \in S, NEW t, t = Append(s, e)
    PROVE  /\ Len(t) \in 1 .. Len(t) /\ t[Len(t)] = e
           /\ \A i \in 1 .. Len(t) : i = Len(t) \/ (i \in 1 .. Len(s) /\ t[i] = s[i])
           /\ \A i \in 1 .. Len(s) :
                 /\ i \in 1 .. Len(t) /\ t[i] = s[i] /\ Len(t) \in i + 1 .. Len(t)
                 /\ \A j \in i + 1 .. Len(s) : j \in i + 1 .. Len(t) /\ t[j] = s[j]
<1>1. /\ Len(s) \in Nat /\ Len(t) = Len(s) + 1 /\ t[Len(s) + 1] = e
      /\ \A i \in 1 .. Len(s) : t[i] = s[i]
  BY Appended
<1>2. \A i \in 1 .. Len(s) : \A j \in i + 1 .. Len(s) : j \in 1 .. Len(s)
  BY <1>1
<1> QED
  BY <1>1, <1>2

\* One more message: of a change of the passwords, or none of a start that has succeeded.
LEMMA AutoHeard ==
    ASSUME NEW s \in Seq(Messages), NEW e \in Messages, NEW succeeded, NEW at, NEW now,
           NEW t, t = Append(s, e),
           \/ e.kind = "saved"
           \/ StartedNow(s, succeeded, at, now) /\ ~(e.kind = "started" /\ e.success)
    PROVE  StartedNow(t, succeeded, at, now)
<1>1. /\ Len(t) \in 1 .. Len(t) /\ t[Len(t)] = e
      /\ \A i \in 1 .. Len(t) : i = Len(t) \/ (i \in 1 .. Len(s) /\ t[i] = s[i])
      /\ \A i \in 1 .. Len(s) :
            /\ i \in 1 .. Len(t) /\ t[i] = s[i] /\ Len(t) \in i + 1 .. Len(t)
            /\ \A j \in i + 1 .. Len(s) : j \in i + 1 .. Len(t) /\ t[j] = s[j]
  BY OneMore
<1>2. ASSUME succeeded, \A i \in 1 .. Len(t) : t[i].kind # "saved" PROVE at = now
  <2>1. e.kind # "saved" /\ \A i \in 1 .. Len(s) : s[i].kind # "saved"
    BY <1>1, <1>2
  <2> QED
    BY <1>2, <2>1 DEF StartedNow
<1>3. ASSUME NEW i \in 1 .. Len(t), t[i].kind = "started", t[i].success,
             \A j \in i + 1 .. Len(t) : t[j].kind # "saved"
      PROVE  at = now
  <2>1. CASE e.kind = "saved"
    <3>1. i # Len(t)
      BY <1>1, <1>3, <2>1
    <3>2. Len(t) \in i + 1 .. Len(t)
      BY <1>1, <3>1
    <3> QED
      BY <1>1, <1>3, <2>1, <3>2
  <2>2. CASE e.kind # "saved"
    <3>1. i \in 1 .. Len(s) /\ t[i] = s[i]
      BY <1>1, <1>3, <2>2
    <3>2. \A j \in i + 1 .. Len(s) : s[j].kind # "saved"
      BY <1>1, <1>3, <3>1
    <3> QED
      BY <1>3, <2>2, <3>1, <3>2 DEF StartedNow
  <2> QED
    BY <2>1, <2>2
<1> QED
  BY <1>2, <1>3 DEF StartedNow

\* One more message: of the status there is, or of none.
LEMMA StatusHeard ==
    ASSUME NEW s \in Seq(Messages), NEW e \in Messages, NEW shown, NEW initial, NEW actual,
           NEW t, t = Append(s, e),
           IsStatus(e) => e.status = actual,
           ~IsStatus(e) => LastStatus(s, shown, initial, actual)
    PROVE  LastStatus(t, shown, initial, actual)
<1>1. /\ Len(t) \in 1 .. Len(t) /\ t[Len(t)] = e
      /\ \A i \in 1 .. Len(t) : i = Len(t) \/ (i \in 1 .. Len(s) /\ t[i] = s[i])
      /\ \A i \in 1 .. Len(s) :
            /\ i \in 1 .. Len(t) /\ t[i] = s[i] /\ Len(t) \in i + 1 .. Len(t)
            /\ \A j \in i + 1 .. Len(s) : j \in i + 1 .. Len(t) /\ t[j] = s[j]
  BY OneMore
<1>2. ASSUME \A i \in 1 .. Len(t) : ~IsStatus(t[i]) PROVE initial \/ shown = actual
  <2>1. ~IsStatus(e) /\ \A i \in 1 .. Len(s) : ~IsStatus(s[i])
    BY <1>1, <1>2
  <2> QED
    BY <2>1 DEF LastStatus
<1>3. ASSUME NEW i \in 1 .. Len(t), IsStatus(t[i]), \A j \in i + 1 .. Len(t) : ~IsStatus(t[j])
      PROVE  t[i].status = actual
  <2>1. CASE IsStatus(e)
    <3>1. ASSUME i # Len(t) PROVE FALSE
      <4>1. Len(t) \in i + 1 .. Len(t)
        BY <1>1, <3>1
      <4> QED
        BY <1>1, <1>3, <2>1, <4>1
    <3> QED
      BY <1>1, <2>1, <3>1
  <2>2. CASE ~IsStatus(e)
    <3>1. i \in 1 .. Len(s) /\ t[i] = s[i]
      BY <1>1, <1>3, <2>2
    <3>2. \A j \in i + 1 .. Len(s) : ~IsStatus(s[j])
      BY <1>1, <1>3, <3>1
    <3> QED
      BY <1>3, <2>2, <3>1, <3>2 DEF LastStatus
  <2> QED
    BY <2>1, <2>2
<1> QED
  BY <1>2, <1>3 DEF LastStatus

\* The page reads a message: one that matters has overtaken none, or decides.
LEMMA AutoRead ==
    ASSUME ListsOK, AutoInv, PageReads PROVE AutoInv'
<1> SUFFICES ASSUME "check" \notin overtaken'
             PROVE  StartedNow(toPage, startCheckAutomaticallySucceeded, startedAt, version)'
  BY DEF AutoInv
<1>1. PICK i \in DOMAIN toPage :
        /\ toPage' = RemoveAt(toPage, i)
        /\ overtaken' = overtaken \cup UNION {Overtakes(toPage[j], toPage[i]) : j \in 1 .. i - 1}
        /\ \/ startCheckAutomaticallySucceeded' = FALSE
           \/ /\ toPage[i].kind = "started"
              /\ startCheckAutomaticallySucceeded' =
                    (startCheckAutomaticallySucceeded \/ toPage[i].success)
           \/ (IsStatus(toPage[i]) \/ toPage[i].kind = "insecure")
                /\ UNCHANGED startCheckAutomaticallySucceeded
  BY DEF PageReads, setSavedPasswordsListener
<1>a. startCheckAutomaticallySucceeded' =>
         /\ toPage[i].kind # "saved"
         /\ \/ startCheckAutomaticallySucceeded
            \/ toPage[i].kind = "started" /\ toPage[i].success
  BY <1>1 DEF IsStatus
<1>2. Len(toPage) \in Nat /\ i \in 1 .. Len(toPage) /\ LessOne(toPage, i, toPage')
  <2>1. toPage \in Seq(Messages)
    BY DEF ListsOK
  <2> QED
    BY <1>1, <2>1, RemovedAt
<1>3. /\ "check" \notin overtaken
      /\ \A j \in 1 .. i - 1 : ~(toPage[j].kind = "started" /\ toPage[i].kind = "saved")
  <2>1. ASSUME NEW j \in 1 .. i - 1, toPage[j].kind = "started", toPage[i].kind = "saved"
        PROVE  "check" \in overtaken'
    <3>1. "check" \in Overtakes(toPage[j], toPage[i])
      BY <2>1 DEF Overtakes
    <3> QED
      BY <1>1, <3>1
  <2> QED
    BY <1>1, <2>1
<1>4. StartedNow(toPage, startCheckAutomaticallySucceeded, startedAt, version)
      /\ UNCHANGED <<startedAt, version>>
  BY <1>3 DEF AutoInv, PageReads, browserVars
<1>5. ASSUME startCheckAutomaticallySucceeded',
             \A k \in 1 .. Len(toPage') : toPage'[k].kind # "saved"
      PROVE  startedAt = version
  <2>1. ASSUME NEW n \in 1 .. Len(toPage), n # i PROVE toPage[n].kind # "saved"
    <3>1. PICK l \in 1 .. Len(toPage') : toPage'[l] = toPage[n]
      BY <1>2, <2>1 DEF LessOne
    <3> QED
      BY <1>5, <3>1
  <2>2. \A n \in 1 .. Len(toPage) : toPage[n].kind # "saved"
    BY <1>a, <1>5, <2>1
  <2>3. \A j \in i + 1 .. Len(toPage) : toPage[j].kind # "saved"
    BY <1>2, <2>2
  <2> QED
    BY <1>a, <1>2, <1>4, <1>5, <2>2, <2>3 DEF StartedNow
<1>6. ASSUME NEW k \in 1 .. Len(toPage'), toPage'[k].kind = "started", toPage'[k].success,
             \A j \in k + 1 .. Len(toPage') : toPage'[j].kind # "saved"
      PROVE  startedAt = version
  <2>1. PICK m \in 1 .. Len(toPage) :
            /\ m # i /\ toPage'[k] = toPage[m]
            /\ \A n \in m + 1 .. Len(toPage) :
                  n # i => \E l \in k + 1 .. Len(toPage') : toPage'[l] = toPage[n]
    BY <1>2 DEF LessOne
  <2>2. \A n \in m + 1 .. Len(toPage) : n # i => toPage[n].kind # "saved"
    BY <1>6, <2>1
  <2>3. i \in m + 1 .. Len(toPage) => m \in 1 .. i - 1
    BY <1>2
  <2>4. \A n \in m + 1 .. Len(toPage) : toPage[n].kind # "saved"
    BY <1>3, <1>6, <2>1, <2>2, <2>3
  <2> QED
    BY <1>4, <1>6, <2>1, <2>4 DEF StartedNow
<1> QED
  BY <1>4, <1>5, <1>6 DEF StartedNow

LEMMA ShownRead ==
    ASSUME ListsOK, ShownInv, PageReads PROVE ShownInv'
<1> SUFFICES ASSUME "status" \notin overtaken'
             PROVE  LastStatus(toPage, status, isInitialStatus, check)'
  BY DEF ShownInv
<1>1. PICK i \in DOMAIN toPage :
        /\ toPage' = RemoveAt(toPage, i)
        /\ overtaken' = overtaken \cup UNION {Overtakes(toPage[j], toPage[i]) : j \in 1 .. i - 1}
        /\ \/ ~IsStatus(toPage[i]) /\ UNCHANGED <<status, isInitialStatus>>
           \/ IsStatus(toPage[i]) /\ status' = toPage[i].status
  BY DEF PageReads, shownVars, IsStatus
<1>2. Len(toPage) \in Nat /\ i \in 1 .. Len(toPage) /\ LessOne(toPage, i, toPage')
  <2>1. toPage \in Seq(Messages)
    BY DEF ListsOK
  <2> QED
    BY <1>1, <2>1, RemovedAt
<1>3. /\ "status" \notin overtaken
      /\ \A j \in 1 .. i - 1 : ~(IsStatus(toPage[j]) /\ IsStatus(toPage[i]))
  <2>1. ASSUME NEW j \in 1 .. i - 1, IsStatus(toPage[j]), IsStatus(toPage[i])
        PROVE  "status" \in overtaken'
    <3>1. "status" \in Overtakes(toPage[j], toPage[i])
      BY <2>1 DEF Overtakes
    <3> QED
      BY <1>1, <3>1
  <2> QED
    BY <1>1, <2>1
<1>4. LastStatus(toPage, status, isInitialStatus, check) /\ UNCHANGED check
  BY <1>3 DEF ShownInv, PageReads, browserVars
<1>5. ASSUME \A k \in 1 .. Len(toPage') : ~IsStatus(toPage'[k])
      PROVE  isInitialStatus' \/ status' = check
  <2>1. ASSUME NEW n \in 1 .. Len(toPage), n # i PROVE ~IsStatus(toPage[n])
    <3>1. PICK l \in 1 .. Len(toPage') : toPage'[l] = toPage[n]
      BY <1>2, <2>1 DEF LessOne
    <3> QED
      BY <1>5, <3>1
  <2>2. CASE IsStatus(toPage[i])
    <3>1. \A j \in i + 1 .. Len(toPage) : ~IsStatus(toPage[j])
      BY <1>2, <2>1
    <3>2. toPage[i].status = check
      BY <1>2, <1>4, <2>2, <3>1 DEF LastStatus
    <3> QED
      BY <1>1, <2>2, <3>2
  <2>3. CASE ~IsStatus(toPage[i])
    <3>1. \A n \in 1 .. Len(toPage) : ~IsStatus(toPage[n])
      BY <2>1, <2>3
    <3>2. isInitialStatus \/ status = check
      BY <1>4, <3>1 DEF LastStatus
    <3> QED
      BY <1>1, <2>3, <3>2
  <2> QED
    BY <2>2, <2>3
<1>6. ASSUME NEW k \in 1 .. Len(toPage'), IsStatus(toPage'[k]),
             \A j \in k + 1 .. Len(toPage') : ~IsStatus(toPage'[j])
      PROVE  toPage'[k].status = check
  <2>1. PICK m \in 1 .. Len(toPage) :
            /\ m # i /\ toPage'[k] = toPage[m]
            /\ \A n \in m + 1 .. Len(toPage) :
                  n # i => \E l \in k + 1 .. Len(toPage') : toPage'[l] = toPage[n]
    BY <1>2 DEF LessOne
  <2>2. \A n \in m + 1 .. Len(toPage) : n # i => ~IsStatus(toPage[n])
    BY <1>6, <2>1
  <2>3. i \in m + 1 .. Len(toPage) => m \in 1 .. i - 1
    BY <1>2
  <2>4. \A n \in m + 1 .. Len(toPage) : ~IsStatus(toPage[n])
    BY <1>3, <1>6, <2>1, <2>2, <2>3
  <2> QED
    BY <1>4, <1>6, <2>1, <2>4 DEF LastStatus
<1> QED
  BY <1>4, <1>5, <1>6 DEF LastStatus

LEMMA PairOf ==
    ASSUME NEW S, NEW x \in S, NEW y \in S PROVE <<x, y>> = <<x>> \o <<y>>
<1>1. <<x>> \in Seq(S) /\ <<y>> \in Seq(S) /\ <<x, y>> \in Seq(S)
  OBVIOUS
<1>2. /\ Len(<<x>>) = 1 /\ Len(<<y>>) = 1 /\ Len(<<x, y>>) = 2
      /\ <<x>>[1] = x /\ <<y>>[1] = y /\ <<x, y>>[1] = x /\ <<x, y>>[2] = y
  OBVIOUS
<1>3. /\ <<x>> \o <<y>> \in Seq(S) /\ Len(<<x>> \o <<y>>) = 2
      /\ (<<x>> \o <<y>>)[1] = x /\ (<<x>> \o <<y>>)[2] = y
  BY <1>1, <1>2, ConcatProperties
<1> DEFINE p == <<x>> \o <<y>>
           q == <<x, y>>
<1> HIDE DEF p, q
<1>4. /\ Len(p) = 2 /\ Len(q) = 2 /\ p[1] = q[1] /\ p[2] = q[2]
      /\ p \in Seq(S) /\ q \in Seq(S)
  BY <1>1, <1>2, <1>3 DEF p, q
<1>5. \A i \in 1 .. Len(q) : q[i] = p[i]
  <2>1. \A i \in 1 .. 2 : i = 1 \/ i = 2
    OBVIOUS
  <2> QED
    BY <1>4, <2>1
<1>6. p = q
  BY <1>4, <1>5, SeqEqual
<1> QED
  BY <1>6 DEF p, q

\* The browser says something of the check or of the passwords: one message or two are appended.
LEMMA AppendsOf ==
    ASSUME NEW s \in Seq(Messages)
    PROVE  /\ s \o <<>> = s
           /\ \A a \in Messages : s \o <<a>> = Append(s, a) /\ Append(s, a) \in Seq(Messages)
           /\ \A a, b \in Messages : s \o <<a, b>> = Append(Append(s, a), b)
<1>1. ASSUME NEW a \in Messages PROVE s \o <<a>> = Append(s, a) /\ Append(s, a) \in Seq(Messages)
  BY AppendIsConcat, AppendProperties
<1>2. ASSUME NEW a \in Messages, NEW b \in Messages PROVE s \o <<a, b>> = Append(Append(s, a), b)
  <2>1. <<a>> \in Seq(Messages) /\ <<b>> \in Seq(Messages) /\ <<a, b>> = <<a>> \o <<b>>
    BY PairOf
  <2>2. s \o (<<a>> \o <<b>>) = (s \o <<a>>) \o <<b>>
    BY <2>1, ConcatAssociative
  <2>3. Append(s, a) \o <<b>> = Append(Append(s, a), b)
    BY <1>1, AppendIsConcat
  <2> QED
    BY <1>1, <2>1, <2>2, <2>3
<1> QED
  BY <1>1, <1>2, ConcatEmptySeq

\* One message alone.
LEMMA OneAppended ==
    ASSUME AutoInv, ShownInv, toPage \in Seq(Messages),
           NEW e \in Messages, toPage' = Append(toPage, e),
           e.kind # "started" \/ ~e.success,
           IF IsStatus(e) THEN e.status = check' ELSE check' = check,
           UNCHANGED <<startCheckAutomaticallySucceeded, startedAt, status, isInitialStatus, overtaken>>,
           version' = version \/ e.kind = "saved"
    PROVE  AutoInv' /\ ShownInv'
<1>1. PICK t, c, v : t = toPage' /\ c = check' /\ v = version'
  OBVIOUS
<1>2. ASSUME "check" \notin overtaken
      PROVE  StartedNow(t, startCheckAutomaticallySucceeded, startedAt, v)
  <2>1. \/ e.kind = "saved"
        \/ /\ StartedNow(toPage, startCheckAutomaticallySucceeded, startedAt, v)
           /\ ~(e.kind = "started" /\ e.success)
    BY <1>1, <1>2 DEF AutoInv
  <2> QED
    BY <1>1, <2>1, AutoHeard
<1>3. ASSUME "status" \notin overtaken
      PROVE  LastStatus(t, status, isInitialStatus, c)
  <2>1. /\ IsStatus(e) => e.status = c
        /\ ~IsStatus(e) => LastStatus(toPage, status, isInitialStatus, c)
    BY <1>1, <1>3 DEF ShownInv
  <2> QED
    BY <1>1, <2>1, StatusHeard
<1> QED
  BY <1>1, <1>2, <1>3 DEF AutoInv, ShownInv

LEMMA StatusStep ==
    ASSUME ListsOK, AutoInv, ShownInv, [CheckNext]_checkVars PROVE AutoInv' /\ ShownInv'
<1>0. toPage \in Seq(Messages) /\ check \in Status /\ check' \in Status /\ insecure' \in SUBSET Passwords
  <2>1. ListsOK'
    BY ListsStep
  <2> QED
    BY <2>1 DEF ListsOK
<1>1. CASE UNCHANGED <<toPage, startCheckAutomaticallySucceeded, startedAt, version, check, statusVars>>
  BY <1>1 DEF AutoInv, ShownInv, statusVars, shownVars
<1>2. CASE BrowserStarts
  <2> DEFINE auto == Head(toBrowser).kind = "autostart"
             m(b) == [kind |-> "started", success |-> b]
  <2>1. PICK success \in BOOLEAN :
          /\ check' = IF success THEN [check EXCEPT !.state = "RUNNING"] ELSE check
          /\ startedAt' = IF success THEN version ELSE startedAt
          /\ toPage' = (toPage \o (IF success THEN <<StatusEvent([check EXCEPT !.state = "RUNNING"])>>
                                              ELSE <<>>)) \o (IF auto THEN <<m(success)>> ELSE <<>>)
    BY <1>2 DEF BrowserStarts
  <2>2. UNCHANGED <<version, startCheckAutomaticallySucceeded, status, isInitialStatus, overtaken>>
    BY <1>2 DEF BrowserStarts, statusVars, shownVars
  <2>3. \A b \in BOOLEAN : m(b) \in Messages /\ m(b).kind = "started" /\ m(b).success = b
                          /\ ~IsStatus(m(b))
    BY MessagesToPage DEF IsStatus
  <2> HIDE DEF auto, m
  <2>4. CASE success
    <3>1. AutoInv'
      BY <2>1, <2>2, <2>4 DEF AutoInv, StartedNow
    <3> DEFINE e == StatusEvent(check')
               s == Append(toPage, e)
    <3>2. e \in Messages /\ IsStatus(e) /\ e.status = check'
      BY <1>0, MessagesToPage DEF StatusEvent, IsStatus
    <3>3. toPage' = (toPage \o <<e>>) \o (IF auto THEN <<m(success)>> ELSE <<>>)
      BY <2>1, <2>4
    <3> HIDE DEF e
    <3>4. s = toPage \o <<e>> /\ s \in Seq(Messages)
      BY <1>0, <3>2, AppendsOf
    <3>a. PICK c : c = check'
      OBVIOUS
    <3>5. LastStatus(s, status, isInitialStatus, c)
      <4>1. (IsStatus(e) => e.status = c)
            /\ (~IsStatus(e) => LastStatus(toPage, status, isInitialStatus, c))
        BY <3>2, <3>a
      <4> QED
        BY <1>0, <3>2, <4>1, StatusHeard
    <3>6. toPage' = s \/ toPage' = Append(s, m(success))
      BY <2>3, <3>3, <3>4, AppendsOf
    <3> HIDE DEF s
    <3>7. LastStatus(Append(s, m(success)), status, isInitialStatus, c)
      <4>1. m(success) \in Messages /\ ~IsStatus(m(success))
        BY <2>3
      <4> QED
        BY <3>4, <3>5, <4>1, StatusHeard
    <3>8. ShownInv'
      BY <2>2, <3>5, <3>6, <3>7, <3>a DEF ShownInv
    <3> QED
      BY <3>1, <3>8
  <2>5. CASE ~success /\ auto
    <3>1. m(FALSE) \in Messages /\ m(FALSE).success = FALSE /\ ~IsStatus(m(FALSE)) /\ success = FALSE
      BY <2>3, <2>5
    <3>2. toPage' = (toPage \o <<>>) \o <<m(FALSE)>>
      BY <2>1, <2>5, <3>1
    <3>3. toPage' = Append(toPage, m(FALSE))
      BY <1>0, <3>1, <3>2, AppendsOf
    <3>4. UNCHANGED <<startedAt, check>>
      BY <2>1, <2>5
    <3> QED
      BY <1>0, <2>2, <3>1, <3>3, <3>4, OneAppended
  <2>6. CASE ~success /\ ~auto
    <3>1. toPage' = (toPage \o <<>>) \o <<>> /\ UNCHANGED <<startedAt, check>>
      BY <2>1, <2>6
    <3>2. toPage' = toPage
      BY <1>0, <3>1, AppendsOf
    <3> QED
      BY <2>2, <3>1, <3>2 DEF AutoInv, ShownInv
  <2> QED
    BY <2>4, <2>5, <2>6
<1>3. CASE BrowserStops \/ BrowserReports \/ CheckEnds
  <2>1. /\ UNCHANGED <<startCheckAutomaticallySucceeded, startedAt, version, status, isInitialStatus,
                       overtaken>>
        /\ \E k \in {"status", "first", "answer"} :
              toPage' = Append(toPage, [kind |-> k, status |-> check'])
    BY <1>3 DEF BrowserStops, BrowserReports, CheckEnds, StatusEvent, browserVars, statusVars, shownVars
  <2>2. PICK k \in {"status", "first", "answer"} :
              toPage' = Append(toPage, [kind |-> k, status |-> check'])
    BY <2>1
  <2> DEFINE e == [kind |-> k, status |-> check']
  <2>3. e \in Messages /\ IsStatus(e) /\ e.status = check' /\ e.kind # "started"
    BY <1>0, MessagesToPage DEF IsStatus, StatusEvent
  <2> HIDE DEF e
  <2>4. toPage' = Append(toPage, e)
    BY <2>2 DEF e
  <2> QED
    BY <1>0, <2>1, <2>3, <2>4, OneAppended
<1>4. CASE BrowserRemoves \/ PasswordsChange
  <2> DEFINE a == SavedEvent
             b == InsecureEvent(insecure')
             s == Append(toPage, a)
  <2>1. /\ a \in Messages /\ a.kind = "saved" /\ ~IsStatus(a)
        /\ b \in Messages /\ b.kind = "insecure" /\ ~IsStatus(b)
    BY <1>0, MessagesToPage DEF SavedEvent, InsecureEvent, IsStatus
  <2>2. /\ toPage' = toPage \o <<a, b>>
        /\ UNCHANGED <<check, startCheckAutomaticallySucceeded, startedAt, status, isInitialStatus,
                       overtaken>>
    BY <1>4 DEF BrowserRemoves, PasswordsChange, statusVars, shownVars
  <2> HIDE DEF a, b
  <2>3. PICK t, u, v : t = toPage' /\ u = b /\ v = version'
    OBVIOUS
  <2>4. t = Append(s, u) /\ u \in Messages /\ u.kind = "insecure" /\ ~IsStatus(u)
        /\ s \in Seq(Messages)
    BY <1>0, <2>1, <2>2, <2>3, AppendsOf
  <2>5. StartedNow(t, startCheckAutomaticallySucceeded, startedAt, v)
    <3>1. StartedNow(s, startCheckAutomaticallySucceeded, startedAt, v)
      BY <1>0, <2>1, AutoHeard
    <3> HIDE DEF s
    <3> QED
      BY <2>4, <3>1, AutoHeard
  <2>6. ASSUME "status" \notin overtaken PROVE LastStatus(t, status, isInitialStatus, check)
    <3>1. LastStatus(toPage, status, isInitialStatus, check)
      BY <2>6 DEF ShownInv
    <3>2. LastStatus(s, status, isInitialStatus, check)
      BY <1>0, <2>1, <3>1, StatusHeard
    <3> HIDE DEF s
    <3> QED
      BY <2>4, <3>2, StatusHeard
  <2> QED
    BY <2>2, <2>3, <2>5, <2>6 DEF AutoInv, ShownInv
<1> QED
  BY <1>1, <1>2, <1>3, <1>4, AutoRead, ShownRead
     DEF CheckNext, Answers, Menu, Dialog, currentRouteChanged, onPasswordCheckButtonClick_,
         onMoreActionsClick_, MenuDismissed, onMenuShowPasswordClick_, onEditPasswordClick_,
         onMenuRemovePasswordClick_, EditAnswered, EditRefused, onAlreadyChangedClick_,
         DialogClosed, elsewhereVars, browserVars, checkVars

\* The two pages agree on the account, whatever it is.
LEMMA AgreedInvariantly ==
    ASSUME SectionOK PROVE PagesAgree
<1>1. /\ account_.stored \in BOOLEAN
      /\ account_.syncStatus # Undefined =>
            /\ account_.syncStatus.signedIn \in BOOLEAN /\ account_.syncStatus.hasError \in BOOLEAN
  BY DEF SectionOK, Sync
<1>2. computeSignedIn_ = ~computeIsSignedOut_
  BY <1>1 DEF computeSignedIn_, computeIsSignedOut_
<1>3. SyncIs(FALSE) => ~SyncIs(TRUE)
  BY <1>1 DEF SyncIs
<1> QED
  BY <1>2, <1>3 DEF PagesAgree, computeEligibleForAccountStorage_, computeIsSyncingPasswords_,
     computeCanUsePasswordCheckup_, computeHidePasswordsLink_, computeShouldShowStorageDetails_

\* A count of no passwords is under the title that says they were checked.
LEMMA CountAgreesWithTitle == CountOnlyAfterCheck
<1>1. CASE hasInsecureCredentials_
  BY <1>1 DEF CountOnlyAfterCheck
<1>2. CASE status.state = "IDLE" /\ ~waitsForFirstCheck_
  BY <1>2 DEF CountOnlyAfterCheck, computeTitle_
<1>3. CASE status.state = "SIGNED_OUT"
  BY <1>3 DEF CountOnlyAfterCheck, computeTitle_
<1> QED
  BY <1>1, <1>2, <1>3 DEF CountOnlyAfterCheck, showsPasswordsCount_

StatusInv == ListsOK /\ AutoInv /\ ShownInv /\ SectionInv

\* The pages that have read what they were told think of the check, its status, the opt-in and the
\* account what the browser does, for any passwords, sites, clicks and changes, unless an answer and
\* an event about the same have overtaken each other (startCheckAutomaticallySucceeded, status,
\* setIsOptedInForAccountStorageListener, computeSignedIn_, computeIsSignedOut_).
THEOREM StatusStaysCurrent == Spec => []StatusIsCurrent
<1>1. Init => StatusInv
  <2> SUFFICES ASSUME Init PROVE StatusInv
    OBVIOUS
  <2>1. ListsOK /\ SectionInv
    BY InitIInv, InitSectionInv DEF IInv
  <2>2. /\ Len(toPage) = 1 /\ toPage[1].kind = "insecure"
        /\ startedAt = version /\ isInitialStatus
    BY DEF Init, CheckInit
  <2>3. AutoInv
    BY <2>2 DEF AutoInv, StartedNow
  <2>4. ~IsStatus(toPage[1])
    BY <2>2 DEF IsStatus
  <2>5. ShownInv
    BY <2>2, <2>4 DEF ShownInv, LastStatus
  <2> QED
    BY <2>1, <2>3, <2>5 DEF StatusInv
<1>2. StatusInv /\ [Next]_vars => StatusInv'
  <2> SUFFICES ASSUME StatusInv, [Next]_vars PROVE StatusInv'
    OBVIOUS
  <2>1. SectionInv'
    BY NextSectionInv DEF StatusInv
  <2>2. CASE [CheckNext]_checkVars
    BY <2>1, <2>2, ListsStep, StatusStep DEF StatusInv
  <2>3. CASE UNCHANGED checkOnly
    <3>1. UNCHANGED <<insecure, check, toPage, insecurePasswords, startedAt, version,
                      startCheckAutomaticallySucceeded, status, isInitialStatus, overtaken>>
      BY <2>3 DEF checkOnly, browserVars, statusVars, shownVars
    <3> QED
      BY <2>1, <3>1 DEF StatusInv, ListsOK, AutoInv, ShownInv
  <2> QED
    BY <2>2, <2>3 DEF Next, vars
<1>3. StatusInv => StatusIsCurrent
  <2> SUFFICES ASSUME StatusInv PROVE StatusIsCurrent
    OBVIOUS
  <2>1. DOMAIN toPage = 1 .. Len(toPage) /\ DOMAIN events = 1 .. Len(events)
    BY LenProperties DEF StatusInv, ListsOK, SectionInv, SectionOK
  <2>2. AutoCheckIsCurrent
    BY <2>1 DEF StatusInv, AutoInv, StartedNow, AutoCheckIsCurrent
  <2>3. ShownIsCurrent
    BY <2>1 DEF StatusInv, ShownInv, LastStatus, ShownIsCurrent
  <2>4. OptInIsCurrent
    BY <2>1 DEF StatusInv, SectionInv, OptInv, LastOpted, OptInIsCurrent
  <2>5. PagesAgree
    BY AgreedInvariantly DEF StatusInv, SectionInv
  <2> QED
    BY <2>2, <2>3, <2>4, <2>5, CountAgreesWithTitle DEF StatusIsCurrent
<1> QED
  BY <1>1, <1>2, <1>3, PTL DEF Spec

-----------------------------------------------------------------------------
(* The shortcuts: lists without a URL twice.                               *)

LEMMA MinOfTwo == ASSUME NEW a \in Int, NEW b \in Int PROVE Min({a, b}) = IF a <= b THEN a ELSE b
BY DEF Min

\* The least of some numbers is one of them.
LEMMA MinOfMarked == ASSUME NEW S \in SUBSET Nat, S # {} PROVE Min(S) \in S
<1>1. PICK n \in S : \A m \in S : ~(<<m, n>> \in OpToRel(<, Nat))
  BY NatLessThanWellFounded, WFMin
<1>2. ASSUME NEW m \in S PROVE n <= m
  <2>1. <<m, n>> \in Nat \X Nat /\ <<m, n>>[1] = m /\ <<m, n>>[2] = n
    OBVIOUS
  <2>2. <<m, n>>[1] < <<m, n>>[2] => <<m, n>> \in OpToRel(<, Nat)
    BY <2>1, Zenon DEF OpToRel
  <2>3. ~(m < n)
    BY <1>1, <2>1, <2>2
  <2> QED
    BY <2>3
<1> QED
  BY <1>2 DEF Min

\* A list is a sequence that has no URL twice; its length needs no mention.
LEMMA ListsAre == Lists = {s \in Seq(Urls) : IsInjective(s)}
<1>1. ASSUME NEW s \in Lists PROVE s \in Seq(Urls) /\ IsInjective(s)
  BY <1>1 DEF Lists, BoundedSeq, SeqOf
<1>2. ASSUME NEW s \in Seq(Urls), IsInjective(s) PROVE s \in Lists
  <2>1. Len(s) \in Nat /\ s \in [1 .. Len(s) -> Urls] /\ DOMAIN s = 1 .. Len(s)
    BY LenProperties
  <2>2. Len(s) <= Cardinality(Urls)
    <3>1. \A i, j \in 1 .. Len(s) : s[i] = s[j] => i = j
      BY <1>2, <2>1 DEF IsInjective
    <3>2. s \in Injection(1 .. Len(s), Urls)
      BY <2>1, <3>1 DEF Injection, IsInjective
    <3>3. IsFiniteSet(1 .. Len(s)) /\ Cardinality(1 .. Len(s)) = Len(s)
      BY <2>1, FS_Interval
    <3> QED
      BY <3>2, <3>3, FS_Injection, TilesAssumption
  <2>3. Cardinality(Urls) \in Nat
    BY FS_CardinalityType, TilesAssumption
  <2> QED
    BY <1>2, <2>1, <2>2, <2>3 DEF Lists, BoundedSeq, SeqOf
<1> QED
  BY <1>1, <1>2

\* The same, element by element.
LEMMA ListIs ==
    ASSUME NEW s \in Seq(Urls), \A i, j \in 1 .. Len(s) : s[i] = s[j] => i = j
    PROVE  s \in Lists
<1>1. DOMAIN s = 1 .. Len(s)
  BY LenProperties
<1>2. IsInjective(s)
  BY <1>1 DEF IsInjective
<1> QED
  BY <1>2, ListsAre

LEMMA OfList ==
    ASSUME NEW s \in Lists
    PROVE  /\ s \in Seq(Urls) /\ Len(s) \in Nat /\ DOMAIN s = 1 .. Len(s)
           /\ \A i \in 1 .. Len(s) : s[i] \in Urls
           /\ \A i, j \in 1 .. Len(s) : s[i] = s[j] => i = j
           /\ \A url : url \in Range(s) <=> \E i \in 1 .. Len(s) : s[i] = url
<1>1. s \in Seq(Urls) /\ IsInjective(s)
  BY ListsAre
<1>2. Len(s) \in Nat /\ DOMAIN s = 1 .. Len(s) /\ \A i \in 1 .. Len(s) : s[i] \in Urls
  BY <1>1, LenProperties, ElementOfSeq
<1>3. \A i, j \in 1 .. Len(s) : s[i] = s[j] => i = j
  BY <1>1, <1>2 DEF IsInjective
<1>4. \A url : url \in Range(s) <=> \E i \in 1 .. Len(s) : s[i] = url
  BY <1>2 DEF Range
<1> QED
  BY <1>1, <1>2, <1>3, <1>4

LEMMA MaxTiles ==
    ASSUME NEW enabled \in BOOLEAN
    PROVE  computeMaxTiles_(enabled) \in Nat \ {0} /\ computeMaxTiles_(enabled) \in Elements
BY TilesAssumption DEF computeMaxTiles_, Elements

\* What is left of a list that is cut.
LEMMA ShortenedIs ==
    ASSUME NEW s \in Lists, NEW enabled \in BOOLEAN
    PROVE  /\ Shortened(s, enabled) \in Lists
           /\ Len(Shortened(s, enabled)) <= Len(s)
           /\ \A i \in 1 .. Len(Shortened(s, enabled)) : Shortened(s, enabled)[i] = s[i]
<1> DEFINE n == Min({Len(s), computeMaxTiles_(enabled)})
           t == SubSeq(s, 1, n)
<1>1. /\ Len(s) \in Nat /\ \A i \in 1 .. Len(s) : s[i] \in Urls
      /\ \A i, j \in 1 .. Len(s) : s[i] = s[j] => i = j
  BY OfList
<1>2. n \in Nat /\ n <= Len(s)
  <2>1. computeMaxTiles_(enabled) \in Nat
    BY MaxTiles
  <2> QED
    BY <1>1, <2>1, MinOfTwo
<1> HIDE DEF n
<1>3. /\ t \in Seq(Urls) /\ Len(t) = n
      /\ \A i \in 1 .. n : t[i] = s[i]
  <2>1. \A i \in 1 .. n : s[i] \in Urls
    BY <1>1, <1>2
  <2>2. /\ t \in Seq(Urls) /\ Len(t) = IF 1 <= n THEN n - 1 + 1 ELSE 0
        /\ \A i \in 1 .. n - 1 + 1 : t[i] = s[1 + i - 1]
    BY <1>2, <2>1, SubSeqProperties
  <2> QED
    BY <1>2, <2>2
<1> HIDE DEF t
<1>4. t \in Lists
  <2>1. \A i, j \in 1 .. Len(t) : t[i] = t[j] => i = j
    BY <1>1, <1>2, <1>3
  <2> QED
    BY <1>3, <2>1, ListIs
<1>5. Shortened(s, enabled) = t
  BY DEF Shortened, t, n
<1> QED
  BY <1>2, <1>3, <1>4, <1>5

\* A list without one of its URLs.
LEMMA WithoutIs ==
    ASSUME NEW s \in Lists, NEW k \in 1 .. Len(s)
    PROVE  /\ Without(s, s[k]) \in Lists /\ Len(Without(s, s[k])) = Len(s) - 1
           /\ \A j \in 1 .. Len(s) - 1 : Without(s, s[k])[j] = IF j < k THEN s[j] ELSE s[j + 1]
<1> DEFINE a == SubSeq(s, 1, k - 1)
           b == SubSeq(s, k + 1, Len(s))
<1>1. /\ Len(s) \in Nat /\ \A i \in 1 .. Len(s) : s[i] \in Urls
      /\ \A i, j \in 1 .. Len(s) : s[i] = s[j] => i = j
  BY OfList
<1>2. /\ a \in Seq(Urls) /\ Len(a) = k - 1
      /\ \A i \in 1 .. k - 1 : a[i] = s[i]
  <2>1. \A i \in 1 .. k - 1 : s[i] \in Urls
    BY <1>1
  <2>2. /\ a \in Seq(Urls) /\ Len(a) = IF 1 <= k - 1 THEN k - 1 - 1 + 1 ELSE 0
        /\ \A i \in 1 .. k - 1 - 1 + 1 : a[i] = s[1 + i - 1]
    BY <1>1, <2>1, SubSeqProperties
  <2> QED
    BY <1>1, <2>2
<1>3. /\ b \in Seq(Urls) /\ Len(b) = Len(s) - k
      /\ \A i \in 1 .. Len(s) - k : b[i] = s[k + i]
  <2>1. \A i \in k + 1 .. Len(s) : s[i] \in Urls
    BY <1>1
  <2>2. /\ b \in Seq(Urls) /\ Len(b) = IF k + 1 <= Len(s) THEN Len(s) - (k + 1) + 1 ELSE 0
        /\ \A i \in 1 .. Len(s) - (k + 1) + 1 : b[i] = s[k + 1 + i - 1]
    BY <1>1, <2>1, SubSeqProperties
  <2> QED
    BY <1>1, <2>2
<1>4. Without(s, s[k]) = a \o b
  <2>1. {i \in 1 .. Len(s) : s[i] = s[k]} = {k}
    BY <1>1
  <2>2. Min({k}) = k
    BY <1>1 DEF Min
  <2>3. SelectInSeq(s, LAMBDA v : v = s[k]) = k
    BY <2>1, <2>2 DEF SelectInSeq
  <2> QED
    BY <2>3 DEF Without, RemoveFirst, RemoveAt
<1> HIDE DEF a, b
<1>5. /\ a \o b \in Seq(Urls) /\ Len(a \o b) = Len(s) - 1
      /\ \A j \in 1 .. Len(s) - 1 : (a \o b)[j] = IF j < k THEN s[j] ELSE s[j + 1]
  <2>1. /\ a \o b \in Seq(Urls) /\ Len(a \o b) = Len(a) + Len(b)
        /\ \A i \in 1 .. Len(a) + Len(b) : (a \o b)[i] = IF i <= Len(a) THEN a[i] ELSE b[i - Len(a)]
    BY <1>2, <1>3, ConcatProperties
  <2>2. Len(a) + Len(b) = Len(s) - 1
    BY <1>1, <1>2, <1>3
  <2>3. ASSUME NEW j \in 1 .. Len(s) - 1
        PROVE  (a \o b)[j] = IF j < k THEN s[j] ELSE s[j + 1]
    <3>1. (a \o b)[j] = IF j <= Len(a) THEN a[j] ELSE b[j - Len(a)]
      BY <2>1, <2>2
    <3>2. CASE j < k
      BY <1>1, <1>2, <3>1, <3>2
    <3>3. CASE j >= k
      <4>1. (a \o b)[j] = b[j - (k - 1)] /\ j - (k - 1) \in 1 .. Len(s) - k
        BY <1>1, <1>2, <3>1, <3>3
      <4>2. b[j - (k - 1)] = s[k + (j - (k - 1))] /\ k + (j - (k - 1)) = j + 1
        BY <1>3, <4>1
      <4> QED
        BY <1>1, <3>3, <4>1, <4>2
    <3>4. j < k \/ j >= k
      BY <1>1
    <3> QED
      BY <3>2, <3>3, <3>4, Zenon
  <2> QED
    BY <2>1, <2>2, <2>3
<1> DEFINE t == a \o b
<1> HIDE DEF t
<1>6. t \in Seq(Urls) /\ Len(t) = Len(s) - 1
      /\ \A j \in 1 .. Len(s) - 1 : t[j] = IF j < k THEN s[j] ELSE s[j + 1]
  BY <1>5 DEF t
<1>7. \A i, j \in 1 .. Len(t) : t[i] = t[j] => i = j
  BY <1>1, <1>6
<1>8. t \in Lists
  BY <1>6, <1>7, ListIs
<1> QED
  BY <1>4, <1>6, <1>8 DEF t

\* A sequence with an element put in.
LEMMA InsertedIs ==
    ASSUME NEW s \in Seq(Urls), NEW e \in Urls, NEW p \in 1 .. Len(s) + 1
    PROVE  /\ InsertAt(s, p, e) \in Seq(Urls) /\ Len(InsertAt(s, p, e)) = Len(s) + 1
           /\ \A j \in 1 .. Len(s) + 1 : InsertAt(s, p, e)[j] =
                 IF j < p THEN s[j] ELSE IF j = p THEN e ELSE s[j - 1]
<1> DEFINE a == SubSeq(s, 1, p - 1)
           b == SubSeq(s, p, Len(s))
           c == <<e>>
<1>1. Len(s) \in Nat /\ \A i \in 1 .. Len(s) : s[i] \in Urls
  BY LenProperties, ElementOfSeq
<1>2. a \in Seq(Urls) /\ Len(a) = p - 1 /\ \A i \in 1 .. p - 1 : a[i] = s[i]
  <2>1. \A i \in 1 .. p - 1 : s[i] \in Urls
    BY <1>1
  <2>2. /\ a \in Seq(Urls) /\ Len(a) = IF 1 <= p - 1 THEN p - 1 - 1 + 1 ELSE 0
        /\ \A i \in 1 .. p - 1 - 1 + 1 : a[i] = s[1 + i - 1]
    BY <1>1, <2>1, SubSeqProperties
  <2> QED
    BY <1>1, <2>2
<1>3. /\ b \in Seq(Urls) /\ Len(b) = Len(s) - p + 1
      /\ \A i \in 1 .. Len(s) - p + 1 : b[i] = s[p + i - 1]
  <2>1. \A i \in p .. Len(s) : s[i] \in Urls
    BY <1>1
  <2>2. /\ b \in Seq(Urls) /\ Len(b) = IF p <= Len(s) THEN Len(s) - p + 1 ELSE 0
        /\ \A i \in 1 .. Len(s) - p + 1 : b[i] = s[p + i - 1]
    BY <1>1, <2>1, SubSeqProperties
  <2> QED
    BY <1>1, <2>2
<1>4. c \in Seq(Urls) /\ Len(c) = 1 /\ c[1] = e
  OBVIOUS
<1>5. InsertAt(s, p, e) = a \o c \o b
  BY DEF InsertAt
<1> HIDE DEF a, b, c
<1> DEFINE d == a \o c
<1>6. d \in Seq(Urls) /\ Len(d) = p /\ \A i \in 1 .. p : d[i] = IF i < p THEN s[i] ELSE e
  <2>1. /\ d \in Seq(Urls) /\ Len(d) = Len(a) + Len(c)
        /\ \A i \in 1 .. Len(a) + Len(c) : d[i] = IF i <= Len(a) THEN a[i] ELSE c[i - Len(a)]
    BY <1>2, <1>4, ConcatProperties
  <2>2. Len(a) + Len(c) = p
    BY <1>1, <1>2, <1>4
  <2>3. ASSUME NEW i \in 1 .. p PROVE d[i] = IF i < p THEN s[i] ELSE e
    <3>1. d[i] = IF i <= p - 1 THEN a[i] ELSE c[i - (p - 1)]
      BY <1>2, <2>1, <2>2
    <3>2. CASE i < p
      BY <1>1, <1>2, <3>1, <3>2
    <3>3. CASE i = p
      BY <1>1, <1>4, <3>1, <3>3
    <3>4. i < p \/ i = p
      BY <1>1
    <3> QED
      BY <3>2, <3>3, <3>4, Zenon
  <2> QED
    BY <2>1, <2>2, <2>3
<1> HIDE DEF d
<1> DEFINE t == d \o b
<1>7. t \in Seq(Urls) /\ Len(t) = Len(s) + 1
      /\ \A j \in 1 .. Len(s) + 1 : t[j] = IF j < p THEN s[j] ELSE IF j = p THEN e ELSE s[j - 1]
  <2>1. /\ t \in Seq(Urls) /\ Len(t) = Len(d) + Len(b)
        /\ \A i \in 1 .. Len(d) + Len(b) : t[i] = IF i <= Len(d) THEN d[i] ELSE b[i - Len(d)]
    BY <1>3, <1>6, ConcatProperties
  <2>2. Len(d) + Len(b) = Len(s) + 1
    BY <1>1, <1>3, <1>6
  <2> HIDE DEF t
  <2>3. ASSUME NEW j \in 1 .. Len(s) + 1
        PROVE  t[j] = IF j < p THEN s[j] ELSE IF j = p THEN e ELSE s[j - 1]
    <3>1. t[j] = IF j <= p THEN d[j] ELSE b[j - p]
      BY <1>6, <2>1, <2>2
    <3>2. CASE j <= p
      BY <1>1, <1>6, <3>1, <3>2
    <3>3. CASE j > p
      <4>1. t[j] = b[j - p] /\ j - p \in 1 .. Len(s) - p + 1 /\ p + (j - p) - 1 = j - 1
        BY <1>1, <3>1, <3>3
      <4>2. t[j] = s[j - 1]
        BY <1>3, <4>1
      <4> QED
        BY <1>1, <3>3, <4>2
    <3>4. j <= p \/ j > p
      BY <1>1
    <3> QED
      BY <3>2, <3>3, <3>4, Zenon
  <2> QED
    BY <2>1, <2>2, <2>3
<1> QED
  BY <1>5, <1>7 DEF t, d

\* A list with one URL moved: a list as long, another one when the place is another.
LEMMA MovedIs ==
    ASSUME NEW s \in Lists, NEW k \in 1 .. Len(s), NEW at \in Nat \ {0}
    PROVE  /\ Moved(s, s[k], at) \in Lists /\ Len(Moved(s, s[k], at)) = Len(s)
           /\ at \in 1 .. Len(s) /\ at # k => Moved(s, s[k], at) # s
<1> DEFINE rest == Without(s, s[k])
           p    == Min({at, Len(rest) + 1})
           t    == InsertAt(rest, p, s[k])
<1>1. /\ Len(s) \in Nat /\ \A i \in 1 .. Len(s) : s[i] \in Urls
      /\ \A i, j \in 1 .. Len(s) : s[i] = s[j] => i = j
  BY OfList
<1>2. /\ rest \in Lists /\ Len(rest) = Len(s) - 1
      /\ \A j \in 1 .. Len(s) - 1 : rest[j] = IF j < k THEN s[j] ELSE s[j + 1]
  BY WithoutIs
<1>3. rest \in Seq(Urls)
  BY <1>2, OfList
<1>4. Moved(s, s[k], at) = t
  BY DEF Moved
<1> HIDE DEF rest
<1>5. p \in 1 .. Len(s) /\ (at \in 1 .. Len(s) => p = at)
  BY <1>1, <1>2, MinOfTwo
<1> HIDE DEF p
<1>6. /\ t \in Seq(Urls) /\ Len(t) = Len(s)
      /\ \A j \in 1 .. Len(s) : t[j] = IF j < p THEN rest[j] ELSE IF j = p THEN s[k] ELSE rest[j - 1]
  <2>1. p \in 1 .. Len(rest) + 1 /\ Len(rest) + 1 = Len(s) /\ s[k] \in Urls
    BY <1>1, <1>2, <1>5
  <2>2. /\ t \in Seq(Urls) /\ Len(t) = Len(rest) + 1
        /\ \A j \in 1 .. Len(rest) + 1 : t[j] =
              IF j < p THEN rest[j] ELSE IF j = p THEN s[k] ELSE rest[j - 1]
    BY <1>3, <2>1, InsertedIs
  <2> HIDE DEF t
  <2> QED
    BY <2>1, <2>2
<1> HIDE DEF t
<1> DEFINE From(j) == IF j = p THEN k ELSE IF j < p THEN (IF j < k THEN j ELSE j + 1)
                                           ELSE (IF j - 1 < k THEN j - 1 ELSE j)
<1>7. ASSUME NEW j \in 1 .. Len(s) PROVE t[j] = s[From(j)] /\ From(j) \in 1 .. Len(s)
  <2>1. CASE j = p
    BY <1>5, <1>6, <2>1
  <2>2. CASE j < p
    <3>1. j \in 1 .. Len(s) - 1
      BY <1>1, <1>5, <2>2
    <3>2. t[j] = rest[j]
      BY <1>1, <1>5, <1>6, <2>2
    <3> QED
      BY <1>1, <1>2, <1>5, <2>2, <3>1, <3>2
  <2>3. CASE j > p
    <3>1. j - 1 \in 1 .. Len(s) - 1
      BY <1>1, <1>5, <2>3
    <3>2. t[j] = rest[j - 1]
      BY <1>1, <1>5, <1>6, <2>3
    <3> QED
      BY <1>1, <1>2, <1>5, <2>3, <3>1, <3>2
  <2> QED
    BY <1>1, <1>5, <2>1, <2>2, <2>3
<1>8. ASSUME NEW i \in 1 .. Len(t), NEW j \in 1 .. Len(t), t[i] = t[j] PROVE i = j
  <2>1. i \in 1 .. Len(s) /\ j \in 1 .. Len(s)
    BY <1>6
  <2>2. From(i) = From(j)
    <3>1. t[i] = s[From(i)] /\ From(i) \in 1 .. Len(s) /\ t[j] = s[From(j)] /\ From(j) \in 1 .. Len(s)
      BY <1>7, <2>1
    <3> QED
      BY <1>1, <1>8, <3>1
  <2> QED
    BY <1>1, <1>5, <2>1, <2>2
<1>9. t \in Lists
  BY <1>6, <1>8, ListIs
<1>10. at \in 1 .. Len(s) /\ at # k => t # s
  <2>1. ASSUME at \in 1 .. Len(s), at # k PROVE t[at] # s[at]
    BY <1>1, <1>5, <1>6, <2>1
  <2> QED
    BY <2>1
<1> QED
  BY <1>4, <1>6, <1>9, <1>10

\* What each request does to a list, one by one.
LEMMA ResultCases ==
    ASSUME NEW urls, NEW enabled \in BOOLEAN, NEW request
    PROVE  \/ Result(urls, enabled, request) = urls
           \/ /\ request.kind = "delete"
              /\ Result(urls, enabled, request) = Without(urls, request.url)
           \/ /\ request.kind = "add" /\ request.url \notin Range(urls)
              /\ Result(urls, enabled, request) = Append(urls, request.url)
           \/ /\ request.kind = "update" /\ request.new \notin Range(urls) \ {request.url}
              /\ Result(urls, enabled, request) =
                    [i \in DOMAIN urls |-> IF urls[i] = request.url THEN request.new ELSE urls[i]]
           \/ /\ request.kind = "reorder" /\ request.url \in Range(urls) /\ request.at \in DOMAIN urls
              /\ Result(urls, enabled, request) = Moved(urls, request.url, request.at)
BY Zenon DEF Result

LEMMA ResultOfReorder ==
    ASSUME NEW urls, NEW request, request.kind = "reorder", request.url \in Range(urls),
           request.at \in DOMAIN urls
    PROVE  Result(urls, TRUE, request) = Moved(urls, request.url, request.at)
BY Zenon DEF Result

LEMMA ResultOfUndo ==
    ASSUME NEW urls, NEW enabled, NEW request, request.kind \in {"refresh", "undo", "restore"}
    PROVE  Result(urls, enabled, request) = urls
BY Zenon DEF Result

\* A list a URL is added to, or replaced in.
LEMMA LongerIs ==
    ASSUME NEW s \in Lists, NEW url \in Urls \ Range(s)
    PROVE  Append(s, url) \in Lists
<1>1. /\ s \in Seq(Urls) /\ Len(s) \in Nat
      /\ \A i, j \in 1 .. Len(s) : s[i] = s[j] => i = j
      /\ \A i \in 1 .. Len(s) : s[i] # url
  BY OfList
<1> DEFINE t == Append(s, url)
<1>2. /\ t \in Seq(Urls) /\ Len(t) = Len(s) + 1 /\ t[Len(s) + 1] = url
      /\ \A i \in 1 .. Len(s) : t[i] = s[i]
  BY <1>1, AppendProperties
<1> HIDE DEF t
<1>3. \A i, j \in 1 .. Len(t) : t[i] = t[j] => i = j
  BY <1>1, <1>2
<1> QED
  BY <1>2, <1>3, ListIs DEF t

LEMMA EditedIs ==
    ASSUME NEW s \in Lists, NEW old, NEW new \in Urls, new \notin Range(s) \ {old}
    PROVE  [i \in DOMAIN s |-> IF s[i] = old THEN new ELSE s[i]] \in Lists
<1>1. /\ Len(s) \in Nat /\ DOMAIN s = 1 .. Len(s) /\ \A i \in 1 .. Len(s) : s[i] \in Urls
      /\ \A i, j \in 1 .. Len(s) : s[i] = s[j] => i = j
      /\ \A i \in 1 .. Len(s) : s[i] = new => new = old
  BY OfList
<1> DEFINE t == [i \in 1 .. Len(s) |-> IF s[i] = old THEN new ELSE s[i]]
<1>2. t \in Seq(Urls) /\ Len(t) = Len(s)
  <2>1. \A i \in 1 .. Len(s) : (IF s[i] = old THEN new ELSE s[i]) \in Urls
    BY <1>1
  <2> QED
    BY <1>1, <2>1
<1>3. \A i \in 1 .. Len(s) : t[i] = IF s[i] = old THEN new ELSE s[i]
  OBVIOUS
<1> HIDE DEF t
<1>4. \A i, j \in 1 .. Len(t) : t[i] = t[j] => i = j
  BY <1>1, <1>2, <1>3
<1>5. t \in Lists
  BY <1>2, <1>4, ListIs
<1> QED
  BY <1>1, <1>5 DEF t

\* Taking a URL out that is not there changes nothing.
LEMMA WithoutAny ==
    ASSUME NEW s \in Lists, NEW url
    PROVE  Without(s, url) \in Lists /\ (url \notin Range(s) => Without(s, url) = s)
<1>1. CASE url \in Range(s)
  <2>1. PICK k \in 1 .. Len(s) : s[k] = url
    BY <1>1, OfList
  <2>2. Without(s, s[k]) \in Lists
    BY WithoutIs
  <2> QED
    BY <1>1, <2>1, <2>2
<1>2. CASE url \notin Range(s)
  <2>1. ~ \E i \in 1 .. Len(s) : s[i] = url
    BY <1>2, OfList
  <2>2. Without(s, url) = s
    BY <2>1 DEF Without, RemoveFirst
  <2> QED
    BY <2>2
<1> QED
  BY <1>1, <1>2

LEMMA ResultIs ==
    ASSUME NEW urls \in Lists, NEW enabled \in BOOLEAN, NEW request \in TileRequests
    PROVE  Result(urls, enabled, request) \in Lists
<1> DEFINE r == Result(urls, enabled, request)
<1>1. \/ r = urls
      \/ r = Without(urls, request.url)
      \/ /\ request.kind = "add" /\ request.url \notin Range(urls) /\ r = Append(urls, request.url)
      \/ /\ request.kind = "update" /\ request.new \notin Range(urls) \ {request.url}
         /\ r = [i \in DOMAIN urls |-> IF urls[i] = request.url THEN request.new ELSE urls[i]]
      \/ /\ request.kind = "reorder" /\ request.url \in Range(urls) /\ request.at \in DOMAIN urls
         /\ r = Moved(urls, request.url, request.at)
  BY ResultCases, Zenon
<1> HIDE DEF r
<1>2. /\ request.kind = "add" => request.url \in Urls
      /\ request.kind = "update" => request.new \in Urls
  BY DEF TileRequests
<1>3. ASSUME request.kind = "add", request.url \notin Range(urls), r = Append(urls, request.url)
      PROVE  r \in Lists
  BY <1>2, <1>3, LongerIs
<1>4. ASSUME request.kind = "update", request.new \notin Range(urls) \ {request.url},
             r = [i \in DOMAIN urls |-> IF urls[i] = request.url THEN request.new ELSE urls[i]]
      PROVE  r \in Lists
  BY <1>2, <1>4, EditedIs
<1>5. ASSUME request.url \in Range(urls), request.at \in DOMAIN urls,
             r = Moved(urls, request.url, request.at)
      PROVE  r \in Lists
  <2>1. PICK k \in 1 .. Len(urls) : urls[k] = request.url
    BY <1>5, OfList
  <2>2. request.at \in Nat \ {0}
    BY <1>5, OfList
  <2>3. Moved(urls, urls[k], request.at) \in Lists
    BY <2>2, MovedIs
  <2> QED
    BY <1>5, <2>1, <2>3
<1>6. r \in Lists
  BY <1>1, <1>3, <1>4, <1>5, WithoutAny
<1> QED
  BY <1>6 DEF r
-----------------------------------------------------------------------------
(* The shortcuts: the invariant.                                           *)

\* What the browser has, and what is under way.
BrowserOK ==
    /\ links \in Lists /\ custom \in BOOLEAN /\ tileRequests \in Seq(TileRequests)
    /\ infos \in Seq(Info) /\ replies \in Seq(Reply)

\* The tiles and what the user does with them.
ScreenOK ==
    /\ tiles_ \in Lists /\ customLinksEnabled_ \in BOOLEAN /\ columns \in Widths
    /\ toast \in [open : BOOLEAN, buttons : BOOLEAN]
    /\ tileChanges \in 0 .. MaxTileChanges /\ tileActs \in 0 .. MaxTileActs

TargetsOK ==
    /\ actionMenuTargetIndex_ \in Elements \cup {0} /\ adding_ \in BOOLEAN /\ tileMenu \in BOOLEAN
    /\ dialog \in [open : BOOLEAN, url : Urls \cup {NoUrl}, exists : BOOLEAN]
    /\ adding_ => dialog.open
    /\ tileChosen \in Urls \cup {NoUrl} /\ replaced \in BOOLEAN /\ reset \in BOOLEAN

DragOK ==
    /\ dragging \in {"no", "mouse", "touch"} /\ dragged \in Elements \cup {0}
    /\ marked \subseteq 1 .. Len(tiles_) /\ rects \in Elements \cup {0}
    /\ reordering_ \in BOOLEAN /\ orphan \in BOOLEAN /\ pointermove \in BOOLEAN
    /\ missed \in BOOLEAN /\ leftover \in BOOLEAN

LEMMA TilesTypes == TilesTypeOK <=> BrowserOK /\ ScreenOK /\ TargetsOK /\ DragOK
<1>1. tiles_ \in Lists => DOMAIN tiles_ = 1 .. Len(tiles_)
  BY OfList
<1> QED
  BY <1>1 DEF TilesTypeOK, BrowserOK, ScreenOK, TargetsOK, DragOK

\* The menu, the dialog and a drag exclude one another.
OneThing == /\ ~(tileMenu /\ dialog.open)
            /\ tileMenu \/ dialog.open => dragging = "no"

\* A listener is left by a drag that missed its drop.  Only the element that is dragged is
\* marked, and it shows the tile the drag began on until tiles are pushed.
DragInv == /\ orphan => missed
           /\ leftover \/ marked \subseteq (IF dragging = "no" THEN {} ELSE {dragged})
           /\ dragging # "no" =>
                  replaced \/ (dragged \in DOMAIN tiles_ /\ tiles_[dragged] = tileChosen)

\* What was computed of the dialog's URL holds of the tiles there are.
DialogInv ==
    dialog.open /\ dialog.url # NoUrl /\ ~reset =>
        dialog.exists = computeDialogShortcutAlreadyExists_(dialog.url, tiles_)

\* The last push is the browser's list; without one the page has the list, has missed its place
\* or is about to get a push by a request that was made.
Asked   == \E i \in 1 .. Len(tileRequests) : tileRequests[i].kind \in {"refresh", "restore"}
Differs == \E i \in 1 .. Len(tileRequests) : Result(links, custom, tileRequests[i]) # links
SettleInv ==
    IF infos = <<>>
    THEN \/ Asked
         \/ /\ customLinksEnabled_ = custom
            /\ tiles_ = Shortened(links, custom) \/ missed \/ Differs
    ELSE infos[Len(infos)] = [tiles |-> links, custom |-> custom]

TilesInv == /\ BrowserOK /\ ScreenOK /\ TargetsOK /\ DragOK
            /\ OneThing /\ DragInv /\ DialogInv /\ TargetIsChosen /\ ReorderingEnds /\ SettleInv

-----------------------------------------------------------------------------

LEMMA RequestsAre ==
    ASSUME NEW url \in Urls, NEW new \in Urls, NEW at \in Nat
    PROVE  /\ TileRequest("delete", url, NoUrl, 0) \in TileRequests
           /\ TileRequest("add", url, NoUrl, 0) \in TileRequests
           /\ TileRequest("update", url, new, 0) \in TileRequests
           /\ TileRequest("reorder", url, NoUrl, at) \in TileRequests
BY DEF TileRequest, TileRequests

LEMMA PlainRequests ==
    \A kind \in {"refresh", "undo", "restore"} : TileRequest(kind, NoUrl, NoUrl, 0) \in TileRequests
BY DEF TileRequest, TileRequests

\* The elements that are shown are some of the tiles, and not more than there can be.
LEMMA Visible ==
    ASSUME ScreenOK
    PROVE  /\ tileElements_ \subseteq 1 .. Len(tiles_)
           /\ Cardinality(tileElements_) \in Elements \cup {0}
<1> DEFINE max   == computeMaxTiles_(customLinksEnabled_)
           some  == IF max > Len(tiles_) THEN Len(tiles_) + 1 ELSE Len(tiles_)
           count == Min({max, some})
           cols  == Min({columns, count})
           n     == Min({Len(tiles_), cols})
<1>1. Len(tiles_) \in Nat /\ max \in Nat \ {0} /\ max \in Elements /\ columns \in Nat
  BY OfList, MaxTiles, TilesAssumption DEF ScreenOK
<1> HIDE DEF max
<1>2. some \in Nat
  BY <1>1
<1> HIDE DEF some
<1>3. count \in Nat /\ count <= max
  BY <1>1, <1>2, MinOfTwo
<1> HIDE DEF count
<1>4. cols \in Nat /\ cols <= count
  BY <1>1, <1>3, MinOfTwo
<1> HIDE DEF cols
<1>5. n \in Nat /\ n <= cols /\ n <= Len(tiles_)
  BY <1>1, <1>4, MinOfTwo
<1> HIDE DEF n
<1>6. tileElements_ = 1 .. n
  BY DEF tileElements_, computeColumnCount_, n, cols, count, some, max
<1>7. Cardinality(tileElements_) = n
  BY <1>5, <1>6, FS_Interval
<1>8. n \in Elements \cup {0}
  BY <1>1, <1>3, <1>4, <1>5, TilesAssumption DEF Elements
<1> QED
  BY <1>1, <1>5, <1>6, <1>7, <1>8

\* A step of the page that asks the browser for at most one thing, and leaves the tiles alone.
Quiet ==
    /\ UNCHANGED <<links, custom, infos, tiles_, customLinksEnabled_>>
    /\ replies' \in Seq(Reply) /\ (missed => missed')
    /\ tileRequests' = tileRequests \/ \E r \in TileRequests : tileRequests' = Append(tileRequests, r)

LEMMA QuietSettles ==
    ASSUME BrowserOK, SettleInv, Quiet
    PROVE  BrowserOK' /\ SettleInv'
<1>1. PICK q : q = tileRequests
  OBVIOUS
<1>2. PICK p : p = tileRequests'
  OBVIOUS
<1>3. q \in Seq(TileRequests) /\ Len(q) \in Nat
  BY <1>1, LenProperties DEF BrowserOK
<1>4. /\ p \in Seq(TileRequests) /\ Len(p) \in Nat /\ Len(q) <= Len(p)
      /\ \A i \in 1 .. Len(q) : p[i] = q[i]
  <2>1. CASE p = q
    BY <1>3, <2>1
  <2>2. ASSUME NEW r \in TileRequests, p = Append(q, r)
        PROVE  /\ p \in Seq(TileRequests) /\ Len(p) \in Nat /\ Len(q) <= Len(p)
               /\ \A i \in 1 .. Len(q) : p[i] = q[i]
    BY <1>3, <2>2, AppendProperties
  <2> QED
    BY <1>1, <1>2, <2>1, <2>2 DEF Quiet
<1>5. BrowserOK'
  BY <1>2, <1>4 DEF BrowserOK, Quiet
<1>6. (Asked => Asked') /\ (Differs => Differs')
  BY <1>1, <1>2, <1>3, <1>4 DEF Asked, Differs, Quiet
<1>7. SettleInv'
  BY <1>6 DEF SettleInv, Quiet
<1> QED
  BY <1>5, <1>7

\* A step that leaves the menu, the dialog and the tiles alone.
TargetsIdle ==
    /\ UNCHANGED <<targetVars, pastVars, tileVars>>
    /\ Free \/ dragging' = dragging \/ dragging' = "no"

TargetsInv == TargetsOK /\ OneThing /\ DialogInv /\ TargetIsChosen

LEMMA TargetsKept == TilesInv /\ TargetsIdle => TargetsInv'
<1> SUFFICES ASSUME TilesInv, TargetsIdle PROVE TargetsInv'
  OBVIOUS
<1>1. TargetsOK'
  BY DEF TilesInv, TargetsOK, TargetsIdle, targetVars, pastVars
<1>2. OneThing'
  BY DEF TilesInv, OneThing, TargetsIdle, targetVars, Free
<1>3. DialogInv'
  BY DEF TilesInv, DialogInv, TargetsIdle, targetVars, pastVars, tileVars,
         computeDialogShortcutAlreadyExists_
<1>4. TargetIsChosen'
  BY DEF TilesInv, TargetIsChosen, Targeting, TargetsIdle, targetVars, pastVars, tileVars
<1> QED
  BY <1>1, <1>2, <1>3, <1>4 DEF TargetsInv

\* A step that has nothing to do with a drag.
DragIdle ==
    /\ UNCHANGED <<tileVars, dragVars>>
    /\ dragging = "no" \/ UNCHANGED <<tileChosen, replaced>>

DragsInv == DragOK /\ DragInv /\ ReorderingEnds

LEMMA DragsKept == TilesInv /\ DragIdle => DragsInv'
<1> SUFFICES ASSUME TilesInv, DragIdle PROVE DragsInv'
  OBVIOUS
<1>1. DragOK'
  BY DEF TilesInv, DragOK, DragIdle, dragVars, tileVars
<1>2. DragInv'
  BY DEF TilesInv, DragInv, DragIdle, dragVars, tileVars
<1>3. ReorderingEnds'
  BY DEF TilesInv, ReorderingEnds, DragIdle, dragVars
<1> QED
  BY <1>1, <1>2, <1>3 DEF DragsInv

LEMMA Counts ==
    ScreenOK /\ (Begin \/ GoOn) =>
        /\ tileActs' \in tileActs .. MaxTileActs /\ tileActs' \in 0 .. MaxTileActs
        /\ tileChanges' \in 0 .. MaxTileChanges
<1>1. ScreenOK /\ Begin => /\ tileActs' \in tileActs .. MaxTileActs /\ tileActs' \in 0 .. MaxTileActs
                           /\ tileChanges' \in 0 .. MaxTileChanges
  BY TilesAssumption DEF ScreenOK, Begin
<1>2. ScreenOK /\ GoOn => /\ tileActs' \in tileActs .. MaxTileActs /\ tileActs' \in 0 .. MaxTileActs
                          /\ tileChanges' \in 0 .. MaxTileChanges
  BY TilesAssumption DEF ScreenOK, GoOn, countVars
<1> QED
  BY <1>1, <1>2

\* A step of the page that leaves the tiles alone, as far as the browser and the screen go.
Calm ==
    /\ UNCHANGED tileVars /\ (missed => missed') /\ (Begin \/ GoOn)
    /\ columns' \in Widths /\ toast' \in [open : BOOLEAN, buttons : BOOLEAN]
    /\ Still \/ \E r \in TileRequests : Ask(r)

LEMMA CalmSteps == TilesInv /\ Calm => BrowserOK' /\ SettleInv' /\ ScreenOK'
<1> SUFFICES ASSUME TilesInv, Calm PROVE BrowserOK' /\ SettleInv' /\ ScreenOK'
  OBVIOUS
<1>1. Quiet
  BY DEF TilesInv, BrowserOK, Calm, Quiet, Still, Ask, tileVars, linkVars
<1>2. BrowserOK' /\ SettleInv'
  BY <1>1, QuietSettles DEF TilesInv
<1>3. ScreenOK'
  <2>1. tileActs' \in 0 .. MaxTileActs /\ tileChanges' \in 0 .. MaxTileChanges
    BY Counts DEF TilesInv, Calm
  <2> QED
    BY <2>1 DEF TilesInv, ScreenOK, Calm, tileVars
<1> QED
  BY <1>2, <1>3

\* Steps that leave the menu, the dialog and the drag alone.
LEMMA AsideStep ==
    ASSUME TilesInv, Calm, UNCHANGED <<targetVars, pastVars, dragVars>>
    PROVE  TilesInv'
<1>1. TargetsIdle
  BY DEF TargetsIdle, Calm, dragVars
<1>2. DragIdle
  BY DEF DragIdle, Calm, pastVars
<1> QED
  BY <1>1, <1>2, CalmSteps, TargetsKept, DragsKept DEF TilesInv, TargetsInv, DragsInv

\* tileRemove_ asks for a tile's removal.
LEMMA Removing ==
    ASSUME ScreenOK, NEW index, tileRemove_(index)
    PROVE  /\ \E r \in TileRequests : Ask(r)
           /\ toast' \in [open : BOOLEAN, buttons : BOOLEAN]
<1>1. tiles_[index] \in Urls
  BY OfList DEF ScreenOK, tileRemove_
<1>2. TileRequest("delete", tiles_[index], NoUrl, 0) \in TileRequests
  BY <1>1, RequestsAre, TilesAssumption
<1>3. toast' \in [open : BOOLEAN, buttons : BOOLEAN]
  BY DEF tileRemove_, ScreenOK
<1> QED
  BY <1>2, <1>3 DEF tileRemove_

LEMMA AsideSteps ==
    ASSUME TilesInv,
           \/ visibilitychange \/ updateScreenWidth_ \/ ToastHides
           \/ onUndoClick_ \/ onRestoreDefaultsClick_
           \/ \E index \in Elements : onTileRemoveButtonClick_(index)
    PROVE  TilesInv'
<1>0. ScreenOK
  BY DEF TilesInv
<1>1. ASSUME visibilitychange PROVE Calm /\ UNCHANGED <<targetVars, pastVars, dragVars>>
  BY <1>0, <1>1, PlainRequests DEF visibilitychange, Calm, ScreenOK, dragVars
<1>2. ASSUME updateScreenWidth_ PROVE Calm /\ UNCHANGED <<targetVars, pastVars, dragVars>>
  BY <1>0, <1>2 DEF updateScreenWidth_, Calm, ScreenOK, dragVars
<1>3. ASSUME ToastHides PROVE Calm /\ UNCHANGED <<targetVars, pastVars, dragVars>>
  BY <1>0, <1>3 DEF ToastHides, Calm, ScreenOK, dragVars
<1>4. ASSUME NEW kind \in {"undo", "restore"}, ToastButton(kind)
      PROVE  Calm /\ UNCHANGED <<targetVars, pastVars, dragVars>>
  <2>1. TileRequest(kind, NoUrl, NoUrl, 0) \in TileRequests
    BY PlainRequests
  <2>2. toast' \in [open : BOOLEAN, buttons : BOOLEAN]
    BY <1>0, <1>4 DEF ToastButton, ScreenOK
  <2> QED
    BY <1>0, <1>4, <2>1, <2>2 DEF ToastButton, Calm, ScreenOK, dragVars
<1>5. ASSUME NEW index \in Elements, onTileRemoveButtonClick_(index)
      PROVE  Calm /\ UNCHANGED <<targetVars, pastVars, dragVars>>
  <2>1. /\ \E r \in TileRequests : Ask(r)
        /\ toast' \in [open : BOOLEAN, buttons : BOOLEAN]
    BY <1>0, <1>5, Removing DEF onTileRemoveButtonClick_
  <2> QED
    BY <1>0, <1>5, <2>1 DEF onTileRemoveButtonClick_, Calm, ScreenOK, dragVars
<1>6. onUndoClick_ \/ onRestoreDefaultsClick_ => \E kind \in {"undo", "restore"} : ToastButton(kind)
  BY DEF onUndoClick_, onRestoreDefaultsClick_
<1> QED
  BY <1>1, <1>2, <1>3, <1>4, <1>5, <1>6, AsideStep

-----------------------------------------------------------------------------
(* The shortcuts: menu and dialog.                                         *)

\* Steps of the menu and the dialog leave the drag alone.
LEMMA MenuStep ==
    ASSUME TilesInv, Calm, dragging = "no", UNCHANGED dragVars, TargetsInv'
    PROVE  TilesInv'
<1>1. DragIdle
  BY DEF DragIdle, Calm
<1> QED
  BY <1>1, CalmSteps, DragsKept DEF TilesInv, TargetsInv, DragsInv

LEMMA MenuOpens ==
    ASSUME TilesInv, NEW index \in Elements, onTileActionButtonClick_(index)
    PROVE  TilesInv'
<1>1. Calm /\ dragging = "no" /\ UNCHANGED dragVars
  BY DEF TilesInv, ScreenOK, onTileActionButtonClick_, Free, Calm, dragVars
<1>2. index \in DOMAIN tiles_ /\ tiles_[index] \in Urls
  <2>1. index \in tileElements_
    BY DEF onTileActionButtonClick_
  <2>2. index \in 1 .. Len(tiles_)
    BY <2>1, Visible DEF TilesInv
  <2> QED
    BY <2>2, OfList DEF TilesInv, ScreenOK
<1>3. TargetsInv'
  <2>1. TargetsOK'
    BY <1>2 DEF TilesInv, TargetsOK, onTileActionButtonClick_, TargetOf, Chosen
  <2>2. OneThing' /\ DialogInv'
    BY DEF TilesInv, OneThing, DialogInv, onTileActionButtonClick_, Free, dragVars
  <2>3. TargetIsChosen'
    BY <1>2 DEF TargetIsChosen, Targeting, onTileActionButtonClick_, TargetOf, Chosen, tileVars
  <2> QED
    BY <2>1, <2>2, <2>3 DEF TargetsInv
<1> QED
  BY <1>1, <1>3, MenuStep

LEMMA MenuGoes ==
    ASSUME TilesInv, DismissMenu \/ onRemove_
    PROVE  TilesInv'
<1>1. ASSUME onRemove_
      PROVE  /\ toast' \in [open : BOOLEAN, buttons : BOOLEAN]
             /\ Still \/ \E r \in TileRequests : Ask(r)
  <2>1. ASSUME tileRemove_(actionMenuTargetIndex_)
        PROVE  /\ toast' \in [open : BOOLEAN, buttons : BOOLEAN]
               /\ Still \/ \E r \in TileRequests : Ask(r)
    <3>1. PICK k : k = actionMenuTargetIndex_
      OBVIOUS
    <3>2. tileRemove_(k)
      BY <2>1, <3>1
    <3> QED
      BY <3>2, Removing DEF TilesInv
  <2>2. ASSUME UNCHANGED <<actionMenuTargetIndex_, toast>> /\ Still
        PROVE  /\ toast' \in [open : BOOLEAN, buttons : BOOLEAN]
               /\ Still \/ \E r \in TileRequests : Ask(r)
    BY <2>2 DEF TilesInv, ScreenOK
  <2> QED
    BY <1>1, <2>1, <2>2 DEF onRemove_
<1>2. Calm /\ dragging = "no" /\ UNCHANGED dragVars
  <2>1. CASE DismissMenu
    BY <2>1 DEF TilesInv, OneThing, ScreenOK, DismissMenu, Calm, dragVars
  <2>2. CASE onRemove_
    BY <1>1, <2>2 DEF TilesInv, OneThing, ScreenOK, onRemove_, Calm, dragVars
  <2> QED
    BY <2>1, <2>2
<1>3. /\ tileMenu /\ tileMenu' = FALSE /\ UNCHANGED <<adding_, dialog, dragging>> /\ NoTarget
      /\ actionMenuTargetIndex_' \in {0, actionMenuTargetIndex_}
  BY DEF DismissMenu, onRemove_, dragVars
<1>4. TargetsInv'
  <2>1. TargetsOK'
    BY <1>3 DEF TilesInv, TargetsOK, NoTarget
  <2>2. ~dialog'.open /\ OneThing' /\ DialogInv'
    BY <1>3 DEF TilesInv, OneThing, DialogInv
  <2>3. TargetIsChosen'
    BY <1>3, <2>2 DEF TargetIsChosen, Targeting
  <2> QED
    BY <2>1, <2>2, <2>3 DEF TargetsInv
<1> QED
  BY <1>2, <1>4, MenuStep

LEMMA DialogOpens ==
    ASSUME TilesInv, onEdit_ \/ onAdd_
    PROVE  TilesInv'
<1>1. Calm /\ UNCHANGED dragVars
  <2>1. CASE onEdit_
    BY <2>1 DEF TilesInv, ScreenOK, onEdit_, Calm, dragVars
  <2>2. CASE onAdd_
    BY <2>2 DEF TilesInv, ScreenOK, onAdd_, Calm, dragVars
  <2> QED
    BY <2>1, <2>2
<1>2. CASE onAdd_
  <2>1. /\ ~tileMenu /\ dragging = "no" /\ dragging' = "no"
        /\ dialog' = [open |-> TRUE, url |-> NoUrl, exists |-> FALSE] /\ adding_' = TRUE
        /\ UNCHANGED <<actionMenuTargetIndex_, tileMenu, tileChosen, replaced, reset>>
    BY <1>2 DEF onAdd_, Free, NoDialog, dragVars, pastVars
  <2>2. TargetsOK'
    BY <2>1 DEF TilesInv, TargetsOK
  <2>3. OneThing' /\ DialogInv' /\ TargetIsChosen'
    BY <2>1 DEF OneThing, DialogInv, TargetIsChosen, Targeting
  <2> QED
    BY <1>1, <2>1, <2>2, <2>3, MenuStep DEF TargetsInv
<1>3. CASE onEdit_
  <2>1. /\ tileMenu /\ tileMenu' = FALSE /\ ~dialog.open /\ ~adding_ /\ dragging = "no"
        /\ dragging' = "no" /\ UNCHANGED <<actionMenuTargetIndex_, adding_, tiles_>>
    BY <1>3 DEF onEdit_, dragVars, tileVars, TilesInv, OneThing, TargetsOK
  <2>2. CASE actionMenuTargetIndex_ \in DOMAIN tiles_
    <3> DEFINE url == tiles_[actionMenuTargetIndex_]
               exists == computeDialogShortcutAlreadyExists_(url, tiles_)
    <3>1. url \in Urls
      BY <2>2, OfList DEF TilesInv, ScreenOK
    <3>2. exists \in BOOLEAN
      BY DEF computeDialogShortcutAlreadyExists_
    <3>3. exists' = exists
      BY <2>1 DEF computeDialogShortcutAlreadyExists_
    <3>4. dialog' = [open |-> TRUE, url |-> url, exists |-> exists]
      BY <1>3, <2>2 DEF onEdit_
    <3>5. UNCHANGED <<tileChosen, replaced, reset>>
      BY <1>3, <3>4 DEF onEdit_, pastVars
    <3> HIDE DEF exists
    <3>6. TargetsOK'
      BY <2>1, <3>1, <3>2, <3>4, <3>5 DEF TilesInv, TargetsOK
    <3>7. OneThing'
      BY <2>1, <3>4 DEF OneThing
    <3>8. DialogInv'
      <4>1. dialog'.exists = exists
        BY <3>4
      <4>2. computeDialogShortcutAlreadyExists_(dialog.url, tiles_)' = exists
        BY <2>1, <3>4 DEF computeDialogShortcutAlreadyExists_, exists
      <4> QED
        BY <4>1, <4>2 DEF DialogInv
    <3>9. TargetIsChosen'
      BY <2>1, <3>5 DEF TilesInv, TargetIsChosen, Targeting
    <3> QED
      BY <1>1, <2>1, <3>6, <3>7, <3>8, <3>9, MenuStep DEF TargetsInv
  <2>3. CASE actionMenuTargetIndex_ \notin DOMAIN tiles_
    <3>1. dialog' = dialog
      BY <1>3, <2>3 DEF onEdit_
    <3>2. NoTarget
      BY <1>3, <2>1, <3>1 DEF onEdit_
    <3>3. TargetsOK'
      BY <2>1, <3>1, <3>2 DEF TilesInv, TargetsOK, NoTarget
    <3>4. OneThing' /\ DialogInv' /\ TargetIsChosen'
      BY <2>1, <3>1 DEF OneThing, DialogInv, TargetIsChosen, Targeting
    <3> QED
      BY <1>1, <2>1, <3>3, <3>4, MenuStep DEF TargetsInv
  <2> QED
    BY <2>2, <2>3
<1> QED
  BY <1>2, <1>3

LEMMA DialogTyped ==
    ASSUME TilesInv, NEW url \in Urls, Type(url)
    PROVE  TilesInv'
<1>1. Calm /\ UNCHANGED dragVars
  BY DEF TilesInv, ScreenOK, Type, Calm, dragVars
<1>2. /\ dialog.open /\ ~tileMenu /\ dragging = "no" /\ dragging' = "no"
      /\ UNCHANGED <<actionMenuTargetIndex_, adding_, tileMenu, tiles_, tileChosen, replaced, reset>>
  BY DEF Type, TilesInv, OneThing, tileVars, pastVars, dragVars
<1> DEFINE exists == computeDialogShortcutAlreadyExists_(url, tiles_)
<1>3. exists \in BOOLEAN
  BY DEF computeDialogShortcutAlreadyExists_
<1>4. dialog' = [open |-> TRUE, url |-> url, exists |-> exists]
  BY DEF Type
<1>5. computeDialogShortcutAlreadyExists_(dialog.url, tiles_)' = exists
  BY <1>2, <1>4 DEF computeDialogShortcutAlreadyExists_
<1> HIDE DEF exists
<1>6. TargetsOK'
  BY <1>2, <1>3, <1>4 DEF TilesInv, TargetsOK
<1>7. OneThing' /\ DialogInv'
  BY <1>2, <1>4, <1>5 DEF OneThing, DialogInv
<1>8. TargetIsChosen'
  BY <1>2, <1>4 DEF TilesInv, TargetIsChosen, Targeting
<1> QED
  BY <1>1, <1>2, <1>6, <1>7, <1>8, MenuStep DEF TargetsInv

\* The dialog closes, by a button, a key or the save button.
LEMMA DialogCloses ==
    ASSUME TilesInv, onSave_ \/ \E byButton \in BOOLEAN : onDialogCancel_(byButton)
    PROVE  TilesInv'
<1>1. ASSUME onSave_ PROVE Still \/ \E r \in TileRequests : Ask(r)
  <2>1. dialog.url \in Urls
    BY <1>1 DEF onSave_, computeDialogSaveDisabled_, TilesInv, TargetsOK
  <2>2. ASSUME actionMenuTargetIndex_ \in DOMAIN tiles_
        PROVE  TileRequest("update", tiles_[actionMenuTargetIndex_], dialog.url, 0) \in TileRequests
    <3>1. tiles_[actionMenuTargetIndex_] \in Urls
      BY <2>2, OfList DEF TilesInv, ScreenOK
    <3>2. PICK url : url = dialog.url
      OBVIOUS
    <3>3. PICK old : old = tiles_[actionMenuTargetIndex_]
      OBVIOUS
    <3>4. TileRequest("update", old, url, 0) \in TileRequests
      BY <2>1, <3>1, <3>2, <3>3 DEF TileRequest, TileRequests
    <3> QED
      BY <3>2, <3>3, <3>4
  <2>3. TileRequest("add", dialog.url, NoUrl, 0) \in TileRequests
    BY <2>1 DEF TileRequest, TileRequests
  <2> QED
    BY <1>1, <2>2, <2>3 DEF onSave_
<1>2. Calm /\ dragging = "no" /\ UNCHANGED dragVars
  <2>1. CASE onSave_
    BY <1>1, <2>1 DEF TilesInv, OneThing, ScreenOK, onSave_, Calm, dragVars
  <2>2. CASE \E byButton \in BOOLEAN : onDialogCancel_(byButton)
    BY <2>2 DEF TilesInv, OneThing, ScreenOK, onDialogCancel_, Calm, dragVars
  <2> QED
    BY <2>1, <2>2
<1>3. /\ ~tileMenu /\ dialog' = NoDialog /\ adding_' = FALSE /\ NoTarget
      /\ actionMenuTargetIndex_' \in {0, actionMenuTargetIndex_} /\ UNCHANGED tileMenu
  <2>1. CASE onSave_
    BY <2>1 DEF TilesInv, OneThing, onSave_, onDialogClose_
  <2>2. CASE \E byButton \in BOOLEAN : onDialogCancel_(byButton)
    BY <2>2 DEF TilesInv, OneThing, onDialogCancel_, onDialogClose_
  <2> QED
    BY <2>1, <2>2
<1>4. TargetsOK'
  BY <1>3 DEF TilesInv, TargetsOK, NoTarget, NoDialog
<1>5. OneThing' /\ DialogInv' /\ TargetIsChosen'
  BY <1>3 DEF OneThing, DialogInv, TargetIsChosen, Targeting, NoDialog
<1> QED
  BY <1>2, <1>4, <1>5, MenuStep DEF TargetsInv

\* An answer resets the target of an edit, whatever the menu or the dialog are for by now.
LEMMA AnswerHeard ==
    ASSUME TilesInv, onSave_answered
    PROVE  TilesInv'
<1>1. Head(replies) \in Reply /\ Tail(replies) \in Seq(Reply)
  BY Shorter DEF TilesInv, BrowserOK, onSave_answered
<1>2. Quiet
  BY <1>1 DEF onSave_answered, Quiet, linkVars, tileVars, dragVars
<1>3. ScreenOK'
  <2>1. Head(replies).success \in BOOLEAN
    BY <1>1 DEF Reply
  <2> QED
    BY <2>1 DEF TilesInv, ScreenOK, onSave_answered, tileVars, countVars
<1>4. DragIdle
  BY DEF onSave_answered, DragIdle
<1>5. UNCHANGED <<adding_, tileMenu, dialog, tiles_, tileChosen, replaced, dragging>>
  BY DEF onSave_answered, tileVars, dragVars
<1>6. TargetsInv'
  <2>1. CASE UNCHANGED <<actionMenuTargetIndex_, reset>>
    <3>1. TargetsIdle
      BY <1>5, <2>1 DEF TargetsIdle, targetVars, pastVars, tileVars, onSave_answered
    <3> QED
      BY <3>1, TargetsKept
  <2>2. CASE actionMenuTargetIndex_' = 0 /\ reset' = (reset \/ tileMenu \/ dialog.open)
    <3>1. TargetsOK'
      BY <1>5, <2>2 DEF TilesInv, TargetsOK
    <3>2. OneThing' /\ DialogInv' /\ TargetIsChosen'
      BY <1>5, <2>2 DEF TilesInv, OneThing, DialogInv, TargetIsChosen, Targeting
    <3> QED
      BY <3>1, <3>2 DEF TargetsInv
  <2> QED
    BY <2>1, <2>2 DEF onSave_answered
<1> QED
  BY <1>2, <1>3, <1>4, <1>6, QuietSettles, DragsKept DEF TilesInv, TargetsInv, DragsInv

-----------------------------------------------------------------------------
(* The shortcuts: the browser, and its pushes.                             *)

LEMMA TakenOne ==
    ASSUME NEW S, NEW s \in Seq(S), s # <<>>
    PROVE  /\ Len(s) \in Nat /\ Len(s) > 0 /\ Head(s) = s[1] /\ Head(s) \in S
           /\ Tail(s) \in Seq(S) /\ Len(Tail(s)) = Len(s) - 1
           /\ \A i \in 1 .. Len(s) - 1 : Tail(s)[i] = s[i + 1]
BY Shorter, HeadTailProperties, LenProperties

\* What a push leaves at the end of the pushes.
LEMMA LastPushed ==
    ASSUME NEW urls \in Lists, NEW enabled \in BOOLEAN, infos \in Seq(Info), Push(urls, enabled)
    PROVE  /\ infos' \in Seq(Info) /\ infos' # <<>>
           /\ infos'[Len(infos')] = [tiles |-> urls, custom |-> enabled]
<1> DEFINE info == [tiles |-> urls, custom |-> enabled]
<1>1. info \in Info
  BY DEF Info
<1> HIDE DEF info
<1>2. PICK q : q = infos
  OBVIOUS
<1>3. infos' = Append(q, info)
  BY <1>2 DEF Push, info
<1>4. /\ Append(q, info) \in Seq(Info) /\ Len(Append(q, info)) = Len(q) + 1
      /\ Append(q, info)[Len(q) + 1] = info
  BY <1>1, <1>2, AppendProperties
<1>5. Append(q, info) # <<>>
  BY <1>2, <1>4, LenProperties, EmptySeq
<1> QED
  BY <1>3, <1>4, <1>5 DEF info

\* Steps of the browser leave the page alone.
LEMMA BrowserStep ==
    ASSUME TilesInv, BrowserOK', SettleInv',
           UNCHANGED <<tileVars, columns, targetVars, toast, dragVars, tileActs, pastVars>>,
           tileChanges' \in 0 .. MaxTileChanges
    PROVE  TilesInv'
<1>1. ScreenOK'
  BY DEF TilesInv, ScreenOK, tileVars
<1>2. TargetsIdle
  BY DEF TargetsIdle, dragVars
<1>3. DragIdle
  BY DEF DragIdle, pastVars
<1> QED
  BY <1>1, <1>2, <1>3, TargetsKept, DragsKept DEF TilesInv, TargetsInv, DragsInv

LEMMA Handled ==
    ASSUME TilesInv, BrowserHandles
    PROVE  TilesInv'
<1>1. PICK q : q = tileRequests
  OBVIOUS
<1>2. PICK h : h = Head(q)
  OBVIOUS
<1>3. /\ q \in Seq(TileRequests) /\ q # <<>> /\ links \in Lists /\ custom \in BOOLEAN
      /\ infos \in Seq(Info) /\ replies \in Seq(Reply)
  BY <1>1 DEF TilesInv, BrowserOK, BrowserHandles
<1>4. /\ Len(q) \in Nat /\ Len(q) > 0 /\ h = q[1] /\ h \in TileRequests
      /\ Tail(q) \in Seq(TileRequests) /\ Len(Tail(q)) = Len(q) - 1
      /\ \A i \in 1 .. Len(q) - 1 : Tail(q)[i] = q[i + 1]
  BY <1>2, <1>3, TakenOne
<1>5. /\ tileRequests' = Tail(q) /\ custom' = custom
      /\ IF h.kind \in {"undo", "restore"} THEN links' \in Lists
                                           ELSE links' = Result(links, custom, h)
      /\ IF links' # links \/ h.kind \in {"refresh", "restore"}
         THEN Push(links', custom) ELSE infos' = infos
      /\ replies' = IF h.kind \in {"add", "update"}
                    THEN Append(replies, [kind |-> h.kind, success |-> Succeeds(h)])
                    ELSE replies
  BY <1>1, <1>2 DEF BrowserHandles
<1>6. links' \in Lists
  BY <1>3, <1>4, <1>5, ResultIs
<1>7. replies' \in Seq(Reply)
  <2>1. Succeeds(h) \in BOOLEAN
    BY Zenon DEF Succeeds
  <2>2. ASSUME h.kind \in {"add", "update"}
        PROVE  Append(replies, [kind |-> h.kind, success |-> Succeeds(h)]) \in Seq(Reply)
    <3>1. [kind |-> h.kind, success |-> Succeeds(h)] \in Reply
      BY <2>1, <2>2 DEF Reply
    <3> QED
      BY <1>3, <3>1, AppendProperties
  <2> QED
    BY <1>3, <1>5, <2>2
<1>8. CASE links' # links \/ h.kind \in {"refresh", "restore"}
  <2>1. PICK urls : urls = links'
    OBVIOUS
  <2>2. Push(urls, custom)
    BY <1>5, <1>8, <2>1
  <2>3. PICK enabled : enabled = custom
    OBVIOUS
  <2>4. /\ infos' \in Seq(Info) /\ infos' # <<>>
        /\ infos'[Len(infos')] = [tiles |-> urls, custom |-> enabled]
    BY <1>3, <1>6, <2>1, <2>2, <2>3, LastPushed
  <2>5. BrowserOK'
    BY <1>3, <1>4, <1>5, <1>6, <1>7, <2>4 DEF BrowserOK
  <2>6. SettleInv'
    BY <1>5, <2>1, <2>3, <2>4 DEF SettleInv
  <2> QED
    BY <2>5, <2>6, BrowserStep DEF BrowserHandles, countVars, TilesInv, ScreenOK
<1>9. CASE links' = links /\ h.kind \notin {"refresh", "restore"}
  <2>1. infos' = infos
    BY <1>5, <1>9
  <2>2. BrowserOK'
    BY <1>3, <1>4, <1>5, <1>6, <1>7, <2>1 DEF BrowserOK
  <2>3. Asked => Asked'
    <3> SUFFICES ASSUME NEW i \in 1 .. Len(q), q[i].kind \in {"refresh", "restore"} PROVE Asked'
      BY <1>1 DEF Asked
    <3>1. i - 1 \in 1 .. Len(Tail(q)) /\ Tail(q)[i - 1] = q[i]
      BY <1>4, <1>9
    <3> QED
      BY <1>5, <3>1 DEF Asked
  <2>4. Result(links, custom, h) = links
    <3>1. h.kind = "undo" => Result(links, custom, h) = links
      BY ResultOfUndo
    <3> QED
      BY <1>5, <1>9, <3>1
  <2>5. Differs => Differs'
    <3> SUFFICES ASSUME NEW i \in 1 .. Len(q), Result(links, custom, q[i]) # links PROVE Differs'
      BY <1>1 DEF Differs
    <3>1. i # 1
      BY <1>4, <2>4
    <3>2. i - 1 \in 1 .. Len(Tail(q)) /\ Tail(q)[i - 1] = q[i]
      BY <1>4, <3>1
    <3> QED
      BY <1>5, <1>9, <3>2 DEF Differs
  <2>6. SettleInv'
    BY <1>5, <1>9, <2>1, <2>3, <2>5 DEF TilesInv, SettleInv, BrowserHandles, tileVars, dragVars
  <2> QED
    BY <2>2, <2>6, BrowserStep DEF BrowserHandles, countVars, TilesInv, ScreenOK
<1> QED
  BY <1>8, <1>9

LEMMA Changed ==
    ASSUME TilesInv, BrowserChanges
    PROVE  TilesInv'
<1>1. /\ links \in Lists /\ custom \in BOOLEAN /\ infos \in Seq(Info)
      /\ tileRequests \in Seq(TileRequests) /\ replies \in Seq(Reply)
  BY DEF TilesInv, BrowserOK
<1>2. links' \in Lists /\ custom' \in BOOLEAN
  BY <1>1, WithoutAny, LongerIs DEF BrowserChanges
<1>3. PICK urls : urls = links'
  OBVIOUS
<1>4. PICK enabled : enabled = custom'
  OBVIOUS
<1>5. Push(urls, enabled)
  BY <1>3, <1>4 DEF BrowserChanges
<1>6. /\ infos' \in Seq(Info) /\ infos' # <<>>
      /\ infos'[Len(infos')] = [tiles |-> urls, custom |-> enabled]
  BY <1>1, <1>2, <1>3, <1>4, <1>5, LastPushed
<1>7. BrowserOK'
  BY <1>1, <1>2, <1>6 DEF BrowserOK, BrowserChanges
<1>8. SettleInv'
  BY <1>3, <1>4, <1>6 DEF SettleInv
<1>9. tileChanges' \in 0 .. MaxTileChanges
  BY TilesAssumption DEF TilesInv, ScreenOK, BrowserChanges
<1> QED
  BY <1>7, <1>8, <1>9, BrowserStep DEF BrowserChanges

LEMMA PushHeard ==
    ASSUME TilesInv, setMostVisitedInfo
    PROVE  TilesInv'
<1>1. PICK q : q = infos
  OBVIOUS
<1>2. PICK h : h = Head(q)
  OBVIOUS
<1>3. /\ q \in Seq(Info) /\ q # <<>> /\ Len(q) \in Nat /\ Len(q) > 0 /\ h = q[1] /\ h \in Info
      /\ Tail(q) \in Seq(Info) /\ Len(Tail(q)) = Len(q) - 1
      /\ \A i \in 1 .. Len(q) - 1 : Tail(q)[i] = q[i + 1]
  <2>1. q \in Seq(Info) /\ q # <<>>
    BY <1>1 DEF TilesInv, BrowserOK, setMostVisitedInfo
  <2> QED
    BY <1>2, <2>1, TakenOne
<1>4. PICK tiles : tiles = Shortened(h.tiles, h.custom)
  OBVIOUS
<1>5. /\ infos' = Tail(q) /\ tiles_' = tiles /\ customLinksEnabled_' = h.custom
      /\ marked' = marked \cap DOMAIN tiles
      /\ dialog' = [dialog EXCEPT !.exists = computeDialogShortcutAlreadyExists_(dialog.url, tiles)]
      /\ replaced' = (replaced \/ Targeting \/ dragging # "no")
      /\ UNCHANGED <<links, custom, tileRequests, replies, columns, actionMenuTargetIndex_, adding_,
                     tileMenu, toast, dragging, dragged, rects, reordering_, orphan, pointermove,
                     missed, leftover, tileChanges, tileActs, tileChosen, reset>>
  BY <1>1, <1>2, <1>4 DEF setMostVisitedInfo, TilesOf, ExistsAmong, linkVars, countVars
<1>6. h.tiles \in Lists /\ h.custom \in BOOLEAN /\ tiles \in Lists /\ DOMAIN tiles = 1 .. Len(tiles)
  <2>1. h.tiles \in Lists /\ h.custom \in BOOLEAN
    BY <1>3 DEF Info
  <2>2. Shortened(h.tiles, h.custom) \in Lists
    BY <2>1, ShortenedIs
  <2> QED
    BY <1>4, <2>1, <2>2, OfList
<1>7. BrowserOK' /\ ScreenOK'
  BY <1>3, <1>5, <1>6 DEF TilesInv, BrowserOK, ScreenOK
<1>8. SettleInv'
  <2>1. q[Len(q)] = [tiles |-> links, custom |-> custom]
    BY <1>1, <1>3 DEF TilesInv, SettleInv
  <2>2. CASE Len(q) = 1
    <3>1. h = [tiles |-> links, custom |-> custom]
      BY <1>3, <2>1, <2>2
    <3>2. infos' = <<>>
      BY <1>3, <1>5, <2>2, EmptySeq
    <3> QED
      BY <1>4, <1>5, <3>1, <3>2 DEF SettleInv
  <2>3. CASE Len(q) # 1
    <3>1. Len(q) - 1 \in 1 .. Len(q) - 1 /\ Len(q) - 1 + 1 = Len(q)
      BY <1>3, <2>3
    <3>2. Tail(q)[Len(Tail(q))] = q[Len(q)]
      BY <1>3, <3>1
    <3>3. infos' # <<>>
      <4>1. Len(infos') # 0
        BY <1>3, <1>5, <3>1
      <4> QED
        BY <4>1, EmptySeq
    <3> QED
      BY <1>5, <2>1, <3>2, <3>3 DEF SettleInv
  <2> QED
    BY <2>2, <2>3
<1>9. TargetsInv'
  <2> DEFINE exists == computeDialogShortcutAlreadyExists_(dialog.url, tiles)
  <2>1. exists \in BOOLEAN
    BY DEF computeDialogShortcutAlreadyExists_
  <2>2. dialog' = [dialog EXCEPT !.exists = exists]
    BY <1>5
  <2>3. dialog \in [open : BOOLEAN, url : Urls \cup {NoUrl}, exists : BOOLEAN]
    BY DEF TilesInv, TargetsOK
  <2>4. dialog'.exists = exists /\ dialog'.url = dialog.url /\ dialog'.open = dialog.open
    BY <2>2, <2>3
  <2>5. computeDialogShortcutAlreadyExists_(dialog.url, tiles_)' = exists
    BY <1>5, <2>4 DEF computeDialogShortcutAlreadyExists_
  <2> HIDE DEF exists
  <2>6. TargetsOK'
    BY <1>5, <2>1, <2>2, <2>3, <2>4 DEF TilesInv, TargetsOK, Targeting
  <2>7. OneThing' /\ DialogInv'
    BY <1>5, <2>4, <2>5 DEF TilesInv, OneThing, DialogInv
  <2>8. TargetIsChosen'
    BY <1>5, <2>4 DEF TilesInv, TargetIsChosen, Targeting
  <2> QED
    BY <2>6, <2>7, <2>8 DEF TargetsInv
<1>10. DragsInv'
  <2>1. DragOK'
    BY <1>5, <1>6 DEF TilesInv, DragOK
  <2>2. DragInv' /\ ReorderingEnds'
    BY <1>5 DEF TilesInv, DragInv, ReorderingEnds
  <2> QED
    BY <2>1, <2>2 DEF DragsInv
<1> QED
  BY <1>7, <1>8, <1>9, <1>10 DEF TilesInv, TargetsInv, DragsInv

-----------------------------------------------------------------------------
(* The shortcuts: dragging.                                                *)

\* Steps of a drag that drop nothing.
LEMMA DragStep ==
    ASSUME TilesInv, Calm, TargetsInv', DragsInv'
    PROVE  TilesInv'
BY CalmSteps DEF TilesInv, TargetsInv, DragsInv

\* A drag begins or ends, and neither a menu nor a dialog is open.
LEMMA TargetsAway ==
    ASSUME TilesInv, ~tileMenu, ~dialog.open, UNCHANGED targetVars,
           tileChosen' \in Urls \cup {NoUrl}, replaced' = FALSE, reset' = FALSE
    PROVE  TargetsInv'
<1>1. UNCHANGED <<actionMenuTargetIndex_, adding_, tileMenu, dialog>>
  BY DEF targetVars
<1>2. TargetsOK'
  BY <1>1 DEF TilesInv, TargetsOK
<1>3. OneThing' /\ DialogInv' /\ TargetIsChosen'
  BY <1>1 DEF OneThing, DialogInv, TargetIsChosen, Targeting
<1> QED
  BY <1>2, <1>3 DEF TargetsInv

LEMMA DragStarts ==
    ASSUME TilesInv, NEW how \in {"mouse", "touch"}, NEW index \in Elements, dragStart_(how, index)
    PROVE  TilesInv'
<1>1. Calm
  BY DEF dragStart_, Calm, TilesInv, ScreenOK
<1>2. /\ Cardinality(tileElements_) \in Elements \cup {0} /\ index \in 1 .. Len(tiles_)
      /\ DOMAIN tiles_ = 1 .. Len(tiles_) /\ tiles_[index] \in Urls
  BY Visible, OfList DEF dragStart_, TilesInv, ScreenOK
<1>3. TargetsInv'
  BY <1>2, TargetsAway DEF dragStart_, Free, Chosen
<1>4. DragOK'
  BY <1>2 DEF TilesInv, DragOK, dragStart_, tileVars
<1>5. DragInv'
  <2>1. /\ dragging = "no" /\ dragging' # "no" /\ dragged' = index /\ marked' = marked \cup {index}
        /\ tiles_' = tiles_ /\ tileChosen' = tiles_[index]
    BY DEF dragStart_, Free, Chosen, tileVars
  <2> QED
    BY <1>2, <2>1 DEF TilesInv, DragInv, dragStart_
<1>6. ReorderingEnds'
  BY DEF ReorderingEnds, dragStart_
<1> QED
  BY <1>1, <1>3, <1>4, <1>5, <1>6, DragStep DEF DragsInv

LEMMA DragGoesOn ==
    ASSUME TilesInv, dragOver_ \/ pointermoved
    PROVE  TilesInv'
<1>1. Calm /\ TargetsIdle
  <2>1. CASE dragOver_
    BY <2>1 DEF dragOver_, Calm, TargetsIdle, TilesInv, ScreenOK
  <2>2. CASE pointermoved
    BY <2>2 DEF pointermoved, Calm, TargetsIdle, TilesInv, ScreenOK
  <2> QED
    BY <2>1, <2>2
<1>2. /\ UNCHANGED <<tiles_, dragging, dragged, marked, rects, orphan, missed, leftover>>
      /\ UNCHANGED <<tileChosen, replaced>>
      /\ reordering_' = FALSE /\ pointermove' \in {FALSE, pointermove}
  BY DEF dragOver_, pointermoved, tileVars, pastVars
<1>3. DragOK'
  BY <1>2 DEF TilesInv, DragOK
<1>4. DragInv' /\ ReorderingEnds'
  BY <1>2 DEF TilesInv, DragInv, ReorderingEnds
<1> QED
  BY <1>1, <1>3, <1>4, TargetsKept, DragStep DEF DragsInv

LEMMA DragLost ==
    ASSUME TilesInv, DragendLost
    PROVE  TilesInv'
<1>1. Calm
  BY DEF DragendLost, Calm, TilesInv, ScreenOK
<1>2. /\ dragging = "mouse" /\ dragging' = "no" /\ dragged' = 0 /\ rects' = 0
      /\ orphan' = TRUE /\ missed' = TRUE /\ dragged \notin 1 .. Len(tiles_)
      /\ UNCHANGED <<tiles_, marked, reordering_, pointermove, leftover>>
  <2>1. DOMAIN tiles_ = 1 .. Len(tiles_)
    BY OfList DEF TilesInv, ScreenOK
  <2> QED
    BY <2>1 DEF DragendLost, tileVars
<1>3. TargetsInv'
  <2>1. ~tileMenu /\ ~dialog.open
    BY <1>2 DEF TilesInv, OneThing
  <2> QED
    BY <2>1, TargetsAway DEF DragendLost, NoTarget
<1>4. DragOK'
  BY <1>2 DEF TilesInv, DragOK
<1>5. DragInv' /\ ReorderingEnds'
  BY <1>2 DEF TilesInv, DragInv, DragOK, ReorderingEnds
<1> QED
  BY <1>1, <1>3, <1>4, <1>5, DragStep DEF DragsInv

\* What dragEnd_ works on.
DragStates == [tiles : Lists, marked : SUBSET Nat, reordering : BOOLEAN, sent : Seq(TileRequests)]
Fits(state) == state \in DragStates /\ state.marked \subseteq 1 .. Len(state.tiles)

\* The request for the tile of the first marked element, and when there is one.
First(state)     == Min(state.marked)
Drop(state, at)  == TileRequest("reorder", state.tiles[First(state)], NoUrl, at)
Moves(state, at) == customLinksEnabled_ /\ state.marked # {} /\ at \notin {0, First(state)}

LEMMA DragEndIs ==
    ASSUME NEW state, Fits(state), NEW at \in Nat, NEW new, new = dragEnd_(state, at)
    PROVE  /\ Fits(new) /\ Len(new.tiles) = Len(state.tiles) /\ new.marked \subseteq state.marked
           /\ customLinksEnabled_ => new.marked = state.marked \ {First(state)}
           /\ ~Moves(state, at) => new.tiles = state.tiles /\ new.sent = state.sent
           /\ Moves(state, at) => /\ First(state) \in state.marked
                                  /\ Drop(state, at) \in TileRequests
                                  /\ new.sent = Append(state.sent, Drop(state, at))
<1>1. /\ state.tiles \in Lists /\ state.marked \subseteq 1 .. Len(state.tiles)
      /\ state.sent \in Seq(TileRequests) /\ state.reordering \in BOOLEAN
      /\ state \in DragStates
  BY DEF Fits, DragStates
<1>2. CASE ~customLinksEnabled_ \/ state.marked = {}
  <2>1. new = [state EXCEPT !.reordering = FALSE]
    BY <1>2 DEF dragEnd_
  <2>2. /\ new \in DragStates /\ new.tiles = state.tiles /\ new.marked = state.marked
        /\ new.sent = state.sent
    BY <1>1, <2>1 DEF DragStates
  <2> QED
    BY <1>1, <1>2, <2>2 DEF Fits, Moves
<1>3. CASE customLinksEnabled_ /\ state.marked # {}
  <2> DEFINE from == First(state)
             url  == state.tiles[from]
  <2>1. from \in state.marked /\ from \in 1 .. Len(state.tiles)
    <3>1. state.marked \subseteq Nat
      BY <1>1, OfList
    <3> QED
      BY <1>1, <1>3, <3>1, MinOfMarked DEF First
  <2>2. url \in Urls
    BY <1>1, <2>1, OfList
  <2> HIDE DEF from, url
  <2>3. CASE at \in {0, from}
    <3>1. new = [state EXCEPT !.marked = @ \ {from}]
      BY <1>3, <2>3 DEF dragEnd_, Unmarked, from, First
    <3>2. /\ new \in DragStates /\ new.tiles = state.tiles /\ new.marked = state.marked \ {from}
          /\ new.sent = state.sent
      BY <1>1, <3>1 DEF DragStates
    <3> QED
      BY <1>1, <1>3, <2>3, <3>2 DEF Fits, Moves, from
  <2>4. CASE at \notin {0, from}
    <3> DEFINE tiles == Moved(state.tiles, url, at)
               sent  == Append(state.sent, Drop(state, at))
    <3>1. tiles \in Lists /\ Len(tiles) = Len(state.tiles)
      BY <1>1, <2>1, <2>4, MovedIs DEF url
    <3>2. Drop(state, at) \in TileRequests
      BY <2>2 DEF Drop, url, from, TileRequest, TileRequests
    <3>3. sent \in Seq(TileRequests)
      BY <1>1, <3>2, AppendProperties
    <3>4. new = [state EXCEPT !.marked = @ \ {from}, !.tiles = tiles, !.sent = sent]
      BY <1>3, <2>4 DEF dragEnd_, Unmarked, Drop, from, url, First
    <3> HIDE DEF tiles, sent
    <3>5. /\ new \in DragStates /\ new.tiles = tiles /\ new.marked = state.marked \ {from}
          /\ new.sent = sent
      BY <1>1, <3>1, <3>3, <3>4 DEF DragStates
    <3> QED
      BY <1>1, <1>3, <2>1, <2>4, <3>1, <3>2, <3>5 DEF Fits, Moves, from, sent
  <2> QED
    BY <2>3, <2>4
<1> QED
  BY <1>2, <1>3

\* What a drop leaves of the tiles and the marks, and what it sends.
Drops(state, at) ==
    /\ Fits(state) /\ state.marked \subseteq marked
    /\ customLinksEnabled_ /\ ~leftover => state.marked = {}
    /\ \A i \in 1 .. Len(state.sent) :
          \/ leftover
          \/ dragged \in 1 .. Len(tiles_) /\ state.sent[i].url = tiles_[dragged]
    /\ \/ state.tiles = tiles_ /\ state.sent = <<>>
       \/ /\ customLinksEnabled_
          /\ \/ missed
             \/ /\ Moves(DragState, at) /\ First(DragState) \in 1 .. Len(tiles_)
                /\ state.sent = <<Drop(DragState, at)>>

LEMMA OnceDropped ==
    ASSUME TilesInv, dragging # "no", NEW at \in Nat, NEW once, once = dragEnd_(DragState, at)
    PROVE  Drops(once, at) /\ Len(once.tiles) = Len(tiles_)
<1>1. PICK state : state = DragState
  OBVIOUS
<1>2. /\ state.tiles = tiles_ /\ state.marked = marked /\ state.sent = <<>>
      /\ marked \subseteq 1 .. Len(tiles_) /\ tiles_ \in Lists /\ reordering_ \in BOOLEAN
  BY <1>1 DEF DragState, TilesInv, ScreenOK, DragOK
<1>3. Fits(state)
  <2>1. marked \subseteq Nat /\ <<>> \in Seq(TileRequests)
    BY <1>2, OfList
  <2> QED
    BY <1>1, <1>2, <2>1 DEF Fits, DragStates, DragState
<1>4. once = dragEnd_(state, at)
  BY <1>1
<1>5. /\ Fits(once) /\ Len(once.tiles) = Len(state.tiles) /\ once.marked \subseteq state.marked
      /\ customLinksEnabled_ => once.marked = state.marked \ {First(state)}
      /\ ~Moves(state, at) => once.tiles = state.tiles /\ once.sent = state.sent
      /\ Moves(state, at) => /\ First(state) \in state.marked
                             /\ Drop(state, at) \in TileRequests
                             /\ once.sent = Append(state.sent, Drop(state, at))
  BY <1>3, <1>4, DragEndIs
<1>6. leftover \/ marked = {} \/ marked = {dragged}
  BY DEF TilesInv, DragInv
<1>7. state.marked # {} => First(state) \in state.marked
  BY <1>2, <1>3, MinOfMarked DEF First, Fits, DragStates
<1>8. customLinksEnabled_ /\ ~leftover => once.marked = {}
  BY <1>2, <1>5, <1>6, <1>7
<1>9. CASE ~Moves(state, at)
  <2>1. once.tiles = tiles_ /\ once.sent = <<>> /\ Len(once.sent) = 0
    BY <1>2, <1>5, <1>9
  <2> QED
    BY <1>2, <1>5, <1>8, <2>1 DEF Drops
<1>10. CASE Moves(state, at)
  <2>1. once.sent = <<Drop(state, at)>>
    BY <1>2, <1>5, <1>10
  <2> DEFINE sent == once.sent
  <2>2. Len(sent) = 1 /\ sent[1] = Drop(state, at)
    BY <2>1
  <2>3. First(state) \in 1 .. Len(tiles_) /\ (leftover \/ First(state) = dragged)
    BY <1>2, <1>5, <1>6, <1>10
  <2>4. Drop(state, at).url = tiles_[First(state)]
    BY <1>2 DEF Drop, TileRequest
  <2> HIDE DEF sent
  <2>5. \A i \in 1 .. Len(sent) :
           leftover \/ (dragged \in 1 .. Len(tiles_) /\ sent[i].url = tiles_[dragged])
    BY <2>2, <2>3, <2>4
  <2>6. customLinksEnabled_
    BY <1>10 DEF Moves
  <2> QED
    BY <1>1, <1>2, <1>5, <1>8, <1>10, <2>1, <2>3, <2>5, <2>6 DEF Drops, sent
<1> QED
  BY <1>2, <1>5, <1>9, <1>10

\* A listener that is left over runs dragEnd_ once more; it has missed a drop already.
LEMMA TwiceDropped ==
    ASSUME TilesInv, dragging # "no", NEW at \in Nat, NEW once, once = dragEnd_(DragState, at),
           NEW twice, twice = dragEnd_(once, at), missed
    PROVE  Drops(twice, at) /\ Len(twice.tiles) = Len(tiles_)
<1>1. Drops(once, at) /\ Len(once.tiles) = Len(tiles_)
  BY OnceDropped
<1>2. /\ Fits(once) /\ once.marked \subseteq marked
      /\ customLinksEnabled_ /\ ~leftover => once.marked = {}
      /\ \A i \in 1 .. Len(once.sent) :
            leftover \/ (dragged \in 1 .. Len(tiles_) /\ once.sent[i].url = tiles_[dragged])
      /\ (once.tiles = tiles_ /\ once.sent = <<>>) \/ customLinksEnabled_
  BY <1>1 DEF Drops
<1>3. /\ Fits(twice) /\ Len(twice.tiles) = Len(once.tiles) /\ twice.marked \subseteq once.marked
      /\ ~Moves(once, at) => twice.tiles = once.tiles /\ twice.sent = once.sent
  BY <1>2, DragEndIs
<1>4. CASE ~Moves(once, at)
  BY <1>1, <1>2, <1>3, <1>4 DEF Drops
<1>5. CASE Moves(once, at)
  <2>1. customLinksEnabled_ /\ leftover
    BY <1>2, <1>5 DEF Moves
  <2> QED
    BY <1>1, <1>2, <1>3, <2>1 DEF Drops
<1> QED
  BY <1>4, <1>5

\* A sequence that another one follows.
LEMMA Followed ==
    ASSUME NEW S, NEW s \in Seq(S), NEW t \in Seq(S)
    PROVE  /\ s \o t \in Seq(S) /\ Len(s) \in Nat /\ Len(t) \in Nat
           /\ Len(s \o t) = Len(s) + Len(t)
           /\ \A i \in 1 .. Len(s) : (s \o t)[i] = s[i]
           /\ \A i \in 1 .. Len(t) : (s \o t)[Len(s) + i] = t[i]
<1> DEFINE u == s \o t
<1>1. Len(s) \in Nat /\ Len(t) \in Nat
  BY LenProperties
<1>2. /\ u \in Seq(S) /\ Len(u) = Len(s) + Len(t)
      /\ \A i \in 1 .. Len(s) + Len(t) : u[i] = IF i <= Len(s) THEN s[i] ELSE t[i - Len(s)]
  BY ConcatProperties
<1> HIDE DEF u
<1>3. \A i \in 1 .. Len(s) : u[i] = s[i]
  BY <1>1, <1>2
<1>4. ASSUME NEW i \in 1 .. Len(t) PROVE u[Len(s) + i] = t[i]
  <2>1. Len(s) + i \in 1 .. Len(s) + Len(t) /\ ~(Len(s) + i <= Len(s)) /\ Len(s) + i - Len(s) = i
    BY <1>1
  <2> QED
    BY <1>2, <2>1
<1> QED
  BY <1>1, <1>2, <1>3, <1>4 DEF u

\* The request a drop sends changes the browser's list, if the page shows its tiles.
LEMMA DropDiffers ==
    ASSUME TilesInv, NEW at \in Nat, Moves(DragState, at), First(DragState) \in 1 .. Len(tiles_),
           tiles_ = Shortened(links, custom), at \in 1 .. Len(tiles_)
    PROVE  Result(links, TRUE, Drop(DragState, at)) # links
<1> DEFINE from == First(DragState)
           url  == tiles_[from]
           r    == Drop(DragState, at)
<1>1. /\ links \in Lists /\ custom \in BOOLEAN /\ Len(links) \in Nat /\ DOMAIN links = 1 .. Len(links)
      /\ Len(tiles_) \in Nat
  BY OfList DEF TilesInv, BrowserOK, ScreenOK
<1>2. /\ Len(tiles_) <= Len(links)
      /\ \A i \in 1 .. Len(tiles_) : tiles_[i] = links[i]
  BY <1>1, ShortenedIs
<1>3. from \in 1 .. Len(links) /\ at \in 1 .. Len(links) /\ at # from /\ at \in Nat \ {0}
      /\ url = links[from]
  BY <1>1, <1>2 DEF Moves
<1>4. r.kind = "reorder" /\ r.url = url /\ r.at = at
  BY DEF Drop, TileRequest, DragState
<1> HIDE DEF from, url, r
<1>5. r.url \in Range(links) /\ r.at \in DOMAIN links
  BY <1>1, <1>3, <1>4, OfList
<1>6. Result(links, TRUE, r) = Moved(links, links[from], at)
  <2>1. Result(links, TRUE, r) = Moved(links, r.url, r.at)
    BY <1>4, <1>5, ResultOfReorder
  <2> QED
    BY <1>3, <1>4, <2>1
<1>7. Moved(links, links[from], at) # links
  BY <1>1, <1>3, MovedIs
<1> QED
  BY <1>6, <1>7 DEF r

LEMMA DropSettles ==
    ASSUME TilesInv, dragging # "no", NEW at \in Nat, NEW state, Drops(state, at), Dropped(state),
           missed' = (missed \/ Vanished(at))
    PROVE  BrowserOK' /\ SettleInv'
<1>1. PICK q : q = tileRequests
  OBVIOUS
<1>2. PICK sent : sent = state.sent
  OBVIOUS
<1>3. q \in Seq(TileRequests) /\ sent \in Seq(TileRequests)
  BY <1>1, <1>2 DEF TilesInv, BrowserOK, Drops, Fits, DragStates
<1>4. /\ q \o sent \in Seq(TileRequests) /\ Len(q) \in Nat /\ Len(sent) \in Nat
      /\ Len(q \o sent) = Len(q) + Len(sent)
      /\ \A i \in 1 .. Len(q) : (q \o sent)[i] = q[i]
      /\ \A i \in 1 .. Len(sent) : (q \o sent)[Len(q) + i] = sent[i]
  BY <1>3, Followed
<1>5. /\ tileRequests' = q \o sent /\ tiles_' = state.tiles
      /\ UNCHANGED <<links, custom, infos, replies, customLinksEnabled_>>
  BY <1>1, <1>2 DEF Dropped, linkVars
<1> DEFINE p == q \o sent
<1> HIDE DEF p
<1>6. BrowserOK'
  BY <1>4, <1>5 DEF TilesInv, BrowserOK
<1> SUFFICES SettleInv'
  BY <1>6
<1>7. Asked => Asked'
  <2> SUFFICES ASSUME NEW i \in 1 .. Len(q), q[i].kind \in {"refresh", "restore"} PROVE Asked'
    BY <1>1 DEF Asked
  <2>1. i \in 1 .. Len(p) /\ p[i] = q[i]
    BY <1>4 DEF p
  <2> QED
    BY <1>5, <2>1 DEF Asked, p
<1>8. Differs => Differs'
  <2> SUFFICES ASSUME NEW i \in 1 .. Len(q), Result(links, custom, q[i]) # links PROVE Differs'
    BY <1>1 DEF Differs
  <2>1. i \in 1 .. Len(p) /\ p[i] = q[i]
    BY <1>4 DEF p
  <2> QED
    BY <1>5, <2>1 DEF Differs, p
<1>9. CASE infos # <<>> \/ Asked \/ missed
  BY <1>5, <1>7, <1>9 DEF TilesInv, SettleInv
<1>10. CASE infos = <<>> /\ ~Asked /\ ~missed
  <2>1. customLinksEnabled_ = custom /\ (tiles_ = Shortened(links, custom) \/ Differs)
    BY <1>10 DEF TilesInv, SettleInv
  <2>2. CASE Differs
    BY <1>5, <1>8, <1>10, <2>1, <2>2 DEF SettleInv
  <2>3. CASE tiles_ = Shortened(links, custom)
    <3>1. CASE state.tiles = tiles_
      BY <1>5, <1>10, <2>1, <2>3, <3>1 DEF SettleInv
    <3>2. CASE state.tiles # tiles_
      <4>1. /\ customLinksEnabled_ /\ Moves(DragState, at) /\ First(DragState) \in 1 .. Len(tiles_)
            /\ sent = <<Drop(DragState, at)>>
        BY <1>2, <1>10, <3>2 DEF Drops
      <4>2. CASE Vanished(at)
        BY <1>5, <1>10, <2>1, <4>2 DEF SettleInv
      <4>3. CASE ~Vanished(at)
        <5>1. at \in 1 .. Len(tiles_)
          BY <4>1, <4>3, Visible DEF Vanished, Moves, TilesInv
        <5>2. Result(links, TRUE, Drop(DragState, at)) # links
          BY <2>3, <4>1, <5>1, DropDiffers
        <5>3. PICK r : r = Drop(DragState, at)
          OBVIOUS
        <5>4. Len(sent) = 1 /\ sent[1] = r
          BY <4>1, <5>3
        <5>5. Len(q) + 1 \in 1 .. Len(p) /\ p[Len(q) + 1] = r
          BY <1>4, <5>4 DEF p
        <5>6. custom = TRUE
          BY <2>1, <4>1 DEF TilesInv, BrowserOK
        <5>7. Differs'
          BY <1>5, <5>2, <5>3, <5>5, <5>6 DEF Differs, p
        <5> QED
          BY <1>5, <1>10, <2>1, <5>7 DEF SettleInv
      <4> QED
        BY <4>2, <4>3
    <3> QED
      BY <3>1, <3>2
  <2> QED
    BY <2>1, <2>2, <2>3
<1> QED
  BY <1>9, <1>10

LEMMA DropStep ==
    ASSUME TilesInv, dragging # "no", NEW at \in Nat, NEW state, Drops(state, at), Dropped(state),
           Len(state.tiles) = Len(tiles_), missed' = (missed \/ Vanished(at)),
           reordering_' \in BOOLEAN, pointermove' \in BOOLEAN, orphan' \in {FALSE, orphan},
           reordering_' => pointermove' \/ missed'
    PROVE  TilesInv'
<1>1. BrowserOK' /\ SettleInv'
  BY DropSettles
<1>2. /\ tiles_' = state.tiles /\ marked' = state.marked /\ dragging' = "no" /\ dragged' = 0
      /\ rects' = 0 /\ leftover' = (leftover \/ ~customLinksEnabled_)
      /\ NoTarget
      /\ UNCHANGED <<customLinksEnabled_, columns, targetVars, toast, tileChanges, tileActs>>
  BY DEF Dropped, GoOn, countVars
<1>3. ScreenOK'
  BY <1>2 DEF TilesInv, ScreenOK, Drops, Fits, DragStates
<1>4. ~tileMenu /\ ~dialog.open
  BY DEF TilesInv, OneThing
<1>5. TargetsInv'
  BY <1>2, <1>4, TargetsAway DEF NoTarget
<1>6. DragsInv'
  <2>1. missed' \in BOOLEAN /\ leftover' \in BOOLEAN
    BY <1>2 DEF TilesInv, DragOK, ScreenOK, Vanished
  <2>2. orphan' \in BOOLEAN /\ (orphan' => missed')
    <3>1. orphan \in BOOLEAN /\ (orphan => missed) /\ (missed => missed')
      BY DEF TilesInv, DragOK, DragInv
    <3>2. CASE orphan' = FALSE
      BY <3>2
    <3>3. CASE orphan' = orphan
      BY <3>1, <3>3
    <3> QED
      BY <3>2, <3>3
  <2>3. marked' \subseteq 1 .. Len(tiles_')
    BY <1>2 DEF Drops, Fits
  <2>4. DragOK'
    BY <1>2, <2>1, <2>2, <2>3 DEF DragOK
  <2>5. leftover' \/ marked' = {}
    BY <1>2 DEF Drops
  <2>6. DragInv'
    BY <1>2, <2>2, <2>5 DEF DragInv
  <2>7. ReorderingEnds'
    BY DEF ReorderingEnds
  <2> QED
    BY <2>4, <2>6, <2>7 DEF DragsInv
<1> QED
  BY <1>1, <1>3, <1>5, <1>6 DEF TilesInv, TargetsInv, DragsInv

\* A drop by mouse; a listener left over drops once more.
LEMMA MouseDrops ==
    ASSUME TilesInv, NEW at \in Elements \cup {0}, dragend(at)
    PROVE  TilesInv'
<1>1. at \in Nat /\ dragging # "no"
  BY DEF Elements, dragend
<1>2. PICK once : once = dragEnd_(DragState, at)
  OBVIOUS
<1>3. PICK state : state = IF orphan THEN dragEnd_(once, at) ELSE once
  OBVIOUS
<1>4. Drops(state, at) /\ Len(state.tiles) = Len(tiles_)
  <2>1. CASE orphan
    <3>1. missed
      BY <2>1 DEF TilesInv, DragInv
    <3> QED
      BY <1>1, <1>2, <1>3, <2>1, <3>1, TwiceDropped
  <2>2. CASE ~orphan
    BY <1>1, <1>2, <1>3, <2>2, OnceDropped
  <2> QED
    BY <2>1, <2>2
<1>5. /\ Dropped(state) /\ reordering_' = state.reordering /\ orphan' = FALSE
      /\ missed' = (missed \/ Vanished(at)) /\ pointermove' = (pointermove \/ ~Vanished(at))
  BY <1>2, <1>3 DEF dragend
<1>6. reordering_' \in BOOLEAN /\ pointermove' \in BOOLEAN
  BY <1>4, <1>5 DEF Drops, Fits, DragStates
<1>7. reordering_' => pointermove' \/ missed'
  BY <1>5
<1> QED
  BY <1>1, <1>4, <1>5, <1>6, <1>7, DropStep

LEMMA TouchDrops ==
    ASSUME TilesInv, NEW at \in Elements \cup {0}, touchEnd(at)
    PROVE  TilesInv'
<1>1. at \in Nat /\ dragging # "no"
  BY DEF Elements, touchEnd
<1>2. PICK state : state = dragEnd_(DragState, at)
  OBVIOUS
<1>3. Drops(state, at) /\ Len(state.tiles) = Len(tiles_)
  BY <1>1, <1>2, OnceDropped
<1>4. /\ Dropped(state) /\ reordering_' = FALSE /\ orphan' = orphan
      /\ missed' = (missed \/ Vanished(at)) /\ pointermove' = pointermove
  BY <1>2 DEF touchEnd
<1>5. pointermove' \in BOOLEAN
  BY <1>4 DEF TilesInv, DragOK
<1> QED
  BY <1>1, <1>3, <1>4, <1>5, DropStep

-----------------------------------------------------------------------------
(* The shortcuts: theorems.                                                *)

LEMMA InitTilesInv == TilesInit => TilesInv
<1> SUFFICES ASSUME TilesInit PROVE TilesInv
  OBVIOUS
<1>1. Len(tiles_) = 0 /\ tiles_ \in Lists
  <2>1. tiles_ = <<>>
    BY DEF TilesInit
  <2>2. <<>> \in Seq(Urls) /\ Len(<<>>) = 0 /\ \A i, j \in 1 .. Len(<<>>) : <<>>[i] = <<>>[j] => i = j
    OBVIOUS
  <2> QED
    BY <2>1, <2>2, ListIs
<1> DEFINE r == TileRequest("refresh", NoUrl, NoUrl, 0)
<1>2. r \in TileRequests /\ r.kind = "refresh"
  BY PlainRequests DEF TileRequest
<1>3. tileRequests = <<r>>
  BY DEF TilesInit
<1> HIDE DEF r
<1>4. tileRequests \in Seq(TileRequests) /\ Len(tileRequests) = 1 /\ tileRequests[1] = r
  BY <1>2, <1>3
<1>5. BrowserOK /\ ScreenOK
  <2>1. infos \in Seq(Info) /\ replies \in Seq(Reply)
    BY DEF TilesInit
  <2>2. tileChanges \in 0 .. MaxTileChanges /\ tileActs \in 0 .. MaxTileActs
    BY TilesAssumption DEF TilesInit
  <2> QED
    BY <1>1, <1>4, <2>1, <2>2 DEF TilesInit, BrowserOK, ScreenOK
<1>6. TargetsOK /\ OneThing /\ DialogInv /\ TargetIsChosen
  BY DEF TilesInit, NoDialog, TargetsOK, OneThing, DialogInv, TargetIsChosen, Targeting
<1>7. DragOK /\ DragInv /\ ReorderingEnds
  <2>1. /\ orphan = FALSE
        /\ dragged \in Elements \cup {0} /\ rects \in Elements \cup {0}
    BY TilesAssumption DEF TilesInit
  <2>2. /\ dragging = "no" /\ marked = {} /\ reordering_ = FALSE /\ pointermove = FALSE
        /\ missed = FALSE /\ leftover = FALSE
    BY DEF TilesInit
  <2>3. DragOK
    BY <2>1, <2>2 DEF DragOK
  <2>4. DragInv /\ ReorderingEnds
    BY <2>1, <2>2 DEF DragInv, ReorderingEnds
  <2> QED
    BY <2>3, <2>4
<1>8. SettleInv
  <2>1. Asked
    BY <1>2, <1>4 DEF Asked
  <2> QED
    BY <2>1 DEF SettleInv, TilesInit
<1> QED
  BY <1>5, <1>6, <1>7, <1>8 DEF TilesInv

LEMMA NextTilesInv == TilesInv /\ [TilesNext]_tilesVars => TilesInv'
<1> SUFFICES ASSUME TilesInv, [TilesNext]_tilesVars PROVE TilesInv'
  OBVIOUS
<1>1. CASE UNCHANGED tilesVars
  <2>1. BrowserOK' /\ ScreenOK' /\ SettleInv'
    BY <1>1 DEF TilesInv, BrowserOK, ScreenOK, SettleInv, Asked, Differs, tilesVars, linkVars,
                tileVars, dragVars, countVars
  <2>2. TargetsIdle
    BY <1>1 DEF TargetsIdle, tilesVars, dragVars
  <2>3. DragIdle
    BY <1>1 DEF DragIdle, tilesVars, pastVars
  <2> QED
    BY <2>1, <2>2, <2>3, TargetsKept, DragsKept DEF TilesInv, TargetsInv, DragsInv
<1>2. CASE BrowserHandles
  BY <1>2, Handled
<1>3. CASE BrowserChanges
  BY <1>3, Changed
<1>4. CASE setMostVisitedInfo
  BY <1>4, PushHeard
<1>5. CASE onSave_answered
  BY <1>5, AnswerHeard
<1>6. CASE visibilitychange \/ updateScreenWidth_ \/ ToastHides \/ onUndoClick_
           \/ onRestoreDefaultsClick_ \/ \E index \in Elements : onTileRemoveButtonClick_(index)
  BY <1>6, AsideSteps
<1>7. CASE \E index \in Elements : onTileActionButtonClick_(index)
  BY <1>7, MenuOpens
<1>8. CASE DismissMenu \/ onRemove_
  BY <1>8, MenuGoes
<1>9. CASE onEdit_ \/ onAdd_
  BY <1>9, DialogOpens
<1>10. CASE \E url \in Urls : Type(url)
  BY <1>10, DialogTyped
<1>11. CASE onSave_ \/ \E byButton \in BOOLEAN : onDialogCancel_(byButton)
  BY <1>11, DialogCloses
<1>12. CASE \E how \in {"mouse", "touch"}, index \in Elements : dragStart_(how, index)
  BY <1>12, DragStarts
<1>13. CASE dragOver_ \/ pointermoved
  BY <1>13, DragGoesOn
<1>14. CASE DragendLost
  BY <1>14, DragLost
<1>15. CASE \E at \in Elements \cup {0} : dragend(at)
  BY <1>15, MouseDrops
<1>16. CASE \E at \in Elements \cup {0} : touchEnd(at)
  BY <1>16, TouchDrops
<1> QED
  BY <1>1, <1>2, <1>3, <1>4, <1>5, <1>6, <1>7, <1>8, <1>9, <1>10, <1>11, <1>12, <1>13, <1>14,
     <1>15, <1>16 DEF TilesNext

\* Every request, push and answer is well formed and every index and list in its range, whatever
\* the user does while tiles are pushed, moved and cut (most_visited.js).
THEOREM TilesTypeCorrect == TilesSpec => []TilesTypeOK
<1>1. TilesInv => TilesTypeOK
  BY TilesTypes DEF TilesInv
<1> QED
  BY <1>1, InitTilesInv, NextTilesInv, PTL DEF TilesSpec

\* For any shortcuts, widths and numbers of changes and clicks: the page comes to show the
\* browser's shortcuts, unless a drop missed its place.  Menu and edit dialog are for the tile that
\* was chosen as long as no tiles were pushed (replaced) and no earlier edit was answered (reset)
\* since they opened.  Unless such an answer came, an edit offers to save no URL another tile has,
\* and an add none that any tile has but that of a target left over from an earlier menu.  The
\* hover style comes back unless a drop missed (setMostVisitedInfo, actionMenuTargetIndex_,
\* computeDialogShortcutAlreadyExists_, dragEnd_).
THEOREM TilesStaySound == TilesSpec => []TilesAreSound
<1>1. TilesInv => TilesAreSound
  <2> SUFFICES ASSUME TilesInv PROVE TilesAreSound
    OBVIOUS
  <2>1. TilesSettle
    <3> SUFFICES ASSUME tileRequests = <<>>, infos = <<>>
                 PROVE  customLinksEnabled_ = custom /\ (tiles_ = Shortened(links, custom) \/ missed)
      BY DEF TilesSettle
    <3>1. Len(tileRequests) = 0
      BY EmptySeq
    <3>2. ~Asked /\ ~Differs
      BY <3>1 DEF Asked, Differs
    <3> QED
      BY <3>2 DEF TilesInv, SettleInv
  <2>2. SaveIsNoDuplicate
    <3> SUFFICES ASSUME dialog.open, ~computeDialogSaveDisabled_, ~reset
                 PROVE  /\ actionMenuTargetIndex_ = 0 => dialog.url \notin Range(tiles_)
                        /\ \A i \in DOMAIN tiles_ :
                              tiles_[i] = dialog.url => i = actionMenuTargetIndex_
      BY DEF SaveIsNoDuplicate, StaleTarget
    <3>1. \A i \in DOMAIN tiles_ : tiles_[i] = dialog.url => i = actionMenuTargetIndex_
      BY DEF TilesInv, DialogInv, computeDialogSaveDisabled_, computeDialogShortcutAlreadyExists_
    <3>2. 0 \notin DOMAIN tiles_
      BY OfList DEF TilesInv, ScreenOK
    <3> QED
      BY <3>1, <3>2 DEF Range
  <2> QED
    BY <2>1, <2>2 DEF TilesInv, TilesAreSound
<1> QED
  BY <1>1, InitTilesInv, NextTilesInv, PTL DEF TilesSpec

\* Only a drop asks for a reordering.
Plain == \/ tileRequests' = tileRequests
         \/ tileRequests # <<>> /\ tileRequests' = Tail(tileRequests)
         \/ \E r \in TileRequests : r.kind # "reorder" /\ tileRequests' = Append(tileRequests, r)

ReordersTheDragged ==
    \A i \in DOMAIN tileRequests' :
        tileRequests'[i].kind = "reorder" /\ i > Len(tileRequests)
            => \/ /\ dragged \in DOMAIN tiles_ /\ tileRequests'[i].url = tiles_[dragged]
                  /\ tiles_[dragged] = tileChosen \/ replaced
               \/ leftover

LEMMA PlainReorders == ASSUME BrowserOK, Plain PROVE ReordersTheDragged
<1>1. PICK q : q = tileRequests
  OBVIOUS
<1>2. PICK p : p = tileRequests'
  OBVIOUS
<1>3. q \in Seq(TileRequests) /\ Len(q) \in Nat
  BY <1>1, LenProperties DEF BrowserOK
<1>4. ASSUME NEW i \in DOMAIN p, p[i].kind = "reorder", i > Len(q) PROVE FALSE
  <2>1. CASE p = q
    <3>1. DOMAIN q = 1 .. Len(q)
      BY <1>3, LenProperties
    <3> QED
      BY <1>3, <1>4, <2>1, <3>1
  <2>2. CASE q # <<>> /\ p = Tail(q)
    <3>1. p \in Seq(TileRequests) /\ Len(p) = Len(q) - 1 /\ DOMAIN p = 1 .. Len(p)
      BY <1>3, <2>2, TakenOne, LenProperties
    <3> QED
      BY <1>3, <1>4, <3>1
  <2>3. ASSUME NEW r \in TileRequests, r.kind # "reorder", p = Append(q, r) PROVE FALSE
    <3>1. /\ p \in Seq(TileRequests) /\ Len(p) = Len(q) + 1 /\ p[Len(q) + 1] = r
          /\ DOMAIN p = 1 .. Len(p)
      BY <1>3, <2>3, AppendProperties, LenProperties
    <3>2. i = Len(q) + 1
      BY <1>3, <1>4, <3>1
    <3> QED
      BY <1>4, <2>3, <3>1, <3>2
  <2> QED
    BY <1>1, <1>2, <2>1, <2>2, <2>3 DEF Plain
<1> QED
  BY <1>1, <1>2, <1>4 DEF ReordersTheDragged

LEMMA DropReorders ==
    ASSUME TilesInv, dragging # "no", NEW at, NEW state, Drops(state, at), Dropped(state)
    PROVE  ReordersTheDragged
<1>1. PICK q : q = tileRequests
  OBVIOUS
<1>2. PICK sent : sent = state.sent
  OBVIOUS
<1>3. /\ q \in Seq(TileRequests) /\ sent \in Seq(TileRequests)
      /\ DOMAIN tiles_ = 1 .. Len(tiles_)
  BY <1>1, <1>2, OfList DEF TilesInv, BrowserOK, ScreenOK, Drops, Fits, DragStates
<1> DEFINE p == q \o sent
<1>4. /\ p \in Seq(TileRequests) /\ Len(q) \in Nat /\ Len(sent) \in Nat
      /\ Len(p) = Len(q) + Len(sent)
      /\ \A i \in 1 .. Len(sent) : p[Len(q) + i] = sent[i]
  BY <1>3, Followed
<1>5. tileRequests' = p
  BY <1>1, <1>2 DEF Dropped
<1> HIDE DEF p
<1>6. DOMAIN p = 1 .. Len(p)
  BY <1>4, LenProperties
<1>7. ASSUME NEW i \in DOMAIN p, i > Len(q)
      PROVE  leftover \/ (dragged \in DOMAIN tiles_ /\ p[i].url = tiles_[dragged])
  <2>1. i - Len(q) \in 1 .. Len(sent) /\ Len(q) + (i - Len(q)) = i
    BY <1>4, <1>6, <1>7
  <2>2. p[i] = sent[i - Len(q)]
    BY <1>4, <2>1
  <2> QED
    BY <1>2, <1>3, <2>1, <2>2 DEF Drops
<1>8. replaced \/ tiles_[dragged] = tileChosen
  BY DEF TilesInv, DragInv
<1> QED
  BY <1>1, <1>5, <1>7, <1>8 DEF ReordersTheDragged

LEMMA CalmIsPlain ==
    ASSUME TilesInv, TilesNext, \A at \in Elements \cup {0} : ~dragend(at) /\ ~touchEnd(at)
    PROVE  Plain
<1>1. \A kind \in {"refresh", "undo", "restore"} :
         /\ TileRequest(kind, NoUrl, NoUrl, 0) \in TileRequests
         /\ TileRequest(kind, NoUrl, NoUrl, 0).kind # "reorder"
  BY PlainRequests DEF TileRequest
<1>2. ASSUME NEW r, r.kind # "reorder", r \in TileRequests, Ask(r) PROVE Plain
  BY <1>2 DEF Ask, Plain
<1>3. ASSUME Still PROVE Plain
  BY <1>3 DEF Still, Plain
<1>4. ASSUME NEW index, tileRemove_(index) PROVE Plain
  <2>1. tiles_[index] \in Urls
    BY <1>4, OfList DEF TilesInv, ScreenOK, tileRemove_
  <2>2. PICK url : url = tiles_[index]
    OBVIOUS
  <2>3. /\ TileRequest("delete", url, NoUrl, 0) \in TileRequests
        /\ TileRequest("delete", url, NoUrl, 0).kind # "reorder"
    BY <2>1, <2>2 DEF TileRequest, TileRequests
  <2>4. Ask(TileRequest("delete", url, NoUrl, 0))
    BY <1>4, <2>2 DEF tileRemove_
  <2> QED
    BY <1>2, <2>3, <2>4
<1>5. ASSUME onSave_ PROVE Plain
  <2>1. dialog.url \in Urls
    BY <1>5 DEF onSave_, computeDialogSaveDisabled_, TilesInv, TargetsOK
  <2>2. PICK url : url = dialog.url
    OBVIOUS
  <2>3. ASSUME Ask(TileRequest("add", url, NoUrl, 0)) PROVE Plain
    <3>1. /\ TileRequest("add", url, NoUrl, 0) \in TileRequests
          /\ TileRequest("add", url, NoUrl, 0).kind # "reorder"
      BY <2>1, <2>2 DEF TileRequest, TileRequests
    <3> QED
      BY <1>2, <2>3, <3>1
  <2>4. PICK old : old = tiles_[actionMenuTargetIndex_]
    OBVIOUS
  <2>5. ASSUME actionMenuTargetIndex_ \in DOMAIN tiles_, Ask(TileRequest("update", old, url, 0))
        PROVE  Plain
    <3>1. old \in Urls
      BY <2>4, <2>5, OfList DEF TilesInv, ScreenOK
    <3>2. /\ TileRequest("update", old, url, 0) \in TileRequests
          /\ TileRequest("update", old, url, 0).kind # "reorder"
      BY <2>1, <2>2, <3>1 DEF TileRequest, TileRequests
    <3> QED
      BY <1>2, <2>5, <3>2
  <2> QED
    BY <1>3, <1>5, <2>2, <2>3, <2>4, <2>5 DEF onSave_
<1>6. CASE BrowserHandles \/ BrowserChanges \/ setMostVisitedInfo \/ onSave_answered
  BY <1>6 DEF BrowserHandles, BrowserChanges, setMostVisitedInfo, onSave_answered, Plain
<1>7. CASE visibilitychange
  BY <1>1, <1>2, <1>7 DEF visibilitychange
<1>8. CASE onUndoClick_ \/ onRestoreDefaultsClick_
  BY <1>1, <1>2, <1>8 DEF onUndoClick_, onRestoreDefaultsClick_, ToastButton
<1>9. CASE \E index \in Elements : onTileRemoveButtonClick_(index)
  BY <1>4, <1>9 DEF onTileRemoveButtonClick_
<1>10. CASE onRemove_
  <2>1. PICK index : index = actionMenuTargetIndex_
    OBVIOUS
  <2>2. tileRemove_(index) \/ Still
    BY <1>10, <2>1 DEF onRemove_
  <2> QED
    BY <1>3, <1>4, <2>2
<1>11. CASE \/ updateScreenWidth_ \/ ToastHides \/ DismissMenu \/ onEdit_ \/ onAdd_ \/ dragOver_
            \/ DragendLost \/ pointermoved
            \/ \E index \in Elements : onTileActionButtonClick_(index)
            \/ \E url \in Urls : Type(url)
            \/ \E byButton \in BOOLEAN : onDialogCancel_(byButton)
            \/ \E how \in {"mouse", "touch"}, index \in Elements : dragStart_(how, index)
  <2>1. Still
    BY <1>11, Zenon DEF updateScreenWidth_, ToastHides, DismissMenu, onEdit_, onAdd_, dragOver_,
       DragendLost, pointermoved, onTileActionButtonClick_, Type, onDialogCancel_, dragStart_
  <2> QED
    BY <1>3, <2>1
<1> QED
  BY <1>5, <1>6, <1>7, <1>8, <1>9, <1>10, <1>11 DEF TilesNext

LEMMA StepReorders == TilesInv /\ TilesNext => ReordersTheDragged
<1> SUFFICES ASSUME TilesInv, TilesNext PROVE ReordersTheDragged
  OBVIOUS
<1>1. ASSUME NEW at \in Elements \cup {0}, dragend(at) PROVE ReordersTheDragged
  <2>1. at \in Nat /\ dragging # "no"
    BY <1>1 DEF Elements, dragend
  <2>2. PICK once : once = dragEnd_(DragState, at)
    OBVIOUS
  <2>3. PICK state : state = IF orphan THEN dragEnd_(once, at) ELSE once
    OBVIOUS
  <2>4. Drops(state, at)
    <3>1. CASE orphan
      <4>1. missed
        BY <3>1 DEF TilesInv, DragInv
      <4> QED
        BY <2>1, <2>2, <2>3, <3>1, <4>1, TwiceDropped
    <3>2. CASE ~orphan
      BY <2>1, <2>2, <2>3, <3>2, OnceDropped
    <3> QED
      BY <3>1, <3>2
  <2>5. Dropped(state)
    BY <1>1, <2>2, <2>3 DEF dragend
  <2> QED
    BY <2>1, <2>4, <2>5, DropReorders
<1>2. ASSUME NEW at \in Elements \cup {0}, touchEnd(at) PROVE ReordersTheDragged
  <2>1. at \in Nat /\ dragging # "no"
    BY <1>2 DEF Elements, touchEnd
  <2>2. PICK state : state = dragEnd_(DragState, at)
    OBVIOUS
  <2>3. Drops(state, at) /\ Dropped(state)
    BY <1>2, <2>1, <2>2, OnceDropped DEF touchEnd
  <2> QED
    BY <2>1, <2>3, DropReorders
<1>3. CASE \A at \in Elements \cup {0} : ~dragend(at) /\ ~touchEnd(at)
  <2>1. BrowserOK /\ Plain
    BY <1>3, CalmIsPlain DEF TilesInv
  <2> QED
    BY <2>1, PlainReorders
<1> QED
  BY <1>1, <1>2, <1>3

\* A drop asks the browser to move the tile of the element the user dragged, also when a listener
\* of an earlier drag is still there, unless custom links were switched off during a drag.  That is
\* the tile the drag began on if no tiles were pushed during the drag; if some were, it is the one
\* that has come to the element's place (dragEnd_, dragStart_).
THEOREM DropsMoveTheDragged == TilesSpec => DropMovesTheDragged
<1>1. TilesInv /\ [TilesNext]_tilesVars => [ReordersTheDragged]_tilesVars
  BY StepReorders
<1>2. ReordersTheDragged <=>
        \A i \in DOMAIN tileRequests' :
            tileRequests'[i].kind = "reorder" /\ i > Len(tileRequests)
                => \/ /\ dragged \in DOMAIN tiles_ /\ tileRequests'[i].url = tiles_[dragged]
                      /\ tiles_[dragged] = tileChosen \/ replaced
                   \/ leftover
  BY DEF ReordersTheDragged
<1> QED
  BY <1>1, <1>2, InitTilesInv, NextTilesInv, PTL DEF TilesSpec, DropMovesTheDragged
-----------------------------------------------------------------------------
(* The password pages: types, and what the bounds on clicks and changes bound. *)

\* Calls that remove a password.
Removes(calls) == {i \in 1 .. Len(calls) : calls[i].kind = "remove"}

LEMMA RemovesAre ==
    ASSUME NEW calls \in Seq(Calls)
    PROVE  /\ IsFiniteSet(Removes(calls)) /\ Cardinality(Removes(calls)) \in Nat
           /\ Len(calls) \in Nat
<1>1. Len(calls) \in Nat
  BY LenProperties
<1>2. IsFiniteSet(1 .. Len(calls)) /\ Removes(calls) \in SUBSET (1 .. Len(calls))
  BY <1>1, FS_Interval DEF Removes
<1>3. IsFiniteSet(Removes(calls))
  BY <1>2, FS_Subset
<1> QED
  BY <1>1, <1>3, FS_CardinalityType

\* Other calls that follow count nothing, one that removes counts one.
LEMMA RemovesKept ==
    ASSUME NEW calls \in Seq(Calls), NEW more \in Seq(Calls),
           \A i \in 1 .. Len(more) : more[i].kind # "remove"
    PROVE  Removes(calls \o more) = Removes(calls)
<1> DEFINE all == calls \o more
<1>1. /\ Len(calls) \in Nat /\ Len(more) \in Nat /\ Len(all) = Len(calls) + Len(more)
      /\ \A i \in 1 .. Len(calls) : all[i] = calls[i]
      /\ \A i \in 1 .. Len(more) : all[Len(calls) + i] = more[i]
  BY Followed
<1> HIDE DEF all
<1>2. ASSUME NEW i \in 1 .. Len(all), i > Len(calls) PROVE all[i].kind # "remove"
  <2>1. i - Len(calls) \in 1 .. Len(more) /\ Len(calls) + (i - Len(calls)) = i
    BY <1>1, <1>2
  <2>2. all[i] = more[i - Len(calls)]
    BY <1>1, <2>1
  <2> QED
    BY <2>1, <2>2
<1>3. Removes(all) = Removes(calls)
  BY <1>1, <1>2 DEF Removes
<1> QED
  BY <1>3 DEF all

LEMMA RemovesGrow ==
    ASSUME NEW calls \in Seq(Calls), NEW call \in Calls
    PROVE  Cardinality(Removes(Append(calls, call))) <= Cardinality(Removes(calls)) + 1
<1> DEFINE all == Append(calls, call)
<1>1. /\ Len(calls) \in Nat /\ Len(all) = Len(calls) + 1
      /\ \A i \in 1 .. Len(calls) : all[i] = calls[i]
  BY Appended
<1>2. IsFiniteSet(Removes(calls)) /\ Cardinality(Removes(calls)) \in Nat
  BY RemovesAre
<1> HIDE DEF all
<1>3. Removes(all) \in {Removes(calls), Removes(calls) \cup {Len(calls) + 1}}
  BY <1>1 DEF Removes
<1> DEFINE R == Removes(calls)
           n == Len(calls) + 1
<1>4. IsFiniteSet(R) /\ Cardinality(R) \in Nat /\ Removes(all) \in {R, R \cup {n}}
  BY <1>2, <1>3
<1> HIDE DEF R, n
<1>5. Cardinality(R \cup {n}) = IF n \in R THEN Cardinality(R) ELSE Cardinality(R) + 1
  BY <1>4, FS_AddElement
<1>6. Cardinality(Removes(all)) \in {Cardinality(R), Cardinality(R) + 1}
  BY <1>4, <1>5
<1> QED
  BY <1>4, <1>6 DEF all, R

\* Shifted places are as many places.
LEMMA AsMany ==
    ASSUME NEW S \in SUBSET Int, IsFiniteSet(S)
    PROVE  Cardinality({i - 1 : i \in S}) = Cardinality(S)
<1> DEFINE T == {i - 1 : i \in S}
           f == [i \in S |-> i - 1]
<1>0. /\ f \in [S -> T] /\ \A i \in S : i \in Int /\ f[i] = i - 1
      /\ \A t \in T : \E i \in S : t = i - 1
  OBVIOUS
<1> HIDE DEF T, f
<1>1. f \in Injection(S, T)
  BY <1>0 DEF Injection, IsInjective
<1>2. f \in Surjection(S, T)
  BY <1>0 DEF Surjection
<1>3. ExistsBijection(S, T)
  BY <1>1, <1>2 DEF ExistsBijection, Bijection
<1>4. Cardinality(T) = Cardinality(S)
  BY <1>3, FS_Bijection
<1> QED
  BY <1>4 DEF T

\* The call that is taken is no longer counted.
LEMMA RemovesTaken ==
    ASSUME NEW calls \in Seq(Calls), calls # <<>>
    PROVE  Cardinality(Removes(Tail(calls))) =
              Cardinality(Removes(calls)) - (IF Head(calls).kind = "remove" THEN 1 ELSE 0)
<1>1. /\ Len(calls) \in Nat /\ Len(calls) > 0 /\ Head(calls) = calls[1]
      /\ Len(Tail(calls)) = Len(calls) - 1
      /\ \A i \in 1 .. Len(calls) - 1 : Tail(calls)[i] = calls[i + 1]
  BY TakenOne
<1>2. IsFiniteSet(Removes(calls)) /\ Cardinality(Removes(calls)) \in Nat
  BY RemovesAre
<1>3. /\ Removes(calls) \in SUBSET Int /\ Removes(calls) \ {1} \in SUBSET Int
      /\ 1 \in Removes(calls) <=> Head(calls).kind = "remove"
  BY <1>1 DEF Removes
<1>4. /\ IsFiniteSet(Removes(calls) \ {1})
      /\ Cardinality(Removes(calls) \ {1}) =
            Cardinality(Removes(calls)) - (IF Head(calls).kind = "remove" THEN 1 ELSE 0)
  BY <1>2, <1>3, FS_RemoveElement
<1>5. Removes(Tail(calls)) = {i - 1 : i \in Removes(calls) \ {1}}
  <2> DEFINE A == Removes(Tail(calls))
             B == Removes(calls) \ {1}
  <2>1. \A j \in A : j + 1 \in B /\ j = (j + 1) - 1
    BY <1>1 DEF Removes
  <2>2. ASSUME NEW i \in B PROVE i - 1 \in A
    <3>1. i - 1 \in 1 .. Len(calls) - 1 /\ i - 1 + 1 = i /\ calls[i].kind = "remove"
      BY <1>1 DEF Removes
    <3>2. Tail(calls)[i - 1] = calls[i]
      BY <1>1, <3>1
    <3> QED
      BY <1>1, <3>1, <3>2 DEF Removes
  <2>3. \A i \in B : i - 1 \in A
    BY <2>2
  <2> HIDE DEF A, B
  <2>4. A = {i - 1 : i \in B}
    BY <2>1, <2>3
  <2> QED
    BY <2>4 DEF A, B
<1>6. Cardinality({i - 1 : i \in Removes(calls) \ {1}}) = Cardinality(Removes(calls) \ {1})
  BY <1>3, <1>4, AsMany
<1> QED
  BY <1>4, <1>5, <1>6

\* What the menu, the dialogs and the passwords that are asked for may still lead to: each takes
\* one click, and each may remove one password.
Needed == (IF menu THEN 1 ELSE 0) + Cardinality(dialogs) + Len(edits)

LEMMA NeededIs ==
    ASSUME dialogs \subseteq Dialogs, edits \in Seq(Passwords)
    PROVE  /\ Cardinality(dialogs) \in Nat /\ Len(edits) \in Nat
           /\ Needed \in Nat /\ Len(edits) <= Needed
<1>1. Cardinality(dialogs) \in Nat /\ Len(edits) \in Nat
  BY DialogCount, Heights
<1> QED
  BY <1>1 DEF Needed

\* No step needs more than before, but for one more click.
LEMMA NeededStep ==
    ASSUME ListsOK, CheckSound, acts \in Nat, [CheckNext]_checkVars
    PROVE  /\ Needed \in Nat
           /\ \/ acts' = acts + 1 /\ Needed' <= Needed + 1
              \/ acts' = acts /\ Needed' <= Needed
           /\ DialogClosed => Needed' = Needed - 1
<1>0. /\ dialogs \in SUBSET Dialogs /\ edits \in Seq(Passwords)
      /\ Cardinality(dialogs) \in Nat /\ Len(edits) \in Nat /\ Needed \in Nat
  BY NeededIs DEF CheckSound
<1>a. \A d \in Dialogs : /\ Cardinality(dialogs \cup {d}) \in Nat
                         /\ Cardinality(dialogs \cup {d}) <= Cardinality(dialogs) + 1
                         /\ Cardinality(dialogs \ {d}) \in Nat
                         /\ d \in dialogs => Cardinality(dialogs \ {d}) = Cardinality(dialogs) - 1
                         /\ d \notin dialogs => dialogs \ {d} = dialogs
  <2>1. ASSUME NEW d \in Dialogs
        PROVE  dialogs \cup {d} \in SUBSET Dialogs /\ dialogs \ {d} \in SUBSET Dialogs
    BY <1>0
  <2> QED
    BY <1>0, <2>1, DialogCount
<1>b. "edit" \in Dialogs /\ "remove" \in Dialogs /\ "disclaimer" \in Dialogs
  BY DEF Dialogs
<1>1. ASSUME UNCHANGED <<menu, dialogs, edits>> PROVE Needed' = Needed
  BY <1>1 DEF Needed
<1>2. ASSUME onMoreActionsClick_ PROVE acts' = acts + 1 /\ Needed' <= Needed + 1
  <2>1. ~menu /\ menu' = TRUE /\ UNCHANGED <<dialogs, edits>> /\ acts' = acts + 1
    BY <1>2 DEF onMoreActionsClick_, NothingOpen, Act
  <2> QED
    BY <1>0, <2>1 DEF Needed
<1>3. ASSUME MenuDismissed \/ onMenuShowPasswordClick_ PROVE acts' = acts /\ Needed' <= Needed
  <2>1. menu /\ menu' = FALSE /\ UNCHANGED <<dialogs, edits, acts>>
    BY <1>3 DEF MenuDismissed, onMenuShowPasswordClick_, MenuOnTop
  <2> QED
    BY <1>0, <2>1 DEF Needed
<1>4. ASSUME onEditPasswordClick_ PROVE acts' = acts /\ Needed' <= Needed
  <2>1. /\ menu /\ menu' = FALSE /\ UNCHANGED <<dialogs, acts>>
        /\ edits' = Append(edits, activePassword_) /\ activePassword_ \in Passwords
    BY <1>4 DEF onEditPasswordClick_, MenuOnTop, CheckSound
  <2>2. Len(edits') = Len(edits) + 1
    BY <1>0, <2>1, Heights
  <2> QED
    BY <1>0, <2>1, <2>2 DEF Needed
<1>5. ASSUME onMenuRemovePasswordClick_ PROVE acts' = acts /\ Needed' <= Needed
  <2>1. /\ menu /\ menu' = FALSE /\ UNCHANGED <<edits, acts>>
        /\ dialogs' = dialogs \cup {"remove"}
    BY <1>5 DEF onMenuRemovePasswordClick_, MenuOnTop
  <2>2. Cardinality(dialogs') \in Nat /\ Cardinality(dialogs') <= Cardinality(dialogs) + 1
    BY <1>a, <1>b, <2>1
  <2> QED
    BY <1>0, <2>1, <2>2 DEF Needed
<1>6. ASSUME EditAnswered PROVE acts' = acts /\ Needed' <= Needed
  <2>1. /\ edits # <<>> /\ edits' = Tail(edits) /\ UNCHANGED <<menu, acts>>
        /\ dialogs' = dialogs \cup {"edit"}
    BY <1>6 DEF EditAnswered
  <2>2. Cardinality(dialogs') \in Nat /\ Cardinality(dialogs') <= Cardinality(dialogs) + 1
    BY <1>a, <1>b, <2>1
  <2>3. Len(edits') = Len(edits) - 1
    BY <1>0, <2>1, Shorter
  <2> QED
    BY <1>0, <2>1, <2>2, <2>3 DEF Needed
<1>7. ASSUME EditRefused PROVE acts' = acts /\ Needed' <= Needed
  <2>1. /\ edits # <<>> /\ edits' = Tail(edits) /\ UNCHANGED <<menu, acts>>
        /\ dialogs' = dialogs \ {"edit"}
    BY <1>7 DEF EditRefused
  <2>2. Cardinality(dialogs') \in Nat /\ Cardinality(dialogs') <= Cardinality(dialogs)
    <3>1. /\ Cardinality(dialogs') \in Nat
          /\ "edit" \in dialogs => Cardinality(dialogs') = Cardinality(dialogs) - 1
          /\ "edit" \notin dialogs => dialogs' = dialogs
      BY <1>a, <1>b, <2>1
    <3> QED
      BY <1>0, <3>1
  <2>3. Len(edits') = Len(edits) - 1
    BY <1>0, <2>1, Shorter
  <2> QED
    BY <1>0, <2>1, <2>2, <2>3 DEF Needed
<1>8. ASSUME onAlreadyChangedClick_ PROVE acts' = acts + 1 /\ Needed' <= Needed + 1
  <2>1. /\ UNCHANGED <<menu, edits>> /\ acts' = acts + 1
        /\ dialogs' = dialogs \cup {"disclaimer"}
    BY <1>8 DEF onAlreadyChangedClick_, Act
  <2>2. Cardinality(dialogs') \in Nat /\ Cardinality(dialogs') <= Cardinality(dialogs) + 1
    BY <1>a, <1>b, <2>1
  <2> QED
    BY <1>0, <2>1, <2>2 DEF Needed
<1>9. ASSUME DialogClosed PROVE acts' = acts /\ Needed' = Needed - 1
  <2>1. PICK closed \in dialogs : dialogs' = dialogs \ {closed}
    BY <1>9 DEF DialogClosed, Closed
  <2>2. UNCHANGED <<menu, edits, acts>>
    BY <1>9 DEF DialogClosed
  <2>3. Cardinality(dialogs') = Cardinality(dialogs) - 1
    BY <1>0, <1>a, <2>1
  <2> QED
    BY <1>0, <2>2, <2>3 DEF Needed
<1>10. CASE BrowserStarts \/ BrowserStops \/ BrowserReports \/ BrowserRemoves \/ PasswordsChange
            \/ CheckEnds \/ PageReads \/ currentRouteChanged \/ onPasswordCheckButtonClick_
            \/ UNCHANGED checkVars
  <2>1. UNCHANGED <<menu, dialogs, edits>> /\ (acts' = acts \/ acts' = acts + 1)
    BY <1>10 DEF BrowserStarts, BrowserStops, BrowserReports, BrowserRemoves, PasswordsChange,
       CheckEnds, PageReads, currentRouteChanged, onPasswordCheckButtonClick_, checkVars, dialogVars, Act
  <2>2. Needed' = Needed
    BY <1>1, <2>1
  <2>3. DialogClosed => Needed' = Needed - 1
    BY <1>9
  <2> QED
    BY <1>0, <2>1, <2>2, <2>3
<1>11. CASE onMoreActionsClick_ \/ onAlreadyChangedClick_
  BY <1>0, <1>2, <1>8, <1>9, <1>11
<1>12. CASE MenuDismissed \/ onMenuShowPasswordClick_ \/ onEditPasswordClick_
            \/ onMenuRemovePasswordClick_ \/ EditAnswered \/ EditRefused
  BY <1>0, <1>3, <1>4, <1>5, <1>6, <1>7, <1>9, <1>12
<1>13. CASE DialogClosed
  BY <1>0, <1>9, <1>13
<1> QED
  BY <1>10, <1>11, <1>12, <1>13 DEF CheckNext, Answers, Menu, Dialog
\* Each password that changes or will have been removed, each dialog that may still remove one and
\* each password that is still asked for has cost one change or one click.
BudgetInv ==
    /\ toBrowser \in Seq(Calls) /\ version \in Nat
    /\ changes \in 0 .. MaxChanges /\ acts \in 0 .. MaxActs
    /\ Needed <= acts
    /\ version + Cardinality(Removes(toBrowser)) + Needed <= changes + acts

\* Calls the page makes.
LEMMA CallsAre ==
    /\ \A k \in {"start", "autostart", "stop", "status", "first"} : Call(k, NoPassword) \in Calls
    /\ \A p \in Passwords : Call("remove", p) \in Calls
    /\ \A k, p : Call(k, p).kind = k
BY DEF Call, Calls

\* A click is one more, and within the bound.
LEMMA ActStep ==
    ASSUME acts \in 0 .. MaxActs, [CheckNext]_checkVars
    PROVE  acts' \in 0 .. MaxActs /\ (acts' = acts \/ acts' = acts + 1)
<1>0. MaxActs \in Nat
  BY PasswordsAssumption DEF PasswordsAssumption
<1>1. acts' = acts \/ (acts < MaxActs /\ acts' = acts + 1)
  BY DEF CheckNext, Answers, Menu, Dialog, BrowserStarts, BrowserStops, BrowserReports,
     BrowserRemoves, PasswordsChange, CheckEnds, PageReads, currentRouteChanged,
     onPasswordCheckButtonClick_, onMoreActionsClick_, MenuDismissed, onMenuShowPasswordClick_,
     onEditPasswordClick_, onMenuRemovePasswordClick_, EditAnswered, EditRefused,
     onAlreadyChangedClick_, DialogClosed, Act, checkVars
<1> QED
  BY <1>0, <1>1

\* What the browser takes from the calls, and the changes it makes itself.
LEMMA BudgetOfBrowser ==
    ASSUME BudgetInv, Needed \in Nat, Answers \/ PasswordsChange \/ CheckEnds
    PROVE  BudgetInv'
<1>0. /\ Cardinality(Removes(toBrowser)) \in Nat /\ MaxActs \in Nat /\ MaxChanges \in Nat
      /\ changes \in 0 .. MaxChanges /\ acts \in 0 .. MaxActs /\ version \in Nat
      /\ toBrowser \in Seq(Calls)
      /\ Needed <= acts /\ version + Cardinality(Removes(toBrowser)) + Needed <= changes + acts
  BY RemovesAre, PasswordsAssumption DEF BudgetInv, PasswordsAssumption
<1>1. UNCHANGED <<menu, dialogs, edits, acts>>
  BY DEF Answers, BrowserStarts, BrowserStops, BrowserReports, BrowserRemoves, PasswordsChange,
     CheckEnds, dialogVars
<1>2. Needed' = Needed
  BY <1>1 DEF Needed
<1>3. CASE Answers
  <2>1. /\ toBrowser # <<>> /\ toBrowser' = Tail(toBrowser) /\ UNCHANGED changes
        /\ \/ Head(toBrowser).kind # "remove" /\ version' = version
           \/ Head(toBrowser).kind = "remove" /\ version' = version + 1
    BY <1>3 DEF Answers, BrowserStarts, BrowserStops, BrowserReports, BrowserRemoves, browserVars
  <2>2. toBrowser' \in Seq(Calls)
    BY <1>0, <2>1, TakenOne
  <2>3. /\ Cardinality(Removes(toBrowser')) =
              Cardinality(Removes(toBrowser)) - (IF Head(toBrowser).kind = "remove" THEN 1 ELSE 0)
        /\ Cardinality(Removes(toBrowser')) \in Nat
    BY <1>0, <2>1, <2>2, RemovesTaken, RemovesAre
  <2> QED
    BY <1>0, <1>1, <1>2, <2>1, <2>2, <2>3 DEF BudgetInv
<1>4. CASE PasswordsChange \/ CheckEnds
  <2>1. /\ changes < MaxChanges /\ changes' = changes + 1 /\ version' \in {version, version + 1}
        /\ UNCHANGED toBrowser
    BY <1>4 DEF PasswordsChange, CheckEnds
  <2>2. version' \in Nat /\ version' <= version + 1
    BY <1>0, <2>1
  <2> QED
    BY <1>0, <1>1, <1>2, <2>1, <2>2 DEF BudgetInv
<1> QED
  BY <1>3, <1>4

\* What the page asks of the browser: a removal only when a dialog closes.
LEMMA CallsOfPage ==
    ASSUME CheckSound, toBrowser \in Seq(Calls), status \in Status,
           currentRouteChanged \/ onPasswordCheckButtonClick_ \/ DialogClosed
    PROVE  /\ toBrowser' \in Seq(Calls)
           /\ Cardinality(Removes(toBrowser')) <= Cardinality(Removes(toBrowser)) + 1
           /\ currentRouteChanged =>
                 Cardinality(Removes(toBrowser')) <= Cardinality(Removes(toBrowser))
<1>0. /\ Cardinality(Removes(toBrowser)) \in Nat
      /\ activePassword_ \in Passwords \cup {NoPassword}
  BY RemovesAre DEF CheckSound
<1> DEFINE Grown(calls) ==
               /\ calls \in Seq(Calls)
               /\ Cardinality(Removes(calls)) <= Cardinality(Removes(toBrowser)) + 1
<1>a. Grown(toBrowser)
  BY <1>0
<1>b. ASSUME NEW call \in Calls PROVE Grown(Append(toBrowser, call))
  BY RemovesGrow, AppendProperties
<1> HIDE DEF Grown
<1>1. ASSUME currentRouteChanged
      PROVE  toBrowser' \in Seq(Calls) /\ Removes(toBrowser') = Removes(toBrowser)
  <2> DEFINE status_ == Call("status", NoPassword)
             auto    == Call("autostart", NoPassword)
  <2>1. status_ \in Calls /\ auto \in Calls /\ status_.kind # "remove" /\ auto.kind # "remove"
    BY CallsAre
  <2>2. PICK atCheck, start \in BOOLEAN :
          toBrowser' = toBrowser \o (IF MayStartAutomatically(atCheck, start) THEN <<auto>> ELSE <<>>)
                                 \o <<status_>>
    BY <1>1 DEF currentRouteChanged
  <2> HIDE DEF status_, auto
  <2>3. PICK first : /\ first \in Seq(Calls) /\ \A i \in 1 .. Len(first) : first[i].kind # "remove"
                     /\ toBrowser' = (toBrowser \o first) \o <<status_>>
    <3>1. CASE MayStartAutomatically(atCheck, start)
      <4>1. <<auto>> \in Seq(Calls) /\ \A i \in 1 .. Len(<<auto>>) : <<auto>>[i].kind # "remove"
        BY <2>1
      <4> QED
        BY <2>2, <3>1, <4>1
    <3>2. CASE ~MayStartAutomatically(atCheck, start)
      <4>1. <<>> \in Seq(Calls) /\ Len(<<>>) = 0
        BY EmptySeq
      <4>2. \A i \in 1 .. Len(<<>>) : <<>>[i].kind # "remove"
        BY <4>1
      <4> QED
        BY <2>2, <3>2, <4>1, <4>2
    <3> QED
      BY <3>1, <3>2
  <2>4. toBrowser \o first \in Seq(Calls) /\ Removes(toBrowser \o first) = Removes(toBrowser)
    BY <2>3, RemovesKept, Followed
  <2>5. PICK half \in Seq(Calls) : half = toBrowser \o first
    BY <2>4
  <2>6. <<status_>> \in Seq(Calls) /\ \A i \in 1 .. Len(<<status_>>) : <<status_>>[i].kind # "remove"
    BY <2>1
  <2>7. half \o <<status_>> \in Seq(Calls) /\ Removes(half \o <<status_>>) = Removes(half)
    BY <2>5, <2>6, RemovesKept, Followed
  <2> QED
    BY <2>3, <2>4, <2>5, <2>7
<1>2. ASSUME onPasswordCheckButtonClick_ PROVE Grown(toBrowser')
  <2>1. \/ toBrowser' = Append(toBrowser, Call("stop", NoPassword))
        \/ toBrowser' = Append(toBrowser, Call("start", NoPassword))
        \/ toBrowser' = toBrowser
    <3>1. /\ status.state = "RUNNING"
             => toBrowser' = Append(toBrowser, Call("stop", NoPassword))
          /\ status.state \in {"IDLE", "CANCELED", "OFFLINE", "OTHER_ERROR", "SIGNED_OUT"}
             => toBrowser' = Append(toBrowser, Call("start", NoPassword))
          /\ status.state \in {"NO_PASSWORDS", "QUOTA_LIMIT"} => toBrowser' = toBrowser
      BY <1>2 DEF onPasswordCheckButtonClick_
    <3>2. status.state \in CheckState
      BY DEF Status
    <3> QED
      BY <3>1, <3>2 DEF CheckState
  <2>2. Call("stop", NoPassword) \in Calls /\ Call("start", NoPassword) \in Calls
    BY CallsAre
  <2> QED
    BY <1>a, <1>b, <2>1, <2>2
<1>3. ASSUME DialogClosed PROVE Grown(toBrowser')
  <2>1. \/ toBrowser' = toBrowser
        \/ /\ activePassword_ # NoPassword
           /\ toBrowser' = Append(toBrowser, Call("remove", activePassword_))
    BY <1>3 DEF DialogClosed
  <2>2. activePassword_ # NoPassword => Call("remove", activePassword_) \in Calls
    BY <1>0, CallsAre
  <2> QED
    BY <1>a, <1>b, <2>1, <2>2
<1> QED
  <2>1. CASE currentRouteChanged
    BY <1>0, <1>1, <2>1
  <2>2. CASE ~currentRouteChanged
    BY <1>2, <1>3, <2>2 DEF Grown
  <2> QED
    BY <2>1, <2>2

\* The budget is kept by every step of the page and the browser.
LEMMA BudgetStep ==
    ASSUME ListsOK, CheckSound, status \in Status, BudgetInv, [CheckNext]_checkVars
    PROVE  BudgetInv'
<1>0. /\ Cardinality(Removes(toBrowser)) \in Nat /\ Needed \in Nat
      /\ changes \in Nat /\ changes \in 0 .. MaxChanges
      /\ acts \in Nat /\ acts \in 0 .. MaxActs /\ version \in Nat
      /\ toBrowser \in Seq(Calls)
      /\ Needed <= acts /\ version + Cardinality(Removes(toBrowser)) + Needed <= changes + acts
  BY RemovesAre, NeededIs DEF BudgetInv, CheckSound
<1>1. acts' \in 0 .. MaxActs
  BY <1>0, ActStep
<1>2. Needed' \in Nat
  <2>1. CheckSound'
    BY CheckSoundStep
  <2>2. /\ dialogs' \subseteq Dialogs /\ edits' \in Seq(Passwords)
    BY <2>1 DEF CheckSound
  <2>3. Cardinality(dialogs') \in Nat /\ Len(edits') \in Nat
    BY <2>2, DialogCount, Heights
  <2> QED
    BY <2>3 DEF Needed
<1>3. /\ \/ acts' = acts + 1 /\ Needed' <= Needed + 1
         \/ acts' = acts /\ Needed' <= Needed
      /\ DialogClosed => Needed' = Needed - 1
  BY <1>0, NeededStep
<1>4. CASE Answers \/ PasswordsChange \/ CheckEnds
  BY <1>0, <1>4, BudgetOfBrowser
<1>5. CASE currentRouteChanged \/ onPasswordCheckButtonClick_ \/ DialogClosed
  <2>1. /\ toBrowser' \in Seq(Calls)
        /\ Cardinality(Removes(toBrowser')) <= Cardinality(Removes(toBrowser)) + 1
        /\ currentRouteChanged =>
              Cardinality(Removes(toBrowser')) <= Cardinality(Removes(toBrowser))
    BY <1>0, <1>5, CallsOfPage
  <2>2. Cardinality(Removes(toBrowser')) \in Nat
    BY <2>1, RemovesAre
  <2>3. UNCHANGED <<version, changes>>
    BY <1>5 DEF currentRouteChanged, onPasswordCheckButtonClick_, DialogClosed, elsewhereVars,
       browserVars
  <2>4. CASE currentRouteChanged \/ onPasswordCheckButtonClick_
    <3>1. acts' = acts + 1 /\ Needed' = Needed
      BY <2>4 DEF currentRouteChanged, onPasswordCheckButtonClick_, Act, dialogVars, Needed
    <3> QED
      BY <1>0, <1>1, <1>2, <2>1, <2>2, <2>3, <3>1 DEF BudgetInv
  <2>5. CASE DialogClosed
    <3>1. acts' = acts /\ Needed' = Needed - 1
      BY <1>3, <2>5 DEF DialogClosed
    <3> QED
      BY <1>0, <1>1, <1>2, <2>1, <2>2, <2>3, <3>1 DEF BudgetInv
  <2> QED
    BY <1>5, <2>4, <2>5
<1>6. CASE UNCHANGED <<toBrowser, version, changes>>
  BY <1>0, <1>1, <1>2, <1>3, <1>6 DEF BudgetInv
<1> QED
  BY <1>4, <1>5, <1>6
     DEF CheckNext, Menu, Dialog, PageReads, onMoreActionsClick_, MenuDismissed,
         onMenuShowPasswordClick_, onEditPasswordClick_, onMenuRemovePasswordClick_, EditAnswered,
         EditRefused, onAlreadyChangedClick_, elsewhereVars, browserVars, checkVars
-----------------------------------------------------------------------------
(* The password pages: types.                                              *)

\* What else the page that checks passwords holds.
PageInv ==
    /\ status \in Status /\ isInitialStatus \in BOOLEAN
    /\ startCheckAutomaticallySucceeded \in BOOLEAN
    /\ activeListItem_ \in Passwords \cup {NoPassword} /\ menu \in BOOLEAN
    /\ chosen \in Passwords \cup {NoPassword} /\ disturbed \in BOOLEAN
    /\ startedAt \in 0 .. version /\ trapped \in BOOLEAN /\ overtaken \subseteq {"check", "status"}

\* Every step of the page and the browser keeps the types.
LEMMA PageStep ==
    ASSUME ListsOK, PageInv, version \in Nat, [CheckNext]_checkVars PROVE PageInv'
<1> DEFINE StatusOK == status \in Status /\ isInitialStatus \in BOOLEAN
           MenuOK   == /\ activeListItem_ \in Passwords \cup {NoPassword} /\ menu \in BOOLEAN
                       /\ chosen \in Passwords \cup {NoPassword}
           FlagsOK  == disturbed \in BOOLEAN /\ trapped \in BOOLEAN
           StartOK  == startCheckAutomaticallySucceeded \in BOOLEAN
           SinceOK  == startedAt \in 0 .. version
<1>0. /\ StatusOK /\ MenuOK /\ FlagsOK /\ StartOK /\ SinceOK
      /\ insecurePasswords \subseteq Passwords /\ toPage \in Seq(Messages)
  BY DEF PageInv, ListsOK
<1>1. StatusOK' /\ StartOK'
  <2>1. CASE UNCHANGED <<status, isInitialStatus, startCheckAutomaticallySucceeded>>
    BY <1>0, <2>1
  <2>2. CASE PageReads
    <3>1. PICK i \in DOMAIN toPage :
          \/ /\ startCheckAutomaticallySucceeded' = FALSE
             /\ UNCHANGED <<status, isInitialStatus>>
          \/ /\ toPage[i].kind = "started"
             /\ startCheckAutomaticallySucceeded' =
                   (startCheckAutomaticallySucceeded \/ toPage[i].success)
             /\ UNCHANGED <<status, isInitialStatus>>
          \/ /\ IsStatus(toPage[i])
             /\ status' = toPage[i].status
             /\ isInitialStatus' = (isInitialStatus /\ toPage[i].kind = "answer")
             /\ UNCHANGED startCheckAutomaticallySucceeded
          \/ UNCHANGED <<status, isInitialStatus, startCheckAutomaticallySucceeded>>
      BY <2>2 DEF PageReads, setSavedPasswordsListener, shownVars
    <3>2. toPage[i] \in Messages
      BY <1>0, ElementOfSeq, LenProperties
    <3>3. /\ IsStatus(toPage[i]) => toPage[i].status \in Status
          /\ toPage[i].kind = "started" => toPage[i].success \in BOOLEAN
      BY <3>2 DEF Messages, IsStatus
    <3>4. CASE IsStatus(toPage[i]) /\ status' = toPage[i].status
            /\ isInitialStatus' = (isInitialStatus /\ toPage[i].kind = "answer")
            /\ UNCHANGED startCheckAutomaticallySucceeded
      <4>1. isInitialStatus' \in BOOLEAN
        BY <3>4
      <4> QED
        BY <1>0, <3>3, <3>4, <4>1
    <3>5. CASE toPage[i].kind = "started" /\ UNCHANGED <<status, isInitialStatus>>
            /\ startCheckAutomaticallySucceeded' =
                   (startCheckAutomaticallySucceeded \/ toPage[i].success)
      <4>1. startCheckAutomaticallySucceeded' \in BOOLEAN
        BY <3>5
      <4> QED
        BY <1>0, <3>5, <4>1
    <3> QED
      BY <1>0, <3>1, <3>4, <3>5
  <2> QED
    BY <2>1, <2>2
       DEF CheckNext, Answers, Menu, Dialog, BrowserStarts, BrowserStops, BrowserReports,
           BrowserRemoves, PasswordsChange, CheckEnds, currentRouteChanged,
           onPasswordCheckButtonClick_, onMoreActionsClick_, MenuDismissed,
           onMenuShowPasswordClick_, onEditPasswordClick_, onMenuRemovePasswordClick_,
           EditAnswered, EditRefused, onAlreadyChangedClick_, DialogClosed, elsewhereVars,
           statusVars, shownVars, checkVars
<1>2. SinceOK'
  <2>1. /\ startedAt' = startedAt \/ startedAt' = version
        /\ version' = version \/ version' = version + 1
    BY DEF CheckNext, Answers, Menu, Dialog, BrowserStarts, BrowserStops, BrowserReports,
           BrowserRemoves, PasswordsChange, CheckEnds, PageReads, currentRouteChanged,
           onPasswordCheckButtonClick_, onMoreActionsClick_, MenuDismissed,
           onMenuShowPasswordClick_, onEditPasswordClick_, onMenuRemovePasswordClick_,
           EditAnswered, EditRefused, onAlreadyChangedClick_, DialogClosed, elsewhereVars,
           browserVars, checkVars
  <2> QED
    BY <1>0, <2>1
<1>3. MenuOK'
  <2>1. /\ menu' = menu \/ menu' = TRUE \/ menu' = FALSE
        /\ \/ UNCHANGED <<activeListItem_, chosen>>
           \/ \E p \in insecurePasswords : activeListItem_' = p /\ chosen' = p
    BY DEF CheckNext, Answers, Menu, Dialog, BrowserStarts, BrowserStops, BrowserReports,
           BrowserRemoves, PasswordsChange, CheckEnds, PageReads, currentRouteChanged,
           onPasswordCheckButtonClick_, onMoreActionsClick_, MenuDismissed,
           onMenuShowPasswordClick_, onEditPasswordClick_, onMenuRemovePasswordClick_,
           EditAnswered, EditRefused, onAlreadyChangedClick_, DialogClosed, dialogVars,
           checkVars
  <2> QED
    BY <1>0, <2>1
<1>4. FlagsOK'
  <2>1. disturbed' = disturbed \/ disturbed' = TRUE \/ disturbed' = FALSE
    BY DEF CheckNext, Answers, Menu, Dialog, BrowserStarts, BrowserStops, BrowserReports,
           BrowserRemoves, PasswordsChange, CheckEnds, PageReads, currentRouteChanged,
           onPasswordCheckButtonClick_, onMoreActionsClick_, MenuDismissed,
           onMenuShowPasswordClick_, onEditPasswordClick_, onMenuRemovePasswordClick_,
           EditAnswered, EditRefused, onAlreadyChangedClick_, DialogClosed, dialogVars,
           checkVars
  <2>2. \/ trapped' = trapped
        \/ trapped' = (trapped \/ status.state \in {"NO_PASSWORDS", "QUOTA_LIMIT"})
        \/ trapped' = (trapped \/ activeDialogAnchorStack_ = <<>>)
    BY DEF CheckNext, Answers, Menu, Dialog, BrowserStarts, BrowserStops, BrowserReports,
           BrowserRemoves, PasswordsChange, CheckEnds, PageReads, currentRouteChanged,
           onPasswordCheckButtonClick_, onMoreActionsClick_, MenuDismissed,
           onMenuShowPasswordClick_, onEditPasswordClick_, onMenuRemovePasswordClick_,
           EditAnswered, EditRefused, onAlreadyChangedClick_, DialogClosed, DialogPops, AssertPop,
           checkVars
  <2>3. trapped' \in BOOLEAN
    BY <1>0, <2>2
  <2>4. disturbed' \in BOOLEAN
    BY <1>0, <2>1
  <2> QED
    BY <2>3, <2>4
<1>5. overtaken' \subseteq {"check", "status"}
  <2>1. UNCHANGED overtaken
        \/ \E i \in DOMAIN toPage : overtaken' =
              overtaken \cup UNION {Overtakes(toPage[j], toPage[i]) : j \in 1 .. i - 1}
    BY DEF CheckNext, Answers, Menu, Dialog, BrowserStarts, BrowserStops, BrowserReports,
           BrowserRemoves, PasswordsChange, CheckEnds, PageReads, currentRouteChanged,
           onPasswordCheckButtonClick_, onMoreActionsClick_, MenuDismissed,
           onMenuShowPasswordClick_, onEditPasswordClick_, onMenuRemovePasswordClick_,
           EditAnswered, EditRefused, onAlreadyChangedClick_, DialogClosed, elsewhereVars,
           statusVars, checkVars
  <2>2. \A a, b : Overtakes(a, b) \subseteq {"check", "status"}
    BY DEF Overtakes
  <2>3. \A i \in DOMAIN toPage :
           UNION {Overtakes(toPage[j], toPage[i]) : j \in 1 .. i - 1} \subseteq {"check", "status"}
    BY <2>2
  <2> QED
    BY <2>1, <2>3 DEF PageInv
<1> QED
  BY <1>1, <1>2, <1>3, <1>4, <1>5 DEF PageInv
\* What else the section holds; an anchor costs a click.
SettingsInv ==
    /\ account \in Account
    /\ exportImportMenu \in BOOLEAN /\ showPasswordsExportDialog_ \in BOOLEAN
    /\ ~(exportImportMenu /\ showPasswordsExportDialog_)
    /\ sectionAnchors \in 0 .. acts
    /\ changes \in 0 .. MaxChanges /\ acts \in 0 .. MaxActs
    /\ grown \subseteq Sites /\ whole \subseteq Copies

\* Every step of the section keeps the types.
LEMMA SettingsStep ==
    ASSUME SettingsInv, SectionNext
    PROVE  SettingsInv' /\ acts' >= acts /\ changes' >= changes
<1>0. /\ account \in Account
      /\ exportImportMenu \in BOOLEAN /\ showPasswordsExportDialog_ \in BOOLEAN
      /\ ~(exportImportMenu /\ showPasswordsExportDialog_)
      /\ sectionAnchors \in 0 .. acts
      /\ changes \in 0 .. MaxChanges /\ acts \in 0 .. MaxActs
      /\ grown \subseteq Sites /\ whole \subseteq Copies
      /\ MaxChanges \in Nat /\ MaxActs \in Nat
  BY PasswordsAssumption DEF SettingsInv, PasswordsAssumption
<1>1. account' \in Account
  <2>1. CASE UNCHANGED account
    BY <1>0, <2>1
  <2>2. CASE AccountChanges
    <3>1. \/ \E s \in Sync : account' = [account EXCEPT !.syncStatus = s]
          \/ \E p \in Prefs : account' = [account EXCEPT !.syncPrefs = p]
          \/ \E b \in BOOLEAN : account' = [account EXCEPT !.stored = b]
      BY <2>2 DEF AccountChanges
    <3> QED
      BY <1>0, <3>1 DEF Account
  <2> QED
    BY <2>1, <2>2
       DEF SectionNext, RemovesExceptions, Undoes, ChangesOptIn, ExceptionStored, SectionReads,
           onRemoveExceptionButtonTap_, onUndoKeyBinding_, onOpt_, onImportExportMenuTap_,
           onImportTap_, onExportTap_, onPasswordsExportDialogClosed_, sectionShown, browserSide
<1>2. grown' \subseteq Sites /\ whole' \subseteq Copies
  <2>1. UNCHANGED whole /\ (UNCHANGED grown \/ \E copy \in Copies : grown' = grown \cup {copy[1]})
    BY DEF SectionNext, RemovesExceptions, Undoes, ChangesOptIn, ExceptionStored, AccountChanges,
           SectionReads, onRemoveExceptionButtonTap_, onUndoKeyBinding_, onOpt_,
           onImportExportMenuTap_, onImportTap_, onExportTap_, onPasswordsExportDialogClosed_,
           sectionShown, browserSide
  <2>2. \A copy \in Copies : copy[1] \in Sites
    BY DEF Copies
  <2> QED
    BY <1>0, <2>1, <2>2
<1>3. /\ changes' \in 0 .. MaxChanges /\ changes' >= changes
      /\ acts' \in 0 .. MaxActs /\ acts' >= acts
  <2>1. /\ changes' = changes \/ (changes < MaxChanges /\ changes' = changes + 1)
        /\ acts' = acts \/ (acts < MaxActs /\ acts' = acts + 1)
    BY DEF SectionNext, RemovesExceptions, Undoes, ChangesOptIn, ExceptionStored, AccountChanges,
           SectionReads, onRemoveExceptionButtonTap_, onUndoKeyBinding_, onOpt_,
           onImportExportMenuTap_, onImportTap_, onExportTap_, onPasswordsExportDialogClosed_,
           sectionShown, browserSide, Act
  <2> QED
    BY <1>0, <2>1
<1>4. /\ exportImportMenu' \in BOOLEAN /\ showPasswordsExportDialog_' \in BOOLEAN
      /\ ~(exportImportMenu' /\ showPasswordsExportDialog_')
      /\ sectionAnchors' \in 0 .. acts'
  <2>1. CASE UNCHANGED menuVars
    BY <1>0, <1>3, <2>1 DEF menuVars
  <2>2. CASE onImportExportMenuTap_
    BY <1>0, <2>2 DEF onImportExportMenuTap_, SectionFree, Act
  <2>3. CASE onImportTap_
    BY <1>0, <2>3 DEF onImportTap_
  <2>4. CASE onExportTap_
    BY <1>0, <2>4 DEF onExportTap_, ExportMenuAfter
  <2>5. CASE onPasswordsExportDialogClosed_
    <3>1. /\ showPasswordsExportDialog_' = FALSE /\ UNCHANGED <<exportImportMenu, acts>>
          /\ sectionAnchors' = IF sectionAnchors > 0 THEN sectionAnchors - 1 ELSE 0
      BY <2>5 DEF onPasswordsExportDialogClosed_
    <3>2. acts \in Nat /\ sectionAnchors' \in 0 .. acts
      BY <1>0, <3>1
    <3> QED
      BY <1>0, <3>1, <3>2
  <2> QED
    BY <2>1, <2>2, <2>3, <2>4, <2>5
       DEF SectionNext, RemovesExceptions, Undoes, ChangesOptIn, ExceptionStored, AccountChanges,
           SectionReads, onRemoveExceptionButtonTap_, onUndoKeyBinding_, onOpt_, menuVars
<1> QED
  BY <1>0, <1>1, <1>2, <1>3, <1>4 DEF SettingsInv

-----------------------------------------------------------------------------
(* The types of the password pages, and of all three pages.                *)

PasswordsInv ==
    /\ IInv /\ SectionInv /\ BudgetInv /\ PageInv /\ SettingsInv /\ page \in {"check", "section"}

LEMMA InitPasswordsInv == Init => PasswordsInv
<1> SUFFICES ASSUME Init PROVE PasswordsInv
  OBVIOUS
<1>0. MaxActs \in Nat /\ MaxChanges \in Nat
  BY PasswordsAssumption DEF PasswordsAssumption
<1>1. PageInv
  <2>1. /\ status = [state |-> "IDLE", checked |-> FALSE] /\ isInitialStatus = TRUE
        /\ startCheckAutomaticallySucceeded = FALSE /\ activeListItem_ = NoPassword
        /\ menu = FALSE /\ chosen = NoPassword /\ disturbed = FALSE /\ trapped = FALSE
        /\ startedAt = 0 /\ version = 0 /\ overtaken = {}
    BY DEF Init, CheckInit
  <2>2. [state |-> "IDLE", checked |-> FALSE] \in Status /\ 0 \in 0 .. 0
    BY DEF Status, CheckState
  <2> QED
    BY <2>1, <2>2 DEF PageInv
<1>2. SettingsInv
  <2>1. /\ account \in Account /\ exportImportMenu = FALSE /\ showPasswordsExportDialog_ = FALSE
        /\ sectionAnchors = 0 /\ changes = 0 /\ acts = 0 /\ grown = {} /\ whole \in SUBSET Copies
    BY DEF Init, CheckInit
  <2>2. 0 \in 0 .. 0 /\ 0 \in 0 .. MaxChanges /\ 0 \in 0 .. MaxActs
    BY <1>0
  <2> QED
    BY <2>1, <2>2 DEF SettingsInv
<1>3. BudgetInv
  <2>1. toBrowser = <<Call("first", NoPassword)>> /\ version = 0 /\ changes = 0 /\ acts = 0
        /\ dialogs = {} /\ edits = <<>> /\ menu = FALSE
    BY DEF Init, CheckInit
  <2>2. Call("first", NoPassword) \in Calls /\ Call("first", NoPassword).kind # "remove"
    BY CallsAre
  <2>3. toBrowser \in Seq(Calls) /\ Removes(toBrowser) = {}
    BY <2>1, <2>2 DEF Removes
  <2>4. Cardinality(Removes(toBrowser)) = 0
    BY <2>3, FS_EmptySet
  <2>5. Needed = 0
    BY <2>1, FS_EmptySet, EmptySeq DEF Needed
  <2> QED
    BY <1>0, <2>1, <2>3, <2>4, <2>5 DEF BudgetInv
<1> QED
  BY <1>1, <1>2, <1>3, InitIInv, InitSectionInv DEF PasswordsInv, Init

LEMMA NextPasswordsInv == PasswordsInv /\ [Next]_vars => PasswordsInv'
<1> SUFFICES ASSUME PasswordsInv, [Next]_vars PROVE PasswordsInv'
  OBVIOUS
<1>0. /\ IInv /\ ListsOK /\ CheckSound /\ SectionInv /\ BudgetInv /\ PageInv /\ SettingsInv
      /\ page \in {"check", "section"} /\ status \in Status /\ version \in Nat
  BY DEF PasswordsInv, IInv, DialogsOK, DialogsAreSound, CheckSound, PageInv, BudgetInv
<1>1. IInv' /\ SectionInv' /\ page' \in {"check", "section"}
  <2>1. UNCHANGED page
    BY DEF Next, vars
  <2> QED
    BY <1>0, <2>1, NextIInv, NextSectionInv
<1>2. CASE [CheckNext]_checkVars /\ UNCHANGED sectionVars
  <2>1. PageInv' /\ BudgetInv'
    BY <1>0, <1>2, PageStep, BudgetStep
  <2>2. acts' \in 0 .. MaxActs /\ (acts' = acts \/ acts' = acts + 1) /\ changes' \in 0 .. MaxChanges
    BY <1>0, <1>2, <2>1, ActStep DEF BudgetInv
  <2>3. SettingsInv'
    BY <1>0, <1>2, <2>2 DEF SettingsInv, sectionVars
  <2> QED
    BY <1>1, <2>1, <2>3 DEF PasswordsInv
<1>3. CASE SectionNext /\ UNCHANGED checkOnly
  <2>1. SettingsInv' /\ acts' >= acts /\ changes' >= changes
    BY <1>0, <1>3, SettingsStep
  <2>2. PageInv'
    BY <1>0, <1>3 DEF PageInv, checkOnly, browserVars, statusVars, shownVars, dialogVars
  <2>3. BudgetInv'
    <3>1. UNCHANGED <<toBrowser, version, menu, dialogs, edits>>
      BY <1>3 DEF checkOnly, browserVars, dialogVars
    <3>2. Needed' = Needed
      BY <3>1 DEF Needed
    <3>3. /\ Cardinality(Removes(toBrowser)) \in Nat /\ Needed \in Nat
      BY <1>0, RemovesAre, NeededIs DEF BudgetInv, CheckSound
    <3>4. /\ acts \in Nat /\ changes \in Nat /\ acts' \in 0 .. MaxActs
          /\ changes' \in 0 .. MaxChanges
      BY <1>0, <2>1 DEF SettingsInv
    <3> QED
      BY <1>0, <2>1, <3>1, <3>2, <3>3, <3>4 DEF BudgetInv
  <2> QED
    BY <1>1, <2>1, <2>2, <2>3 DEF PasswordsInv
<1> QED
  BY <1>2, <1>3 DEF Next, vars

\* No more passwords are asked for at once than there were clicks.
LEMMA FewEdits == PasswordsInv => edits \in BoundedSeq(Passwords, MaxActs)
<1> SUFFICES ASSUME PasswordsInv PROVE edits \in BoundedSeq(Passwords, MaxActs)
  OBVIOUS
<1>1. /\ edits \in Seq(Passwords) /\ dialogs \subseteq Dialogs /\ acts \in 0 .. MaxActs
      /\ Needed <= acts /\ MaxActs \in Nat
  BY PasswordsAssumption DEF PasswordsInv, IInv, DialogsOK, BudgetInv, PasswordsAssumption
<1>2. Len(edits) \in Nat /\ Len(edits) <= MaxActs
  BY <1>1, NeededIs
<1>3. edits \in [1 .. Len(edits) -> Passwords]
  BY <1>1, LenProperties
<1> QED
  BY <1>1, <1>2, <1>3 DEF BoundedSeq, SeqOf

\* The page's variables keep their types.
LEMMA CheckTypes == PasswordsInv => CheckTypeOK
<1> SUFFICES ASSUME PasswordsInv PROVE CheckTypeOK
  OBVIOUS
<1>1. /\ ListsOK /\ DialogsOK /\ BudgetInv /\ PageInv
  BY DEF PasswordsInv, IInv
<1>2. version \in 0 .. (changes + acts)
  <2>1. /\ Cardinality(Removes(toBrowser)) \in Nat /\ Needed \in Nat
    BY <1>1, RemovesAre, NeededIs DEF BudgetInv, DialogsOK
  <2>2. /\ version \in Nat /\ changes \in Nat /\ acts \in Nat
        /\ version + Cardinality(Removes(toBrowser)) + Needed <= changes + acts
    BY <1>1 DEF BudgetInv
  <2> QED
    BY <2>1, <2>2
<1> QED
  BY <1>1, <1>2, FewEdits DEF CheckTypeOK, ListsOK, DialogsOK, BudgetInv, PageInv

LEMMA PasswordsTypes == PasswordsInv => TypeOK
<1> SUFFICES ASSUME PasswordsInv PROVE TypeOK
  OBVIOUS
<1>1. sectionAnchors \in 0 .. MaxActs
  <2>1. sectionAnchors \in 0 .. acts /\ acts \in 0 .. MaxActs /\ MaxActs \in Nat
    BY PasswordsAssumption DEF PasswordsInv, SettingsInv, PasswordsAssumption
  <2> QED
    BY <2>1
<1>2. CheckTypeOK /\ SectionOK /\ SettingsInv /\ page \in {"check", "section"}
  BY CheckTypes DEF PasswordsInv, SectionInv
<1> QED
  BY <1>1, <1>2 DEF TypeOK, SectionOK, SettingsInv, Requests, Events

\* The variables of the password pages and of the shortcuts keep their types, for any passwords,
\* sites and URLs and any bounds: as many passwords are asked for, removed or changed as there were
\* clicks and changes for (getPlaintextInsecurePassword, onPasswordRemoveDialogClosed_).
THEOREM ListsTypesCorrect == MCSpec => []TypesOK
<1> DEFINE AllInv == PasswordsInv /\ TilesInv
<1>1. MCInit => AllInv
  BY InitPasswordsInv, InitTilesInv DEF MCInit
<1>2. AllInv /\ [MCNext]_<<list, vars, tilesVars>> => AllInv'
  <2> SUFFICES ASSUME AllInv, [MCNext]_<<list, vars, tilesVars>> PROVE AllInv'
    OBVIOUS
  <2>1. [Next]_vars /\ [TilesNext]_tilesVars
    BY DEF MCNext
  <2> QED
    BY <2>1, NextPasswordsInv, NextTilesInv
<1>3. AllInv => TypesOK
  BY PasswordsTypes, TilesTypes DEF TilesInv, TypesOK
<1> QED
  BY <1>1, <1>2, <1>3, PTL DEF MCSpec

=============================================================================
