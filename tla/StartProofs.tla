------------------------------ MODULE StartProofs ------------------------------
(***************************************************************************)
(* Proofs about NewTabPage, for any colours, images, commands and number of   *)
(* acts, and about MC_Start, which puts it beside WalletSession.             *)
(*                                                                         *)
(* BackgroundIsRight is inductive with the types.  FramesFollow is not: it      *)
(* says what holds when a frame has read its messages.  FrameInv says of the    *)
(* messages still on their way what the last one that matters will make of the  *)
(* frame, so that a frame that reads the message before it breaks nothing.      *)
(***************************************************************************)
EXTENDS MC_Start, WalletSessionProofs

FrameMessage == [cmd : {"updateTheme"}, color : Colors] \cup {HideLang}
BarMessage   == [kind : {"enableDarkTheme"}, enabled : BOOLEAN]
                \cup [kind : {"can-show-promo"}, key : Commands] \cup {[kind |-> "executed"]}
Call         == [kind : {"show", "execute"}, command : Known \cup {Unknown}, key : Commands]

-----------------------------------------------------------------------------
(* Sequences.                                                              *)

\* The rest of a queue.
LEMMA Rest ==
    ASSUME NEW S, NEW s \in Seq(S), s # <<>>
    PROVE  /\ Len(s) \in Nat /\ Len(s) > 0 /\ 1 \in DOMAIN s
           /\ Head(s) \in S /\ Head(s) = s[1] /\ Tail(s) \in Seq(S)
           /\ Len(Tail(s)) = Len(s) - 1
           /\ \A i \in 1 .. Len(s) - 1 : Tail(s)[i] = s[i + 1]
           /\ DOMAIN s = 1 .. Len(s) /\ DOMAIN Tail(s) = 1 .. Len(s) - 1
BY EmptySeq, LenProperties, HeadTailProperties

\* A queue with one more at its end.
LEMMA OneMore ==
    ASSUME NEW S, NEW s \in Seq(S), NEW e \in S
    PROVE  /\ Append(s, e) \in Seq(S) /\ Append(s, e) # <<>>
           /\ Len(s) \in Nat /\ Len(Append(s, e)) = Len(s) + 1
           /\ Append(s, e)[Len(s) + 1] = e
           /\ \A i \in 1 .. Len(s) : Append(s, e)[i] = s[i]
           /\ DOMAIN s = 1 .. Len(s) /\ DOMAIN Append(s, e) = 1 .. Len(s) + 1
BY LenProperties, AppendProperties

-----------------------------------------------------------------------------
(* Types.                                                                  *)

\* The selections, told apart by their type.
LEMMA Selections ==
    ASSUME NEW s \in BackgroundSelection
    PROVE  /\ s.type \in {"NO_SELECTION", "NO_BACKGROUND", "DAILY_REFRESH", "IMAGE"}
           /\ s.type = "NO_SELECTION" <=> s = NoSelection
           /\ s.type = "IMAGE" => s.image \in Images
BY DEF BackgroundSelection, NoSelection, NoBackground, DailyRefresh

LEMMA SomeSelections ==
    NoSelection \in BackgroundSelection /\ NoSelection.type = "NO_SELECTION"
BY DEF BackgroundSelection, NoSelection

LEMMA BackgroundImageType ==
    ASSUME NEW t \in Theme \cup {NoTheme}, NEW s \in BackgroundSelection
    PROVE  backgroundImage(t, s) \in Images \cup {NoImage}
<1>1. t.image \in Images \cup {NoImage}
  BY DEF Theme, NoTheme
<1> QED
  BY <1>1, Selections DEF backgroundImage

LEMMA BackgroundType ==
    ASSUME PageTypeOK, NEW t \in Theme \cup {NoTheme}, NEW s \in BackgroundSelection
    PROVE  /\ backgroundAfter(t, s) \in [image : Images \cup {NoImage}, shown : BOOLEAN]
           /\ backgroundAfter(t, s).shown => backgroundAfter(t, s).image # NoImage
BY BackgroundImageType DEF backgroundAfter, computeShowBackgroundImage_, PageTypeOK

\* What the observer of a theme and a selection leaves.
LEMMA UpdateType ==
    ASSUME PageTypeOK, NEW t \in Theme \cup {NoTheme}, NEW s \in BackgroundSelection,
           updateBackgroundImagePath_(t, s)
    PROVE  /\ timers' \in Nat /\ backgroundSelection_' \in BackgroundSelection
           /\ background' \in [image : Images \cup {NoImage}, shown : BOOLEAN]
           /\ background'.shown => background'.image # NoImage
           /\ toBar' \in Seq(BarMessage)
<1> DEFINE b == computeOneGoogleBarDarkThemeEnabled_(t, backgroundSelection_')
<1>1. timers' \in Nat
  BY DEF updateBackgroundImagePath_, PageTypeOK
<1>2. backgroundSelection_' \in BackgroundSelection
  BY SomeSelections DEF updateBackgroundImagePath_
<1>3. background' = backgroundAfter(t, backgroundSelection_')
  BY DEF updateBackgroundImagePath_
<1>4. notifyOneGoogleBarDarkThemeEnabledChange_(t, backgroundSelection_')
  BY DEF updateBackgroundImagePath_
<1>5. toBar \in Seq(BarMessage)
  BY DEF PageTypeOK, BarMessage
<1>6. b \in BOOLEAN
  BY Zenon DEF computeOneGoogleBarDarkThemeEnabled_
<1>7. Darken(b) \in BarMessage
  BY <1>6 DEF Darken, BarMessage
<1>8. toBar' = Append(toBar, Darken(b)) \/ toBar' = toBar
  BY <1>4 DEF notifyOneGoogleBarDarkThemeEnabledChange_
<1>9. toBar' \in Seq(BarMessage)
  BY <1>5, <1>7, <1>8, OneMore
<1> QED
  BY <1>1, <1>2, <1>3, <1>9, BackgroundType

LEMMA PageInitTypes == PageInit => PageTypeOK
<1> SUFFICES ASSUME PageInit PROVE PageTypeOK
  OBVIOUS
<1>1. theme_ \in Theme \cup {NoTheme} /\ pushes \in Seq(Theme) /\ commits = <<>>
  BY DEF PageInit
<1>2. frame \in [document : {"blank", "listens", "loaded"}, color : Colors \cup {NoColor},
                 menu : BOOLEAN]
  BY DEF PageInit
<1>3. bar \in [rendered : BOOLEAN, loaded : BOOLEAN, dark : BOOLEAN, answered : SUBSET Commands]
  BY DEF PageInit
<1>4. acts \in 0 .. MaxActs
  BY PageAssumption DEF PageInit
<1>5. toFrame = <<>> /\ toBar = <<>> /\ calls = <<>> /\ timers \in Nat
  BY DEF PageInit
<1>6. background \in [image : Images \cup {NoImage}, shown : BOOLEAN] /\ ~background.shown
  BY DEF PageInit
<1>7. dialog \in BOOLEAN /\ page \in {"modules", "any"} /\ clickedLast \in {"frame", "page"}
  BY DEF PageInit
<1> QED
  BY <1>1, <1>2, <1>3, <1>4, <1>5, <1>6, <1>7, SomeSelections DEF PageInit, PageTypeOK

LEMMA TypeStep ==
    ASSUME PageTypeOK, [PageNext]_pageVars PROVE PageTypeOK'
<1>1. CASE UNCHANGED pageVars
  BY <1>1 DEF PageTypeOK, pageVars, themeVars, selectVars, frameVars, barVars, promoVars
<1>2. CASE ChangeTheme
  <2>1. pushes' \in Seq(Theme) /\ theme' \in Theme
    BY <1>2, OneMore DEF ChangeTheme, PageTypeOK
  <2>2. acts' \in 0 .. MaxActs
    BY <1>2, PageAssumption DEF ChangeTheme, PageTypeOK
  <2> QED
    BY <1>2, <2>1, <2>2 DEF ChangeTheme, PageTypeOK, selectVars, frameVars, barVars, promoVars
<1>3. CASE ApplyCommit
  <2>1. theme' \in Theme
    BY <1>3 DEF ApplyCommit, PageTypeOK, Theme
  <2>2. pushes' \in Seq(Theme) /\ commits' \in Seq(BackgroundSelection \ {NoSelection})
    BY <1>3, <2>1, OneMore, Rest DEF ApplyCommit, PageTypeOK
  <2> QED
    BY <1>3, <2>1, <2>2 DEF ApplyCommit, PageTypeOK, selectVars, frameVars, barVars, promoVars
<1>4. CASE AnswerPromo
  <2>1. calls' \in Seq(Call) /\ Head(calls) \in Call
    BY <1>4, Rest DEF AnswerPromo, PageTypeOK, Call
  <2>2. toBar' \in Seq(BarMessage)
    <3>1. Answer(Head(calls).key) \in BarMessage /\ [kind |-> "executed"] \in BarMessage
      BY <2>1 DEF Answer, BarMessage, Call
    <3> QED
      BY <1>4, <3>1, OneMore DEF AnswerPromo, PageTypeOK, BarMessage
  <2> QED
    BY <1>4, <2>1, <2>2 DEF AnswerPromo, PageTypeOK, Call, BarMessage, themeVars, selectVars, frameVars
<1>5. CASE SetTheme
  <2>1. Head(pushes) \in Theme /\ pushes' \in Seq(Theme) /\ theme_' = Head(pushes)
    BY <1>5, Rest DEF SetTheme, PageTypeOK
  <2>2. toFrame' \in Seq(FrameMessage)
    <3>1. UpdateTheme(Head(pushes).color) \in FrameMessage
      BY <2>1 DEF UpdateTheme, FrameMessage, Theme
    <3> QED
      BY <1>5, <3>1, OneMore DEF SetTheme, onThemeChange_, PageTypeOK, FrameMessage
  <2>3. updateBackgroundImagePath_(Head(pushes), backgroundSelection_)
    BY <1>5 DEF SetTheme
  <2>4. /\ timers' \in Nat /\ backgroundSelection_' \in BackgroundSelection
        /\ background' \in [image : Images \cup {NoImage}, shown : BOOLEAN]
        /\ background'.shown => background'.image # NoImage
        /\ toBar' \in Seq(BarMessage)
    BY <2>1, <2>3, UpdateType DEF PageTypeOK
  <2> QED
    BY <1>5, <2>1, <2>2, <2>4 DEF SetTheme, PageTypeOK, FrameMessage, BarMessage, promoVars
<1>6. CASE ResetSelection
  <2>1. /\ background' \in [image : Images \cup {NoImage}, shown : BOOLEAN]
        /\ background'.shown => background'.image # NoImage
    BY <1>6, SomeSelections, BackgroundType DEF ResetSelection, PageTypeOK
  <2>2. toBar' \in Seq(BarMessage)
    <3> DEFINE b == computeOneGoogleBarDarkThemeEnabled_(theme_, NoSelection)
    <3>1. b \in BOOLEAN
      BY Zenon DEF computeOneGoogleBarDarkThemeEnabled_
    <3>2. Darken(b) \in BarMessage
      BY <3>1 DEF Darken, BarMessage
    <3>3. toBar' = Append(toBar, Darken(b)) \/ toBar' = toBar
      BY <1>6 DEF ResetSelection, notifyOneGoogleBarDarkThemeEnabledChange_
    <3>4. toBar \in Seq(BarMessage)
      BY DEF PageTypeOK, BarMessage
    <3> QED
      BY <3>2, <3>3, <3>4, OneMore
  <2>3. timers' \in Nat /\ backgroundSelection_' \in BackgroundSelection
    BY <1>6, SomeSelections DEF ResetSelection, PageTypeOK
  <2> QED
    BY <1>6, <2>1, <2>2, <2>3
       DEF ResetSelection, PageTypeOK, BarMessage, themeVars, frameVars, promoVars
<1>7. CASE OpenDialog
  <2>1. acts' \in 0 .. MaxActs /\ page' \in {"modules", "any"}
    BY <1>7, PageAssumption DEF OpenDialog, PageTypeOK
  <2> QED
    BY <1>7, <2>1 DEF OpenDialog, PageTypeOK, themeVars, frameVars, barVars, promoVars
<1>8. CASE Pick
  <2>1. PICK s \in BackgroundSelection : updateBackgroundImagePath_(theme_, s)
    BY <1>8 DEF Pick
  <2>2. /\ timers' \in Nat /\ backgroundSelection_' \in BackgroundSelection
        /\ background' \in [image : Images \cup {NoImage}, shown : BOOLEAN]
        /\ background'.shown => background'.image # NoImage
        /\ toBar' \in Seq(BarMessage)
    BY <2>1, UpdateType DEF PageTypeOK
  <2>3. acts' \in 0 .. MaxActs
    BY <1>8, PageAssumption DEF Pick, PageTypeOK
  <2> QED
    BY <1>8, <2>2, <2>3 DEF Pick, PageTypeOK, BarMessage, themeVars, frameVars, promoVars
<1>9. CASE DialogDone
  <2>1. commits' \in Seq(BackgroundSelection \ {NoSelection})
    BY <1>9, OneMore DEF DialogDone, PageTypeOK
  <2> QED
    BY <1>9, <2>1
       DEF DialogDone, onCustomizeDialogClose_, PageTypeOK, frameVars, barVars, promoVars
<1>10. CASE DialogCancel
  <2>1. /\ timers' \in Nat /\ backgroundSelection_' \in BackgroundSelection
        /\ background' \in [image : Images \cup {NoImage}, shown : BOOLEAN]
        /\ background'.shown => background'.image # NoImage
        /\ toBar' \in Seq(BarMessage)
    BY <1>10, SomeSelections, UpdateType DEF DialogCancel, PageTypeOK
  <2> QED
    BY <1>10, <2>1
       DEF DialogCancel, onCustomizeDialogClose_, PageTypeOK, BarMessage, themeVars, frameVars,
           promoVars
<1>11. CASE FrameListens
  BY <1>11 DEF FrameListens, PageTypeOK, themeVars, selectVars, barVars, promoVars
<1>12. CASE FrameLoads
  <2>1. toFrame' \in Seq(FrameMessage)
    <3>1. theme_ # NoTheme => UpdateTheme(theme_.color) \in FrameMessage
      BY DEF UpdateTheme, FrameMessage, Theme, PageTypeOK
    <3> QED
      BY <1>12, <3>1, OneMore DEF FrameLoads, onload, PageTypeOK, FrameMessage
  <2> QED
    BY <1>12, <2>1 DEF FrameLoads, PageTypeOK, FrameMessage, themeVars, selectVars, barVars, promoVars
<1>13. CASE FrameReloads
  <2>1. acts' \in 0 .. MaxActs
    BY <1>13, PageAssumption DEF FrameReloads, PageTypeOK
  <2> QED
    BY <1>13, <2>1 DEF FrameReloads, PageTypeOK, themeVars, selectVars, barVars, promoVars
<1>14. CASE FrameReads
  <2>1. Head(toFrame) \in FrameMessage /\ toFrame' \in Seq(FrameMessage)
    BY <1>14, Rest DEF FrameReads, PageTypeOK, FrameMessage
  <2>2. frame' \in [document : {"blank", "listens", "loaded"}, color : Colors \cup {NoColor},
                    menu : BOOLEAN]
    <3> DEFINE message == Head(toFrame)
    <3>1. message.cmd # "hidelang" => message.color \in Colors
      BY <2>1 DEF FrameMessage, HideLang
    <3>2. \/ frame' = frame
          \/ frame' = [frame EXCEPT !.menu = FALSE]
          \/ /\ message.cmd # "hidelang"
             /\ frame' = [frame EXCEPT !.color = message.color]
      BY <1>14 DEF FrameReads
    <3> QED
      BY <3>1, <3>2 DEF PageTypeOK
  <2> QED
    BY <1>14, <2>1, <2>2
       DEF FrameReads, PageTypeOK, FrameMessage, themeVars, selectVars, barVars, promoVars
<1>15. CASE ClickInFrame
  <2>1. acts' \in 0 .. MaxActs
    BY <1>15, PageAssumption DEF ClickInFrame, PageTypeOK
  <2> QED
    BY <1>15, <2>1 DEF ClickInFrame, PageTypeOK, themeVars, selectVars, barVars, promoVars
<1>16. CASE ClickOnPage
  <2>1. acts' \in 0 .. MaxActs
    BY <1>16, PageAssumption DEF ClickOnPage, PageTypeOK
  <2>2. toFrame' \in Seq(FrameMessage)
    BY <1>16, OneMore DEF ClickOnPage, click, PageTypeOK, FrameMessage
  <2> QED
    BY <1>16, <2>1, <2>2
       DEF ClickOnPage, PageTypeOK, FrameMessage, themeVars, selectVars, barVars, promoVars
<1>17. CASE LazyRender
  BY <1>17 DEF LazyRender, PageTypeOK, themeVars, selectVars, frameVars, promoVars
<1>18. CASE BarLoaded
  <2> DEFINE b == computeOneGoogleBarDarkThemeEnabled_(theme_, backgroundSelection_)
  <2>1. b \in BOOLEAN
    BY Zenon DEF computeOneGoogleBarDarkThemeEnabled_
  <2>2. Darken(b) \in BarMessage
    BY <2>1 DEF Darken, BarMessage
  <2> HIDE DEF b
  <2>3. toBar' = Append(toBar, Darken(b))
    BY <1>18 DEF BarLoaded, b
  <2>4. toBar' \in Seq(BarMessage)
    BY <2>2, <2>3, OneMore DEF PageTypeOK, BarMessage
  <2> QED
    BY <1>18, <2>4 DEF BarLoaded, PageTypeOK, BarMessage, themeVars, selectVars, frameVars, promoVars
<1>19. CASE BarReads
  <2>1. Head(toBar) \in BarMessage /\ toBar' \in Seq(BarMessage)
    BY <1>19, Rest DEF BarReads, PageTypeOK, BarMessage
  <2>2. bar' \in [rendered : BOOLEAN, loaded : BOOLEAN, dark : BOOLEAN,
                  answered : SUBSET Commands]
    <3> DEFINE message == Head(toBar)
    <3>1. CASE message.kind = "enableDarkTheme"
      <4>1. message.enabled \in BOOLEAN /\ bar' = [bar EXCEPT !.dark = message.enabled]
        BY <1>19, <2>1, <3>1 DEF BarReads, BarMessage
      <4> QED
        BY <4>1 DEF PageTypeOK
    <3>2. CASE message.kind = "can-show-promo"
      <4>1. message.key \in Commands /\ bar' = [bar EXCEPT !.answered = @ \cup {message.key}]
        BY <1>19, <2>1, <3>2 DEF BarReads, BarMessage
      <4>2. bar'.answered \subseteq Commands
        BY <4>1 DEF PageTypeOK
      <4> QED
        BY <4>1, <4>2 DEF PageTypeOK
    <3>3. CASE message.kind = "executed"
      BY <1>19, <3>3 DEF BarReads, PageTypeOK
    <3> QED
      BY <2>1, <3>1, <3>2, <3>3 DEF BarMessage
  <2> QED
    BY <1>19, <2>1, <2>2
       DEF BarReads, PageTypeOK, BarMessage, themeVars, selectVars, frameVars, promoVars
<1>20. CASE BarAsks
  <2>1. acts' \in 0 .. MaxActs
    BY <1>20, PageAssumption DEF BarAsks, PageTypeOK
  <2>2. \A id \in Commands, kind \in {"show", "execute"} :
           [kind |-> kind, command |-> commandId(id), key |-> id] \in Call
    BY DEF commandId, Call
  <2>3. calls' \in Seq(Call) /\ asked' \subseteq Commands
    <3>1. PICK id \in Commands : \/ /\ canShowPromoWithBrowserCommand_(id)
                                     /\ asked' = asked \cup {id}
                                  \/ /\ executePromoBrowserCommand_(id)
                                     /\ UNCHANGED asked
      BY <1>20, Zenon DEF BarAsks
    <3>2. calls \in Seq(Call) /\ asked \subseteq Commands
      BY DEF PageTypeOK, Call
    <3>3. PICK call \in Call : calls' = Append(calls, call)
      BY <2>2, <3>1 DEF canShowPromoWithBrowserCommand_, executePromoBrowserCommand_
    <3> QED
      BY <3>1, <3>2, <3>3, OneMore
  <2> QED
    BY <1>20, <2>1, <2>3 DEF BarAsks, PageTypeOK, Call, themeVars, selectVars, frameVars, barVars
<1> QED
  BY <1>1, <1>2, <1>3, <1>4, <1>5, <1>6, <1>7, <1>8, <1>9, <1>10, <1>11, <1>12, <1>13, <1>14,
     <1>15, <1>16, <1>17, <1>18, <1>19, <1>20 DEF PageNext, Browser, Page, Frame, Bar

-----------------------------------------------------------------------------
(* The background.                                                         *)

\* What is shown after the observer is right.
LEMMA ShownIsRight ==
    ASSUME background' = backgroundAfter(theme_', backgroundSelection_')
    PROVE  ShownImageIsRight'
BY DEF ShownImageIsRight, backgroundAfter, computeShowBackgroundImage_

\* With the dialog closed the observer leaves a selection only with a timer that ends it.
LEMMA UpdateEnds ==
    ASSUME PageTypeOK, NEW t, NEW s \in BackgroundSelection, updateBackgroundImagePath_(t, s)
    PROVE  /\ background' = backgroundAfter(t, backgroundSelection_')
           /\ notifyOneGoogleBarDarkThemeEnabledChange_(t, backgroundSelection_')
           /\ ~dialog => backgroundSelection_' = NoSelection \/ timers' > 0
           /\ s = NoSelection => backgroundSelection_' = NoSelection
<1>1. s.type = "NO_SELECTION" <=> s = NoSelection
  BY Selections
<1> QED
  BY <1>1 DEF updateBackgroundImagePath_, PageTypeOK

LEMMA BackgroundStep ==
    ASSUME PageTypeOK, PageTypeOK', BackgroundIsRight, [PageNext]_pageVars PROVE BackgroundIsRight'
<1> USE DEF BackgroundIsRight
<1>1. CASE SetTheme
  <2>1. /\ updateBackgroundImagePath_(theme_', backgroundSelection_)
        /\ dialog' = dialog /\ page' = page
    BY <1>1 DEF SetTheme
  <2>2. ShownImageIsRight'
    BY <2>1, UpdateEnds, ShownIsRight DEF PageTypeOK
  <2>3. SelectionEnds'
    BY <2>1, UpdateEnds DEF PageTypeOK, SelectionEnds
  <2> QED
    BY <2>1, <2>2, <2>3 DEF PageIsForgotten
<1>2. CASE ResetSelection
  <2>1. ShownImageIsRight'
    BY <1>2, ShownIsRight DEF ResetSelection
  <2> QED
    BY <1>2, <2>1 DEF ResetSelection, SelectionEnds, PageIsForgotten
<1>3. CASE Pick
  <2>1. PICK s \in BackgroundSelection : updateBackgroundImagePath_(theme_, s)
    BY <1>3 DEF Pick
  <2>2. ShownImageIsRight'
    BY <1>3, <2>1, UpdateEnds, ShownIsRight DEF Pick
  <2> QED
    BY <1>3, <2>2 DEF Pick, SelectionEnds, PageIsForgotten
<1>4. CASE DialogCancel
  <2>1. backgroundSelection_' = NoSelection /\ ShownImageIsRight'
    BY <1>4, SomeSelections, UpdateEnds, ShownIsRight DEF DialogCancel
  <2> QED
    BY <1>4, <2>1 DEF DialogCancel, onCustomizeDialogClose_, SelectionEnds, PageIsForgotten
<1>5. CASE DialogDone
  <2>1. backgroundSelection_ # NoSelection => commits' # <<>>
    <3>1. ASSUME backgroundSelection_ # NoSelection PROVE commits' # <<>>
      <4>1. /\ commits \in Seq(BackgroundSelection \ {NoSelection})
            /\ backgroundSelection_ \in BackgroundSelection \ {NoSelection}
            /\ commits' = Append(commits, backgroundSelection_)
        BY <1>5, <3>1 DEF DialogDone, PageTypeOK
      <4> QED
        BY <4>1, OneMore
    <3> QED
      BY <3>1
  <2> QED
    BY <1>5, <2>1 DEF DialogDone, onCustomizeDialogClose_, SelectionEnds, PageIsForgotten,
                      ShownImageIsRight
<1>6. CASE OpenDialog
  BY <1>6 DEF OpenDialog, SelectionEnds, PageIsForgotten, ShownImageIsRight
<1>7. CASE ChangeTheme \/ ApplyCommit
  <2>1. pushes' # <<>>
    BY <1>7, OneMore DEF ChangeTheme, ApplyCommit, PageTypeOK
  <2> QED
    BY <1>7, <2>1 DEF ChangeTheme, ApplyCommit, selectVars, SelectionEnds, PageIsForgotten,
                      ShownImageIsRight
<1>8. CASE UNCHANGED pageVars \/ AnswerPromo \/ Frame \/ Bar
  <2>1. UNCHANGED <<themeVars, theme_, selectVars, background>>
    BY <1>8 DEF pageVars, AnswerPromo, Frame, FrameListens, FrameLoads, FrameReloads, FrameReads,
                ClickInFrame, ClickOnPage, Bar, LazyRender, BarLoaded, BarReads, BarAsks
  <2> QED
    BY <2>1 DEF themeVars, selectVars, SelectionEnds, PageIsForgotten, ShownImageIsRight
<1> QED
  BY <1>1, <1>2, <1>3, <1>4, <1>5, <1>6, <1>7, <1>8 DEF PageNext, Browser, Page

-----------------------------------------------------------------------------
(* The documents in the frames.                                            *)

\* A document of colour color that reads the messages of q comes to colour c.
FrameTold(q, color, c) ==
    /\ \A i \in DOMAIN q :
          (q[i].cmd = "updateTheme" /\ (\A j \in DOMAIN q : j > i => q[j].cmd # "updateTheme"))
             => q[i].color = c
    /\ (\A i \in DOMAIN q : q[i].cmd # "updateTheme") => color = c

\* A bar that reads the messages of q comes to be dark or not.
BarTold(q, dark, d) ==
    /\ \A i \in DOMAIN q :
          (/\ q[i].kind = "enableDarkTheme"
           /\ \A j \in DOMAIN q : j > i => q[j].kind # "enableDarkTheme")
             => q[i].enabled = d
    /\ (\A i \in DOMAIN q : q[i].kind # "enableDarkTheme") => dark = d

FrameInv ==
    /\ frame.document = "loaded" /\ theme_ # NoTheme
          => FrameTold(toFrame, frame.color, theme_.color)
    /\ frame.menu => clickedLast = "frame" \/ \E i \in DOMAIN toFrame : toFrame[i].cmd = "hidelang"
    /\ frame.document = "blank" => ~frame.menu

BarInv ==
    bar.loaded => BarTold(toBar, bar.dark,
                          computeOneGoogleBarDarkThemeEnabled_(theme_, backgroundSelection_))

\* The question of k has not been forgotten.
Kept(k) ==
    \/ k \in bar.answered
    \/ \E i \in DOMAIN calls : calls[i].kind = "show" /\ calls[i].key = k
    \/ \E i \in DOMAIN toBar : toBar[i].kind = "can-show-promo" /\ toBar[i].key = k

AskedInv == \A k \in asked : Kept(k)

\* What a message at the end of the queue, or the message at its head, makes of the frame.
LEMMA FrameToldMore ==
    ASSUME NEW q \in Seq(FrameMessage), NEW color, NEW c \in Colors
    PROVE  /\ FrameTold(Append(q, UpdateTheme(c)), color, c)
           /\ FrameTold(q, color, c) => FrameTold(Append(q, HideLang), color, c)
<1>1. ASSUME NEW m \in FrameMessage
      PROVE  /\ Len(q) \in Nat /\ DOMAIN q = 1 .. Len(q)
             /\ DOMAIN Append(q, m) = 1 .. Len(q) + 1 /\ Append(q, m)[Len(q) + 1] = m
             /\ \A i \in 1 .. Len(q) : Append(q, m)[i] = q[i]
  BY OneMore
<1>2. UpdateTheme(c) \in FrameMessage /\ HideLang \in FrameMessage
  BY DEF UpdateTheme, FrameMessage
<1>3. UpdateTheme(c).cmd = "updateTheme" /\ UpdateTheme(c).color = c /\ HideLang.cmd = "hidelang"
  BY DEF UpdateTheme, HideLang
<1>4. FrameTold(Append(q, UpdateTheme(c)), color, c)
  <2> DEFINE r == Append(q, UpdateTheme(c))
  <2>1. /\ DOMAIN r = 1 .. Len(q) + 1 /\ Len(q) \in Nat /\ r[Len(q) + 1] = UpdateTheme(c)
    BY <1>1, <1>2
  <2> HIDE DEF r
  <2>2. r[Len(q) + 1].cmd = "updateTheme" /\ r[Len(q) + 1].color = c /\ Len(q) + 1 \in DOMAIN r
    BY <1>3, <2>1
  <2>3. FrameTold(r, color, c)
    BY <2>1, <2>2 DEF FrameTold
  <2> QED
    BY <2>3 DEF r
<1>5. ASSUME FrameTold(q, color, c) PROVE FrameTold(Append(q, HideLang), color, c)
  <2> DEFINE r == Append(q, HideLang)
  <2>1. /\ DOMAIN r = 1 .. Len(q) + 1 /\ Len(q) \in Nat /\ r[Len(q) + 1].cmd = "hidelang"
        /\ \A i \in 1 .. Len(q) : r[i] = q[i]
    BY <1>1, <1>2, <1>3
  <2>2. DOMAIN q = 1 .. Len(q)
    BY <1>1, <1>2
  <2> HIDE DEF r
  <2>3. FrameTold(r, color, c)
    BY <1>5, <2>1, <2>2 DEF FrameTold
  <2> QED
    BY <2>3 DEF r
<1> QED
  BY <1>4, <1>5

LEMMA FrameToldLess ==
    ASSUME NEW q \in Seq(FrameMessage), q # <<>>, NEW color, NEW c \in Colors,
           FrameTold(q, color, c)
    PROVE  FrameTold(Tail(q), IF Head(q).cmd = "hidelang" THEN color ELSE Head(q).color, c)
<1> DEFINE r == Tail(q)
           n == Len(q)
<1>1. /\ n \in Nat /\ n > 0 /\ DOMAIN q = 1 .. n /\ DOMAIN r = 1 .. n - 1
      /\ Head(q) = q[1] /\ q[1] \in FrameMessage
      /\ \A i \in 1 .. n - 1 : r[i] = q[i + 1]
  BY Rest
<1> HIDE DEF r, n
<1>2. q[1].cmd \in {"updateTheme", "hidelang"}
  BY <1>1 DEF FrameMessage, HideLang
<1>3. \A i \in DOMAIN r :
         (r[i].cmd = "updateTheme" /\ (\A j \in DOMAIN r : j > i => r[j].cmd # "updateTheme"))
            => r[i].color = c
  <2> SUFFICES ASSUME NEW i \in DOMAIN r, r[i].cmd = "updateTheme",
                      \A j \in DOMAIN r : j > i => r[j].cmd # "updateTheme"
               PROVE  r[i].color = c
    OBVIOUS
  <2>1. i + 1 \in DOMAIN q /\ r[i] = q[i + 1]
    BY <1>1
  <2>2. ASSUME NEW j \in DOMAIN q, j > i + 1 PROVE q[j].cmd # "updateTheme"
    <3>1. j - 1 \in DOMAIN r /\ j - 1 > i /\ r[j - 1] = q[j]
      BY <1>1, <2>2
    <3> QED
      BY <3>1
  <2> QED
    BY <2>1, <2>2 DEF FrameTold
<1>4. ASSUME \A i \in DOMAIN r : r[i].cmd # "updateTheme"
      PROVE  (IF Head(q).cmd = "hidelang" THEN color ELSE Head(q).color) = c
  <2>1. ASSUME NEW j \in DOMAIN q, j > 1 PROVE q[j].cmd # "updateTheme"
    <3>1. j - 1 \in DOMAIN r /\ r[j - 1] = q[j]
      BY <1>1, <2>1
    <3> QED
      BY <1>4, <3>1
  <2>2. CASE q[1].cmd = "hidelang"
    <3>1. \A j \in DOMAIN q : q[j].cmd # "updateTheme"
      BY <1>1, <2>1, <2>2
    <3> QED
      BY <1>1, <2>2, <3>1 DEF FrameTold
  <2>3. CASE q[1].cmd = "updateTheme"
    <3>1. 1 \in DOMAIN q
      BY <1>1
    <3> QED
      BY <1>1, <2>1, <2>3, <3>1 DEF FrameTold
  <2> QED
    BY <1>2, <2>2, <2>3
<1>5. FrameTold(r, IF Head(q).cmd = "hidelang" THEN color ELSE Head(q).color, c)
  BY <1>3, <1>4 DEF FrameTold
<1> QED
  BY <1>5 DEF r

\* The same for the bar; the bar is told nothing of a message of another kind.
LEMMA BarToldMore ==
    ASSUME NEW q \in Seq(BarMessage), NEW dark, NEW d \in BOOLEAN, NEW m \in BarMessage
    PROVE  /\ m = Darken(d) => BarTold(Append(q, m), dark, d)
           /\ m.kind # "enableDarkTheme" /\ BarTold(q, dark, d) => BarTold(Append(q, m), dark, d)
<1> DEFINE r == Append(q, m)
<1>1. /\ DOMAIN r = 1 .. Len(q) + 1 /\ Len(q) \in Nat /\ r[Len(q) + 1] = m
      /\ \A i \in 1 .. Len(q) : r[i] = q[i]
      /\ DOMAIN q = 1 .. Len(q)
  BY OneMore
<1> HIDE DEF r
<1>2. ASSUME m = Darken(d) PROVE BarTold(r, dark, d)
  <2>1. m.kind = "enableDarkTheme" /\ m.enabled = d /\ Len(q) + 1 \in DOMAIN r
    BY <1>1, <1>2 DEF Darken
  <2> QED
    BY <1>1, <2>1 DEF BarTold
<1>3. ASSUME m.kind # "enableDarkTheme", BarTold(q, dark, d) PROVE BarTold(r, dark, d)
  BY <1>1, <1>3 DEF BarTold
<1>4. /\ m = Darken(d) => BarTold(r, dark, d)
      /\ m.kind # "enableDarkTheme" /\ BarTold(q, dark, d) => BarTold(r, dark, d)
  BY <1>2, <1>3
<1> QED
  BY <1>4 DEF r

LEMMA BarToldLess ==
    ASSUME NEW q \in Seq(BarMessage), q # <<>>, NEW dark, NEW d, BarTold(q, dark, d)
    PROVE  /\ Head(q).kind # "enableDarkTheme" => BarTold(Tail(q), dark, d)
           /\ Head(q).kind = "enableDarkTheme" => BarTold(Tail(q), Head(q).enabled, d)
<1> DEFINE r == Tail(q)
           n == Len(q)
<1>1. /\ n \in Nat /\ n > 0 /\ DOMAIN q = 1 .. n /\ DOMAIN r = 1 .. n - 1
      /\ Head(q) = q[1]
      /\ \A i \in 1 .. n - 1 : r[i] = q[i + 1]
  BY Rest
<1> HIDE DEF r, n
<1>2. \A i \in DOMAIN r :
         (/\ r[i].kind = "enableDarkTheme"
          /\ \A j \in DOMAIN r : j > i => r[j].kind # "enableDarkTheme")
            => r[i].enabled = d
  <2> SUFFICES ASSUME NEW i \in DOMAIN r, r[i].kind = "enableDarkTheme",
                      \A j \in DOMAIN r : j > i => r[j].kind # "enableDarkTheme"
               PROVE  r[i].enabled = d
    OBVIOUS
  <2>1. i + 1 \in DOMAIN q /\ r[i] = q[i + 1]
    BY <1>1
  <2>2. ASSUME NEW j \in DOMAIN q, j > i + 1 PROVE q[j].kind # "enableDarkTheme"
    <3>1. j - 1 \in DOMAIN r /\ j - 1 > i /\ r[j - 1] = q[j]
      BY <1>1, <2>2
    <3> QED
      BY <3>1
  <2> QED
    BY <2>1, <2>2 DEF BarTold
<1>3. ASSUME \A i \in DOMAIN r : r[i].kind # "enableDarkTheme"
      PROVE  /\ Head(q).kind # "enableDarkTheme" => dark = d
             /\ Head(q).kind = "enableDarkTheme" => Head(q).enabled = d
  <2>1. ASSUME NEW j \in DOMAIN q, j > 1 PROVE q[j].kind # "enableDarkTheme"
    <3>1. j - 1 \in DOMAIN r /\ r[j - 1] = q[j]
      BY <1>1, <2>1
    <3> QED
      BY <1>3, <3>1
  <2>2. ASSUME q[1].kind # "enableDarkTheme" PROVE dark = d
    <3>1. \A j \in DOMAIN q : q[j].kind # "enableDarkTheme"
      BY <1>1, <2>1, <2>2
    <3> QED
      BY <3>1 DEF BarTold
  <2>3. ASSUME q[1].kind = "enableDarkTheme" PROVE q[1].enabled = d
    <3>1. 1 \in DOMAIN q
      BY <1>1
    <3> QED
      BY <1>1, <2>1, <2>3, <3>1 DEF BarTold
  <2> QED
    BY <1>1, <2>2, <2>3
<1>4. /\ Head(q).kind # "enableDarkTheme" => BarTold(r, dark, d)
      /\ Head(q).kind = "enableDarkTheme" => BarTold(r, Head(q).enabled, d)
  BY <1>2, <1>3 DEF BarTold
<1> QED
  BY <1>4 DEF r

\* A queue with one more holds that, and what it held.
LEMMA Held ==
    ASSUME NEW S, NEW q \in Seq(S), NEW m \in S
    PROVE  /\ \E j \in DOMAIN Append(q, m) : Append(q, m)[j] = m
           /\ \A i \in DOMAIN q : i \in DOMAIN Append(q, m) /\ Append(q, m)[i] = q[i]
BY OneMore

\* A queue with one less holds what it held, but for its head.
LEMMA StillHeld ==
    ASSUME NEW S, NEW q \in Seq(S), NEW i \in DOMAIN q, q[i] # Head(q)
    PROVE  \E j \in DOMAIN Tail(q) : Tail(q)[j] = q[i]
<1>1. q # <<>>
  BY EmptySeq
<1>2. i - 1 \in DOMAIN Tail(q) /\ Tail(q)[i - 1] = q[i]
  BY <1>1, Rest
<1> QED
  BY <1>2

LEMMA FrameStep ==
    ASSUME PageTypeOK, PageTypeOK', FrameInv, [PageNext]_pageVars PROVE FrameInv'
<1>1. toFrame \in Seq(FrameMessage) /\ HideLang \in FrameMessage /\ HideLang.cmd = "hidelang"
  BY DEF PageTypeOK, FrameMessage, HideLang
<1>2. theme_ # NoTheme => theme_.color \in Colors /\ UpdateTheme(theme_.color) \in FrameMessage
  BY DEF PageTypeOK, Theme, UpdateTheme, FrameMessage
<1>3. ASSUME NEW m \in FrameMessage, NEW i \in DOMAIN toFrame, toFrame[i].cmd = "hidelang",
             toFrame' = Append(toFrame, m)
      PROVE  \E j \in DOMAIN toFrame' : toFrame'[j].cmd = "hidelang"
  BY <1>1, <1>3, Held
<1>4. CASE SetTheme
  <2>1. theme_' \in Theme /\ toFrame' = Append(toFrame, UpdateTheme(theme_'.color))
        /\ frame' = frame /\ clickedLast' = clickedLast
    BY <1>4, Rest DEF SetTheme, onThemeChange_, PageTypeOK
  <2>2. theme_'.color \in Colors /\ UpdateTheme(theme_'.color) \in FrameMessage
    BY <2>1 DEF Theme, UpdateTheme, FrameMessage
  <2>3. FrameTold(toFrame', frame'.color, theme_'.color)
    BY <1>1, <2>1, <2>2, FrameToldMore
  <2> QED
    BY <1>3, <2>1, <2>2, <2>3 DEF FrameInv
<1>5. CASE FrameListens
  BY <1>5 DEF FrameListens, FrameInv, PageTypeOK
<1>6. CASE FrameLoads
  <2>1. frame = [frame' EXCEPT !.document = "listens"] /\ frame'.color = frame.color
        /\ frame'.menu = frame.menu /\ frame'.document = "loaded"
        /\ theme_' = theme_ /\ clickedLast' = clickedLast
    BY <1>6 DEF FrameLoads, PageTypeOK
  <2>2. CASE theme_ = NoTheme
    <3>1. toFrame' = toFrame
      BY <1>6, <2>2 DEF FrameLoads, onload
    <3> QED
      BY <2>1, <2>2, <3>1 DEF FrameInv
  <2>3. CASE theme_ # NoTheme
    <3>1. toFrame' = Append(toFrame, UpdateTheme(theme_.color))
      BY <1>6, <2>3 DEF FrameLoads, onload
    <3>2. FrameTold(toFrame', frame'.color, theme_'.color)
      BY <1>1, <1>2, <2>1, <2>3, <3>1, FrameToldMore
    <3> QED
      BY <1>2, <1>3, <2>1, <2>3, <3>1, <3>2 DEF FrameInv
  <2> QED
    BY <2>2, <2>3
<1>7. CASE FrameReloads
  BY <1>7 DEF FrameReloads, FrameInv
<1>8. CASE FrameReads
  <2> DEFINE message == Head(toFrame)
  <2>1. toFrame # <<>> /\ toFrame' = Tail(toFrame) /\ theme_' = theme_ /\ clickedLast' = clickedLast
    BY <1>8 DEF FrameReads
  <2>2. message \in FrameMessage /\ message.cmd \in {"updateTheme", "hidelang"}
    BY <1>1, <2>1, Rest DEF FrameMessage, HideLang
  <2>3. CASE frame.document = "blank"
    <3>1. frame' = frame
      BY <1>8, <2>3 DEF FrameReads
    <3> QED
      BY <2>3, <3>1 DEF FrameInv
  <2>4. CASE frame.document # "blank" /\ message.cmd = "hidelang"
    <3>1. frame'.document = frame.document /\ frame'.color = frame.color /\ ~frame'.menu
      BY <1>8, <2>4 DEF FrameReads, PageTypeOK
    <3>2. frame.document = "loaded" /\ theme_ # NoTheme
             => FrameTold(toFrame', frame'.color, theme_'.color)
      BY <1>1, <1>2, <2>1, <2>4, <3>1, FrameToldLess DEF FrameInv
    <3> QED
      BY <2>1, <3>1, <3>2 DEF FrameInv
  <2>5. CASE frame.document # "blank" /\ message.cmd # "hidelang"
    <3>1. /\ frame'.document = frame.document /\ frame'.color = message.color
          /\ frame'.menu = frame.menu
      BY <1>8, <2>5 DEF FrameReads, PageTypeOK
    <3>2. frame.document = "loaded" /\ theme_ # NoTheme
             => FrameTold(toFrame', frame'.color, theme_'.color)
      BY <1>1, <1>2, <2>1, <2>5, <3>1, FrameToldLess DEF FrameInv
    <3>3. ASSUME NEW i \in DOMAIN toFrame, toFrame[i].cmd = "hidelang"
          PROVE  \E j \in DOMAIN toFrame' : toFrame'[j].cmd = "hidelang"
      <4>1. toFrame[i] # Head(toFrame)
        BY <2>5, <3>3
      <4>2. \E j \in DOMAIN Tail(toFrame) : Tail(toFrame)[j] = toFrame[i]
        BY <1>1, <4>1, StillHeld
      <4> QED
        BY <2>1, <3>3, <4>2
    <3> QED
      BY <2>1, <2>5, <3>1, <3>2, <3>3 DEF FrameInv
  <2> QED
    BY <2>3, <2>4, <2>5
<1>9. CASE ClickInFrame
  BY <1>9 DEF ClickInFrame, FrameInv, PageTypeOK
<1>10. CASE ClickOnPage
  <2>1. toFrame' = Append(toFrame, HideLang) /\ frame' = frame /\ theme_' = theme_
    BY <1>10 DEF ClickOnPage, click
  <2>2. frame.document = "loaded" /\ theme_ # NoTheme
           => FrameTold(toFrame', frame'.color, theme_'.color)
    BY <1>1, <1>2, <2>1, FrameToldMore DEF FrameInv
  <2>3. \E j \in DOMAIN toFrame' : toFrame'[j].cmd = "hidelang"
    BY <1>1, <2>1, Held
  <2> QED
    BY <2>1, <2>2, <2>3 DEF FrameInv
<1>11. CASE \/ UNCHANGED pageVars
            \/ Browser
            \/ ResetSelection \/ OpenDialog \/ Pick \/ DialogDone \/ DialogCancel
            \/ Bar
  <2>1. UNCHANGED <<theme_, frameVars>>
    BY <1>11 DEF pageVars, Browser, ChangeTheme, ApplyCommit, AnswerPromo, ResetSelection, OpenDialog,
                 Pick, DialogDone, DialogCancel, Bar, LazyRender, BarLoaded, BarReads, BarAsks
  <2> QED
    BY <2>1 DEF frameVars, FrameInv
<1> QED
  BY <1>4, <1>5, <1>6, <1>7, <1>8, <1>9, <1>10, <1>11 DEF PageNext, Page, Frame

-----------------------------------------------------------------------------
(* The bar.                                                                *)

\* The observer tells the bar what it does not know.
LEMMA NotifyTells ==
    ASSUME PageTypeOK, BarInv, NEW t, NEW s, notifyOneGoogleBarDarkThemeEnabledChange_(t, s)
    PROVE  bar.loaded
              => BarTold(toBar', bar.dark, computeOneGoogleBarDarkThemeEnabled_(t, s))
<1> DEFINE old == computeOneGoogleBarDarkThemeEnabled_(theme_, backgroundSelection_)
           new == computeOneGoogleBarDarkThemeEnabled_(t, s)
<1>1. old \in BOOLEAN /\ new \in BOOLEAN
  BY Zenon DEF computeOneGoogleBarDarkThemeEnabled_
<1>2. bar.loaded => BarTold(toBar, bar.dark, old)
  BY DEF BarInv
<1>3. toBar' = IF bar.loaded /\ new # old THEN Append(toBar, Darken(new)) ELSE toBar
  BY DEF notifyOneGoogleBarDarkThemeEnabledChange_
<1> HIDE DEF old, new
<1>4. toBar \in Seq(BarMessage) /\ Darken(new) \in BarMessage
  BY <1>1 DEF PageTypeOK, BarMessage, Darken
<1>5. bar.loaded => BarTold(toBar', bar.dark, new)
  BY <1>1, <1>2, <1>3, <1>4, BarToldMore
<1> QED
  BY <1>5 DEF new

LEMMA BarStep ==
    ASSUME PageTypeOK, PageTypeOK', BarInv, [PageNext]_pageVars PROVE BarInv'
<1> DEFINE d == computeOneGoogleBarDarkThemeEnabled_(theme_, backgroundSelection_)
<1>1. toBar \in Seq(BarMessage) /\ d \in BOOLEAN
  BY DEF PageTypeOK, BarMessage, computeOneGoogleBarDarkThemeEnabled_
<1>2. CASE SetTheme \/ ResetSelection \/ Pick \/ DialogCancel
  <2>1. notifyOneGoogleBarDarkThemeEnabledChange_(theme_', backgroundSelection_') /\ bar' = bar
    <3>1. CASE SetTheme
      BY <3>1, UpdateEnds DEF SetTheme, PageTypeOK
    <3>2. CASE ResetSelection
      BY <3>2 DEF ResetSelection
    <3>3. CASE Pick
      BY <3>3, UpdateEnds DEF Pick
    <3>4. CASE DialogCancel
      BY <3>4, SomeSelections, UpdateEnds DEF DialogCancel
    <3> QED
      BY <1>2, <3>1, <3>2, <3>3, <3>4
  <2>2. bar.loaded => BarTold(toBar', bar.dark,
                         computeOneGoogleBarDarkThemeEnabled_(theme_', backgroundSelection_'))
    BY <2>1, NotifyTells
  <2> QED
    BY <2>1, <2>2 DEF BarInv
<1>3. CASE AnswerPromo
  <2>1. PICK m \in BarMessage : m.kind # "enableDarkTheme" /\ toBar' = Append(toBar, m)
    <3>1. Head(calls) \in Call
      BY <1>3, Rest DEF AnswerPromo, PageTypeOK, Call
    <3>2. Answer(Head(calls).key) \in BarMessage /\ [kind |-> "executed"] \in BarMessage
      BY <3>1 DEF Answer, BarMessage, Call
    <3> QED
      BY <1>3, <3>2 DEF AnswerPromo, Answer
  <2>2. bar' = bar /\ theme_' = theme_ /\ backgroundSelection_' = backgroundSelection_
    BY <1>3 DEF AnswerPromo, selectVars
  <2> HIDE DEF d
  <2>3. bar.loaded => BarTold(toBar', bar.dark, d)
    BY <1>1, <2>1, BarToldMore DEF BarInv, d
  <2> QED
    BY <2>2, <2>3 DEF BarInv, d
<1>4. CASE BarLoaded
  <2>1. toBar' = Append(toBar, Darken(d)) /\ bar'.dark = bar.dark /\ theme_' = theme_
        /\ backgroundSelection_' = backgroundSelection_
    BY <1>4 DEF BarLoaded, selectVars, PageTypeOK
  <2> HIDE DEF d
  <2>2. Darken(d) \in BarMessage
    BY <1>1 DEF Darken, BarMessage
  <2>3. BarTold(toBar', bar'.dark, d)
    BY <1>1, <2>1, <2>2, BarToldMore
  <2> QED
    BY <2>1, <2>3 DEF BarInv, d
<1>5. CASE BarReads
  <2>1. toBar # <<>> /\ toBar' = Tail(toBar) /\ theme_' = theme_
        /\ backgroundSelection_' = backgroundSelection_
    BY <1>5 DEF BarReads, selectVars
  <2>2. Head(toBar) \in BarMessage
    BY <1>1, <2>1, Rest
  <2>3. /\ bar'.loaded = bar.loaded
        /\ Head(toBar).kind = "enableDarkTheme" => bar'.dark = Head(toBar).enabled
        /\ Head(toBar).kind # "enableDarkTheme" => bar'.dark = bar.dark
    BY <1>5, <2>2 DEF BarReads, BarMessage, PageTypeOK
  <2> HIDE DEF d
  <2>4. bar.loaded => BarTold(toBar', bar'.dark, d)
    BY <1>1, <2>1, <2>3, BarToldLess DEF BarInv, d
  <2> QED
    BY <2>1, <2>3, <2>4 DEF BarInv, d
<1>6. CASE \/ UNCHANGED pageVars
           \/ ChangeTheme \/ ApplyCommit
           \/ OpenDialog \/ DialogDone
           \/ Frame
           \/ LazyRender \/ BarAsks
  <2>1. UNCHANGED <<theme_, backgroundSelection_, toBar, bar.loaded, bar.dark>>
    BY <1>6 DEF pageVars, ChangeTheme, ApplyCommit, OpenDialog, DialogDone, Frame, FrameListens,
                FrameLoads, FrameReloads, FrameReads, ClickInFrame, ClickOnPage, LazyRender,
                BarAsks, selectVars, barVars, PageTypeOK
  <2> QED
    BY <2>1 DEF BarInv
<1> QED
  BY <1>2, <1>3, <1>4, <1>5, <1>6 DEF PageNext, Browser, Page, Bar

-----------------------------------------------------------------------------
(* The questions.                                                          *)

LEMMA AskedStep ==
    ASSUME PageTypeOK, PageTypeOK', AskedInv, [PageNext]_pageVars PROVE AskedInv'
<1>1. toBar \in Seq(BarMessage) /\ calls \in Seq(Call)
  BY DEF PageTypeOK, BarMessage, Call
<1>2. CASE BarAsks
  <2>1. toBar' = toBar /\ bar' = bar
    BY <1>2 DEF BarAsks, barVars
  <2>2. PICK id \in Commands : \/ /\ canShowPromoWithBrowserCommand_(id)
                                  /\ asked' = asked \cup {id}
                               \/ /\ executePromoBrowserCommand_(id)
                                  /\ UNCHANGED asked
    BY <1>2, Zenon DEF BarAsks
  <2>3. PICK call \in Call : /\ calls' = Append(calls, call)
                             /\ \/ asked' = asked
                                \/ asked' = asked \cup {id} /\ call.kind = "show" /\ call.key = id
    <3>1. \A kind \in {"show", "execute"} :
             [kind |-> kind, command |-> commandId(id), key |-> id] \in Call
      BY DEF commandId, Call
    <3> QED
      BY <2>2, <3>1 DEF canShowPromoWithBrowserCommand_, executePromoBrowserCommand_
  <2>4. \A k \in asked : Kept(k)'
    BY <1>1, <2>1, <2>3, Held DEF AskedInv, Kept
  <2>5. asked' # asked => Kept(id)'
    BY <1>1, <2>3, Held DEF Kept
  <2> QED
    BY <2>3, <2>4, <2>5 DEF AskedInv
<1>3. CASE AnswerPromo
  <2>1. /\ calls # <<>> /\ calls' = Tail(calls) /\ bar' = bar /\ asked' = asked
    BY <1>3 DEF AnswerPromo
  <2>2. PICK m \in BarMessage :
           /\ toBar' = Append(toBar, m)
           /\ Head(calls).kind = "show" => m.kind = "can-show-promo" /\ m.key = Head(calls).key
    <3>1. Head(calls) \in Call
      BY <1>1, <2>1, Rest
    <3>2. Answer(Head(calls).key) \in BarMessage /\ [kind |-> "executed"] \in BarMessage
      BY <3>1 DEF Answer, BarMessage, Call
    <3> QED
      BY <1>3, <3>2 DEF AnswerPromo, Answer
  <2>3. ASSUME NEW k \in asked PROVE Kept(k)'
    <3>1. CASE k \in bar.answered
      BY <2>1, <3>1 DEF Kept
    <3>2. CASE \E i \in DOMAIN toBar : toBar[i].kind = "can-show-promo" /\ toBar[i].key = k
      BY <1>1, <2>2, <3>2, Held DEF Kept
    <3>3. ASSUME NEW i \in DOMAIN calls, calls[i].kind = "show", calls[i].key = k
          PROVE  Kept(k)'
      <4>1. CASE calls[i] = Head(calls)
        BY <1>1, <2>2, <3>3, <4>1, Held DEF Kept
      <4>2. CASE calls[i] # Head(calls)
        <5>1. \E j \in DOMAIN Tail(calls) : Tail(calls)[j] = calls[i]
          BY <1>1, <4>2, StillHeld
        <5> QED
          BY <2>1, <3>3, <5>1 DEF Kept
      <4> QED
        BY <4>1, <4>2
    <3> QED
      BY <2>3, <3>1, <3>2, <3>3 DEF AskedInv, Kept
  <2> QED
    BY <2>1, <2>3 DEF AskedInv
<1>4. CASE BarReads
  <2>1. toBar # <<>> /\ toBar' = Tail(toBar) /\ calls' = calls /\ asked' = asked
    BY <1>4 DEF BarReads, promoVars
  <2>2. Head(toBar) \in BarMessage
    BY <1>1, <2>1, Rest
  <2>3. /\ bar.answered \subseteq bar'.answered
        /\ Head(toBar).kind = "can-show-promo" => Head(toBar).key \in bar'.answered
    BY <1>4, <2>2 DEF BarReads, BarMessage, PageTypeOK
  <2>4. ASSUME NEW k \in asked PROVE Kept(k)'
    <3>1. CASE k \in bar.answered
      BY <2>3, <3>1 DEF Kept
    <3>2. CASE \E i \in DOMAIN calls : calls[i].kind = "show" /\ calls[i].key = k
      BY <2>1, <3>2 DEF Kept
    <3>3. ASSUME NEW i \in DOMAIN toBar, toBar[i].kind = "can-show-promo", toBar[i].key = k
          PROVE  Kept(k)'
      <4>1. CASE toBar[i] = Head(toBar)
        BY <2>3, <3>3, <4>1 DEF Kept
      <4>2. CASE toBar[i] # Head(toBar)
        <5>1. \E j \in DOMAIN Tail(toBar) : Tail(toBar)[j] = toBar[i]
          BY <1>1, <4>2, StillHeld
        <5> QED
          BY <2>1, <3>3, <5>1 DEF Kept
      <4> QED
        BY <4>1, <4>2
    <3> QED
      BY <2>4, <3>1, <3>2, <3>3 DEF AskedInv, Kept
  <2> QED
    BY <2>1, <2>4 DEF AskedInv
<1>5. ASSUME \E d \in BOOLEAN : toBar' = Append(toBar, Darken(d)) \/ toBar' = toBar,
             calls' = calls, asked' = asked, bar'.answered = bar.answered
      PROVE  AskedInv'
  <2>1. \A d \in BOOLEAN : Darken(d) \in BarMessage
    BY DEF Darken, BarMessage
  <2>2. \A i \in DOMAIN toBar : i \in DOMAIN toBar' /\ toBar'[i] = toBar[i]
    <3>1. PICK d \in BOOLEAN : toBar' = Append(toBar, Darken(d)) \/ toBar' = toBar
      BY <1>5
    <3>2. CASE toBar' = toBar
      BY <3>2
    <3>3. CASE toBar' = Append(toBar, Darken(d))
      <4>1. toBar \in Seq(BarMessage) /\ Darken(d) \in BarMessage
        BY <1>1, <2>1
      <4>2. \A i \in DOMAIN toBar : i \in DOMAIN Append(toBar, Darken(d))
                                  /\ Append(toBar, Darken(d))[i] = toBar[i]
        BY <4>1, Held
      <4> QED
        BY <3>3, <4>2
    <3> QED
      BY <3>1, <3>2, <3>3
  <2> QED
    BY <1>5, <2>2 DEF AskedInv, Kept
<1>6. CASE SetTheme \/ ResetSelection \/ Pick \/ DialogCancel
  <2>1. UNCHANGED <<bar, promoVars>>
    BY <1>6 DEF SetTheme, ResetSelection, Pick, DialogCancel
  <2>2. notifyOneGoogleBarDarkThemeEnabledChange_(theme_', backgroundSelection_')
    <3>1. CASE SetTheme
      BY <3>1, UpdateEnds DEF SetTheme, PageTypeOK
    <3>2. CASE ResetSelection
      BY <3>2 DEF ResetSelection
    <3>3. CASE Pick
      BY <3>3, UpdateEnds DEF Pick
    <3>4. CASE DialogCancel
      BY <3>4, SomeSelections, UpdateEnds DEF DialogCancel
    <3> QED
      BY <1>6, <3>1, <3>2, <3>3, <3>4
  <2>3. computeOneGoogleBarDarkThemeEnabled_(theme_', backgroundSelection_') \in BOOLEAN
    BY Zenon DEF computeOneGoogleBarDarkThemeEnabled_
  <2> QED
    BY <1>5, <2>1, <2>2, <2>3 DEF notifyOneGoogleBarDarkThemeEnabledChange_, promoVars
<1>7. CASE BarLoaded
  <2>1. computeOneGoogleBarDarkThemeEnabled_(theme_, backgroundSelection_) \in BOOLEAN
    BY Zenon DEF computeOneGoogleBarDarkThemeEnabled_
  <2> QED
    BY <1>5, <1>7, <2>1 DEF BarLoaded, promoVars, PageTypeOK
<1>8. CASE \/ UNCHANGED pageVars
           \/ ChangeTheme \/ ApplyCommit
           \/ OpenDialog \/ DialogDone
           \/ Frame
           \/ LazyRender
  <2>1. UNCHANGED <<toBar, promoVars, bar.answered>>
    BY <1>8 DEF pageVars, ChangeTheme, ApplyCommit, OpenDialog, DialogDone, Frame, FrameListens,
                FrameLoads, FrameReloads, FrameReads, ClickInFrame, ClickOnPage, LazyRender,
                barVars, PageTypeOK
  <2> QED
    BY <1>5, <2>1 DEF promoVars
<1> QED
  BY <1>2, <1>3, <1>4, <1>6, <1>7, <1>8 DEF PageNext, Browser, Page, Bar

-----------------------------------------------------------------------------
(* The theorems.                                                           *)

Inv == PageTypeOK /\ BackgroundIsRight /\ FrameInv /\ BarInv /\ AskedInv

LEMMA InitInv == PageInit => Inv
<1> SUFFICES ASSUME PageInit PROVE Inv
  OBVIOUS
<1>1. PageTypeOK
  BY PageInitTypes
<1>2. ~computeShowBackgroundImage_(theme_, backgroundSelection_)
  <2>1. backgroundSelection_.type = "NO_SELECTION" /\ theme_.image = NoImage
    BY SomeSelections DEF PageInit, NoTheme
  <2> QED
    BY <2>1 DEF computeShowBackgroundImage_, backgroundImage
<1>3. BackgroundIsRight
  <2>1. background.shown = FALSE /\ backgroundSelection_ = NoSelection /\ page = "any"
    BY DEF PageInit
  <2>2. ShownImageIsRight
    BY <1>2, <2>1 DEF ShownImageIsRight, computeShowBackgroundImage_
  <2> QED
    BY <2>1, <2>2 DEF BackgroundIsRight, SelectionEnds, PageIsForgotten
<1>4. FrameInv /\ BarInv /\ AskedInv
  BY DEF PageInit, FrameInv, BarInv, AskedInv
<1> QED
  BY <1>1, <1>3, <1>4 DEF Inv

LEMMA InvStep == Inv /\ [PageNext]_pageVars => Inv'
<1> SUFFICES ASSUME Inv, [PageNext]_pageVars PROVE Inv'
  OBVIOUS
<1>1. PageTypeOK'
  BY TypeStep DEF Inv
<1>2. BackgroundIsRight' /\ FrameInv' /\ BarInv' /\ AskedInv'
  BY <1>1, BackgroundStep, FrameStep, BarStep, AskedStep DEF Inv
<1> QED
  BY <1>1, <1>2 DEF Inv

\* What has been read is what was sent last.
LEMMA ReadIsSent == Inv => FramesFollow
<1> SUFFICES ASSUME Inv PROVE FramesFollow
  OBVIOUS
<1>1. DOMAIN <<>> = {}
  OBVIOUS
<1>2. FrameFollowsTheme
  BY <1>1 DEF Inv, FrameInv, FrameFollowsTheme, FrameTold
<1>3. MenuClosesOnClick
  BY <1>1 DEF Inv, FrameInv, MenuClosesOnClick
<1>4. BarFollowsTheme
  BY DEF Inv, BarInv, BarFollowsTheme, BarTold
<1>5. QuestionsAnswered
  BY DEF Inv, AskedInv, Kept, QuestionsAnswered
<1> QED
  BY <1>2, <1>3, <1>4, <1>5 DEF FramesFollow

LEMMA Invariance == PageSpec => []Inv
<1>1. PageInit => Inv
  BY InitInv
<1>2. Inv /\ [PageNext]_pageVars => Inv'
  BY InvStep
<1> QED
  BY <1>1, <1>2, PTL DEF PageSpec

\* Every variable of the page keeps its type (app.js).
THEOREM NewTabPageTypeCorrect == PageSpec => []PageTypeOK
<1>1. Inv => PageTypeOK
  BY DEF Inv
<1> QED
  BY <1>1, Invariance, PTL

\* A background that is shown is the one selected, or else the theme's, and with the dialog closed a
\* selection only stands in for a theme or a timer that is still to come
\* (updateBackgroundImagePath_, onShowBackgroundImageChange_, onCustomizeDialogClose_).
THEOREM BackgroundStaysRight == PageSpec => []BackgroundIsRight
<1>1. Inv => BackgroundIsRight
  BY DEF Inv
<1> QED
  BY <1>1, Invariance, PTL

\* The frame of Netbox and the bar, once they have read their messages, show the theme, the click
\* and the selection of the page, however often the frame is loaded again, and no question of the
\* bar is lost (onThemeChange_, onload, notifyOneGoogleBarDarkThemeEnabledChange_,
\* canShowPromoWithBrowserCommand_).
THEOREM FramesKeepUp == PageSpec => []FramesFollow
<1>1. Inv => FramesFollow
  BY ReadIsSent
<1> QED
  BY <1>1, Invariance, PTL

-----------------------------------------------------------------------------
(* Both parts.  A behaviour is about one of them, and a step of the other is none of this one.   *)

LEMMA PartsRun == MCFairSpec => Spec /\ PageSpec
<1>1. MCInit => Init /\ PageInit
  BY DEF MCInit
<1>2. [MCNext]_<<part, vars, pageVars>> => [Next]_vars
  BY DEF MCNext
<1>3. [MCNext]_<<part, vars, pageVars>> => [PageNext]_pageVars
  BY DEF MCNext
<1> QED
  BY <1>1, <1>2, <1>3, PTL DEF MCFairSpec, Spec, PageSpec

\* Whatever the browser and its first tab do together, every variable of both keeps its type
\* (wallet_environment.cc, app.js).
THEOREM StartTypesCorrect == MCFairSpec => []TypesOK
<1>1. TypeOK /\ PageTypeOK => TypesOK
  BY DEF TypesOK
<1> QED
  BY <1>1, PartsRun, SessionTypeCorrect, NewTabPageTypeCorrect, PTL
=============================================================================
