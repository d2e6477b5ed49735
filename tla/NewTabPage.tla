----------------------------- MODULE NewTabPage -----------------------------
(***************************************************************************)
(* The new tab page (resources/new_tab_page/app.js and app.html).           *)
(*                                                                         *)
(* The browser pushes its theme to the page.  The page hands it on to three   *)
(* others: the frame of Netbox (a document of its own, that may load after      *)
(* the theme or be loaded again), the bar on top (an iframe that tells when it  *)
(* has loaded) and the background.  The customize dialog shows a selection in  *)
(* the place of the theme until the browser has pushed the theme it makes of it. *)
(* The bar also asks the browser, through the page, about promo commands.     *)
(*                                                                         *)
(* Abstractions.  A theme is the colour of its text, which tells whether it is   *)
(* dark, and its image.  Setting a property of the page runs all that is         *)
(* computed and observed before the assignment returns, so a handler with the   *)
(* observers it sets off is one action.  What the dialog, the bar, the browser   *)
(* and the document in the frame do is external: app.js only shows their         *)
(* messages and the binding of the selection.                               *)
(***************************************************************************)
EXTENDS Naturals, Sequences, SequencesExt

CONSTANTS
    Colors, DarkColors,      \* colours of text; those of dark themes
    NoColor,                 \* a document that was told no colour
    Images, NoImage,
    Commands, Known,         \* ids of promo commands; those the page knows
    Unknown,                 \* kUnknownCommand
    MaxActs                  \* bound: changes of the theme the browser makes by itself, openings
                             \* of the dialog, selections, clicks, questions of the bar and reloads

\* What the constants have to be.
ASSUME PageAssumption ==
    /\ DarkColors \subseteq Colors /\ NoColor \notin Colors /\ NoImage \notin Images
    /\ Known \subseteq Commands /\ Unknown \notin Commands
    /\ MaxActs \in Nat

Theme  == [color : Colors, image : Images \cup {NoImage}]
NoTheme == [color |-> NoColor, image |-> NoImage]

NoSelection  == [type |-> "NO_SELECTION", image |-> NoImage]
NoBackground == [type |-> "NO_BACKGROUND", image |-> NoImage]
DailyRefresh == [type |-> "DAILY_REFRESH", image |-> NoImage]
BackgroundSelection ==
    {NoSelection, NoBackground, DailyRefresh} \cup [type : {"IMAGE"}, image : Images]

VARIABLES
    theme,                   \* browser: the theme
    commits,                 \* browser: selections the dialog has committed, not yet applied
    pushes,                  \* setTheme calls under way
    theme_,                  \* NoTheme before the first
    backgroundSelection_,
    dialog,                  \* showCustomizeDialog_
    page,                    \* selectedCustomizeDialogPage_: the modules, or the dialog decides
    timers,                  \* 100 ms timers that will reset the selection
    background,              \* backgroundManager_: the image set last and whether it is shown
    frame,                   \* the document in #netbox__frame
    toFrame,                 \* messages posted to it
    bar,                     \* lazyRender_ and oneGoogleBarLoaded_; how dark the bar is
    toBar,                   \* messages posted to the bar
    calls,                   \* promo commands the browser works on
    acts,
    asked,                   \* history: commands the bar has asked about
    clickedLast              \* history: where the last click was, "frame" or "page"

themeVars  == <<theme, commits, pushes>>
selectVars == <<backgroundSelection_, dialog, page, timers>>
frameVars  == <<frame, toFrame, clickedLast>>
barVars    == <<bar, toBar>>
promoVars  == <<calls, asked>>
pageVars == <<themeVars, theme_, selectVars, background, frameVars, barVars, promoVars, acts>>

Darken(enabled) == [kind |-> "enableDarkTheme", enabled |-> enabled]
Answer(key)     == [kind |-> "can-show-promo", key |-> key]
UpdateTheme(color) == [cmd |-> "updateTheme", color |-> color]
HideLang        == [cmd |-> "hidelang", color |-> NoColor]

PageTypeOK ==
    /\ theme \in Theme /\ commits \in Seq(BackgroundSelection \ {NoSelection})
    /\ pushes \in Seq(Theme) /\ theme_ \in Theme \cup {NoTheme}
    /\ backgroundSelection_ \in BackgroundSelection
    /\ dialog \in BOOLEAN /\ page \in {"modules", "any"} /\ timers \in Nat
    /\ background \in [image : Images \cup {NoImage}, shown : BOOLEAN]
    /\ background.shown => background.image # NoImage
    /\ frame \in [document : {"blank", "listens", "loaded"}, color : Colors \cup {NoColor},
                  menu : BOOLEAN]
    /\ toFrame \in Seq([cmd : {"updateTheme"}, color : Colors] \cup {HideLang})
    /\ bar \in [rendered : BOOLEAN, loaded : BOOLEAN, dark : BOOLEAN, answered : SUBSET Commands]
    /\ toBar \in Seq([kind : {"enableDarkTheme"}, enabled : BOOLEAN]
                     \cup [kind : {"can-show-promo"}, key : Commands]
                     \cup {[kind |-> "executed"]})
    /\ calls \in Seq([kind : {"show", "execute"}, command : Known \cup {Unknown},
                      key : Commands])
    /\ asked \subseteq Commands /\ clickedLast \in {"frame", "page"}
    /\ acts \in 0 .. MaxActs

\* ready has put the empty frame into the page, connectedCallback listens to setTheme.
PageInit ==
    /\ theme \in Theme /\ commits = <<>> /\ pushes = <<theme>>
    /\ theme_ = NoTheme /\ backgroundSelection_ = NoSelection
    /\ dialog = FALSE /\ page = "any" /\ timers = 0
    /\ background = [image |-> NoImage, shown |-> FALSE]
    /\ frame = [document |-> "blank", color |-> NoColor, menu |-> FALSE] /\ toFrame = <<>>
    /\ bar = [rendered |-> FALSE, loaded |-> FALSE, dark |-> FALSE, answered |-> {}]
    /\ toBar = <<>> /\ calls = <<>>
    /\ acts = 0 /\ asked = {} /\ clickedLast = "page"

-----------------------------------------------------------------------------
(* What the page computes of a theme and a selection.                      *)

computeOneGoogleBarDarkThemeEnabled_(t, selection) ==
    \/ selection.type = "IMAGE"
    \/ t.color \in DarkColors

\* The background image, of the selection or of the theme.
backgroundImage(t, selection) ==
    CASE selection.type = "NO_SELECTION" -> t.image
      [] selection.type = "IMAGE"        -> selection.image
      [] selection.type \in {"NO_BACKGROUND", "DAILY_REFRESH"} -> NoImage

computeShowBackgroundImage_(t, selection) == backgroundImage(t, selection) # NoImage

(* The observers.  Each is a conjunct of the actions that change what it observes. *)

\* Mutant: the image that is previewed is set, the one that is gone back to is not.
backgroundAfter_OnlySelected(t, selection) ==
    [image |-> IF selection.type = "IMAGE" THEN selection.image ELSE background.image,
     shown |-> computeShowBackgroundImage_(t, selection)]

\* The end of updateBackgroundImagePath_ and onShowBackgroundImageChange_: the image is only set
\* when there is one.
backgroundAfter(t, selection) ==
    LET image == backgroundImage(t, selection)
    IN  [image |-> IF image # NoImage THEN image ELSE background.image,
         shown |-> computeShowBackgroundImage_(t, selection)]

\* Mutant: the bar is only told what the theme says.
notifyOneGoogleBarDarkThemeEnabledChange__ThemeOnly(t, selection) ==
    toBar' = IF bar.loaded /\ (t.color \in DarkColors) # (theme_.color \in DarkColors)
             THEN Append(toBar, Darken(t.color \in DarkColors)) ELSE toBar

\* The bar is told when the value has changed and the bar is there to be told.
notifyOneGoogleBarDarkThemeEnabledChange_(t, selection) ==
    LET enabled == computeOneGoogleBarDarkThemeEnabled_(t, selection)
    IN  toBar' = IF /\ bar.loaded
                    /\ enabled # computeOneGoogleBarDarkThemeEnabled_(theme_, backgroundSelection_)
                 THEN Append(toBar, Darken(enabled)) ELSE toBar

\* Mutant: a selection of no background is kept.
updateBackgroundImagePath__KeepNone(t, selection) ==
    LET resets == ~dialog /\ selection.type # "NO_SELECTION"
        kept   == IF resets /\ selection.type # "NO_BACKGROUND" THEN NoSelection ELSE selection
    IN  /\ timers' = timers
        /\ backgroundSelection_' = kept
        /\ background' = backgroundAfter(t, kept)
        /\ notifyOneGoogleBarDarkThemeEnabledChange_(t, kept)

\* With the dialog closed the selection has been committed, and the theme t is shown in its place;
\* after NO_BACKGROUND only in 100 ms, that the image of before does not flash.
updateBackgroundImagePath_(t, selection) ==
    LET resets == ~dialog /\ selection.type # "NO_SELECTION"
        later  == resets /\ selection.type = "NO_BACKGROUND"
        kept   == IF resets /\ ~later THEN NoSelection ELSE selection
    IN  /\ timers' = timers + (IF later THEN 1 ELSE 0)
        /\ backgroundSelection_' = kept
        /\ background' = backgroundAfter(t, kept)
        /\ notifyOneGoogleBarDarkThemeEnabledChange_(t, kept)

-----------------------------------------------------------------------------
(* The browser.                                                            *)

\* Another page, or an extension, changes the theme.
ChangeTheme ==
    /\ acts < MaxActs
    /\ \E t \in Theme \ {theme} : theme' = t /\ pushes' = Append(pushes, t)
    /\ acts' = acts + 1
    /\ UNCHANGED <<commits, theme_, selectVars, background, frameVars, barVars, promoVars>>

\* The browser applies what the dialog has committed, and pushes the theme that is made of it.
ApplyCommit ==
    /\ commits # <<>>
    /\ \E image \in Images \cup {NoImage} :
          /\ Head(commits).type = "IMAGE" => image = Head(commits).image
          /\ Head(commits).type = "NO_BACKGROUND" => image = NoImage
          /\ Head(commits).type = "DAILY_REFRESH" => image # NoImage
          /\ theme' = [theme EXCEPT !.image = image]
    /\ commits' = Tail(commits) /\ pushes' = Append(pushes, theme')
    /\ UNCHANGED <<theme_, selectVars, background, frameVars, barVars, promoVars, acts>>

AnswerPromo ==
    /\ calls # <<>>
    /\ toBar' = Append(toBar, IF Head(calls).kind = "show" THEN Answer(Head(calls).key)
                                                           ELSE [kind |-> "executed"])
    /\ calls' = Tail(calls)
    /\ UNCHANGED <<themeVars, theme_, selectVars, background, frameVars, bar, asked, acts>>

-----------------------------------------------------------------------------
(* The page.                                                               *)

\* Mutant: the frame is told the theme when it has loaded, not when the theme changes.
onThemeChange__NoFrame(t) ==
    toFrame' = toFrame

\* The message to the frame, the part of onThemeChange_ that no other observer has.
onThemeChange_(t) ==
    toFrame' = Append(toFrame, UpdateTheme(t.color))

\* The listener of setTheme.  The browser may push the theme again: it is another object.
SetTheme ==
    /\ pushes # <<>>
    /\ theme_' = Head(pushes) /\ pushes' = Tail(pushes)
    /\ onThemeChange_(Head(pushes))
    /\ updateBackgroundImagePath_(Head(pushes), backgroundSelection_)
    /\ UNCHANGED <<theme, commits, dialog, page, frame, clickedLast, bar, promoVars, acts>>

ResetSelection ==
    /\ timers > 0
    /\ timers' = timers - 1
    /\ backgroundSelection_' = NoSelection
    /\ background' = backgroundAfter(theme_, NoSelection)
    /\ notifyOneGoogleBarDarkThemeEnabledChange_(theme_, NoSelection)
    /\ UNCHANGED <<themeVars, theme_, dialog, page, frameVars, bar, promoVars, acts>>

\* onCustomizeClick_ and onCustomizeModule_, from elements that lazyRender_ has put there.
OpenDialog ==
    /\ bar.rendered /\ ~dialog /\ acts < MaxActs
    /\ dialog' = TRUE
    /\ page' \in {"modules", page} /\ acts' = acts + 1
    /\ UNCHANGED <<themeVars, theme_, backgroundSelection_, timers, background, frameVars,
                    barVars, promoVars>>

\* Mutant: the page of the dialog is not forgotten.
onCustomizeDialogClose__KeepPage ==
    dialog' = FALSE /\ UNCHANGED page

onCustomizeDialogClose_ ==
    dialog' = FALSE /\ page' = "any"

\* The dialog binds its selection to backgroundSelection_.
Pick ==
    /\ dialog /\ acts < MaxActs
    /\ \E selection \in BackgroundSelection \ {backgroundSelection_} :
          updateBackgroundImagePath_(theme_, selection)
    /\ acts' = acts + 1
    /\ UNCHANGED <<themeVars, theme_, dialog, page, frameVars, bar, promoVars>>

\* Done commits the selection, if there is one, and closes the dialog.
DialogDone ==
    /\ dialog
    /\ commits' = IF backgroundSelection_ = NoSelection THEN commits
                  ELSE Append(commits, backgroundSelection_)
    /\ onCustomizeDialogClose_
    /\ UNCHANGED <<theme, pushes, theme_, backgroundSelection_, timers, background, frameVars,
                    barVars, promoVars, acts>>

\* Cancel resets the selection, then closes the dialog.
DialogCancel ==
    /\ dialog
    /\ updateBackgroundImagePath_(theme_, NoSelection)
    /\ onCustomizeDialogClose_
    /\ UNCHANGED <<themeVars, theme_, frameVars, bar, promoVars, acts>>

-----------------------------------------------------------------------------
(* The frame of Netbox.                                                    *)

FrameListens ==
    /\ frame.document = "blank"
    /\ frame' = [frame EXCEPT !.document = "listens"]
    /\ UNCHANGED <<themeVars, theme_, selectVars, background, toFrame, clickedLast, barVars,
                    promoVars, acts>>

\* Mutant: the frame that has loaded is told nothing.
onload_Silent == toFrame' = toFrame

onload == toFrame' = IF theme_ # NoTheme THEN Append(toFrame, UpdateTheme(theme_.color))
                     ELSE toFrame

FrameLoads ==
    /\ frame.document = "listens"
    /\ frame' = [frame EXCEPT !.document = "loaded"]
    /\ onload
    /\ UNCHANGED <<themeVars, theme_, selectVars, background, clickedLast, barVars, promoVars,
                    acts>>

\* The frame is loaded again: it is a document that was told nothing.
FrameReloads ==
    /\ frame.document = "loaded" /\ acts < MaxActs
    /\ frame' = [document |-> "blank", color |-> NoColor, menu |-> FALSE]
    /\ acts' = acts + 1
    /\ UNCHANGED <<themeVars, theme_, selectVars, background, toFrame, clickedLast, barVars,
                    promoVars>>

\* A message that finds no listener is lost.
FrameReads ==
    /\ toFrame # <<>>
    /\ LET message == Head(toFrame) IN
          frame' = IF frame.document = "blank" THEN frame
                   ELSE IF message.cmd = "hidelang" THEN [frame EXCEPT !.menu = FALSE]
                   ELSE [frame EXCEPT !.color = message.color]
    /\ toFrame' = Tail(toFrame)
    /\ UNCHANGED <<themeVars, theme_, selectVars, background, clickedLast, barVars, promoVars,
                    acts>>

ClickInFrame ==
    /\ frame.document = "loaded" /\ acts < MaxActs
    /\ frame' = [frame EXCEPT !.menu = TRUE]
    /\ clickedLast' = "frame" /\ acts' = acts + 1
    /\ UNCHANGED <<themeVars, theme_, selectVars, background, toFrame, barVars, promoVars>>

\* Mutant: a click on the page closes the menu only while the dialog is closed.
click_NoDialog == toFrame' = IF dialog THEN toFrame ELSE Append(toFrame, HideLang)

\* The listener of click: a click in the frame does not get here.
click == toFrame' = Append(toFrame, HideLang)

ClickOnPage ==
    /\ acts < MaxActs
    /\ click
    /\ clickedLast' = "page" /\ acts' = acts + 1
    /\ UNCHANGED <<themeVars, theme_, selectVars, background, frame, barVars, promoVars>>

-----------------------------------------------------------------------------
(* The bar.                                                                *)

\* The elements that are not crucial are rendered, the bar among them.
LazyRender ==
    /\ ~bar.rendered
    /\ bar' = [bar EXCEPT !.rendered = TRUE]
    /\ UNCHANGED <<themeVars, theme_, selectVars, background, frameVars, toBar, promoVars, acts>>

\* handleOneGoogleBarMessage_ of "loaded"; what was computed before is sent.
BarLoaded ==
    /\ bar.rendered /\ ~bar.loaded
    /\ bar' = [bar EXCEPT !.loaded = TRUE]
    /\ toBar' = Append(toBar,
                       Darken(computeOneGoogleBarDarkThemeEnabled_(theme_, backgroundSelection_)))
    /\ UNCHANGED <<themeVars, theme_, selectVars, background, frameVars, promoVars, acts>>

BarReads ==
    /\ toBar # <<>>
    /\ LET message == Head(toBar) IN
          bar' = CASE message.kind = "enableDarkTheme" -> [bar EXCEPT !.dark = message.enabled]
                   [] message.kind = "can-show-promo"  ->
                         [bar EXCEPT !.answered = @ \cup {message.key}]
                   [] message.kind = "executed"        -> bar
    /\ toBar' = Tail(toBar)
    /\ UNCHANGED <<themeVars, theme_, selectVars, background, frameVars, promoVars, acts>>

\* Mutant: the id is passed on as it is.
commandId_Raw(id) == id

\* Unsupported commands are not sent to the browser.
commandId(id) == IF id \in Known THEN id ELSE Unknown

\* Mutant: the question is remembered by a command that is known.
canShowPromoWithBrowserCommand__Known(id) ==
    calls' = Append(calls, [kind |-> "show", command |-> commandId(id),
                            key |-> CHOOSE k \in Known : id \in Known => k = id])

canShowPromoWithBrowserCommand_(id) ==
    calls' = Append(calls, [kind |-> "show", command |-> commandId(id), key |-> id])

executePromoBrowserCommand_(id) ==
    calls' = Append(calls, [kind |-> "execute", command |-> commandId(id), key |-> id])

BarAsks ==
    /\ bar.loaded /\ acts < MaxActs
    /\ \E id \in Commands :
          \/ canShowPromoWithBrowserCommand_(id) /\ asked' = asked \cup {id}
          \/ executePromoBrowserCommand_(id) /\ UNCHANGED asked
    /\ acts' = acts + 1
    /\ UNCHANGED <<themeVars, theme_, selectVars, background, frameVars, barVars>>

-----------------------------------------------------------------------------

Browser == ChangeTheme \/ ApplyCommit \/ AnswerPromo
Page    == SetTheme \/ ResetSelection \/ OpenDialog \/ Pick \/ DialogDone \/ DialogCancel
Frame   == FrameListens \/ FrameLoads \/ FrameReloads \/ FrameReads \/ ClickInFrame \/ ClickOnPage
Bar     == LazyRender \/ BarLoaded \/ BarReads \/ BarAsks

PageNext == Browser \/ Page \/ Frame \/ Bar

PageSpec == PageInit /\ [][PageNext]_pageVars

\* What happens without anybody's doing.
Due == ApplyCommit \/ AnswerPromo \/ SetTheme \/ ResetSelection \/ FrameListens \/ FrameLoads
         \/ FrameReads \/ LazyRender \/ BarLoaded \/ BarReads

\* The browser works on, messages and timers arrive and documents load; users need do nothing.
PageFairSpec == PageSpec /\ WF_pageVars(Due)

-----------------------------------------------------------------------------
(* Properties.                                                             *)

\* The document in the frame shows the colour of the page's theme once it has loaded and read its
\* messages, whether the theme or the document came first (onThemeChange_, onload).
FrameFollowsTheme ==
    frame.document = "loaded" /\ toFrame = <<>> /\ theme_ # NoTheme => frame.color = theme_.color

\* The menu of languages in the frame is not left open after a click on the page, whatever else
\* was posted to the frame (the listener of click in ready).
MenuClosesOnClick ==
    frame.menu /\ toFrame = <<>> => clickedLast = "frame"

\* The bar that has read its messages is as dark as the theme and the selection together say, though
\* it loads late and either changes without the other (notifyOneGoogleBarDarkThemeEnabledChange_).
BarFollowsTheme ==
    bar.loaded /\ (\A i \in DOMAIN toBar : toBar[i].kind # "enableDarkTheme")
        => bar.dark = computeOneGoogleBarDarkThemeEnabled_(theme_, backgroundSelection_)

\* A background that is shown is the one selected, or else the theme's: a preview that was left is
\* not shown as the theme's (updateBackgroundImagePath_, onShowBackgroundImageChange_).
ShownImageIsRight ==
    /\ background.shown = computeShowBackgroundImage_(theme_, backgroundSelection_)
    /\ background.shown => background.image = backgroundImage(theme_, backgroundSelection_)

\* With the dialog closed a selection only stands in for a theme that is still to come, or for a
\* timer that ends it (updateBackgroundImagePath_: a selection that stays hides every theme).
SelectionEnds ==
    ~dialog /\ backgroundSelection_ # NoSelection => commits # <<>> \/ pushes # <<>> \/ timers > 0

\* The dialog opened by its button decides itself what page to show, though it was opened for the
\* modules before (onCustomizeDialogClose_).
PageIsForgotten == ~dialog => page = "any"

\* A question of the bar is under way or answered by the id it was asked with, also when the
\* browser was asked about an unknown command instead (canShowPromoWithBrowserCommand_).
QuestionsAnswered ==
    asked \subseteq bar.answered
        \cup {calls[i].key : i \in {j \in DOMAIN calls : calls[j].kind = "show"}}
        \cup {toBar[i].key : i \in {j \in DOMAIN toBar : toBar[j].kind = "can-show-promo"}}

\* The documents in the frames follow the page: its theme, its clicks and its answers.
FramesFollow ==
    FrameFollowsTheme /\ BarFollowsTheme /\ MenuClosesOnClick /\ QuestionsAnswered

\* What is behind the page follows theme and selection, and a selection does not outlive its dialog.
BackgroundIsRight == ShownImageIsRight /\ SelectionEnds /\ PageIsForgotten

\* When the dialog stays closed the page comes to show the browser's own theme, in the frame and
\* behind its content, whatever was selected and committed before.
PageSettles ==
    <>[]~dialog => <>[](/\ theme_ = theme /\ backgroundSelection_ = NoSelection
                        /\ background.shown = (theme.image # NoImage)
                        /\ frame.document = "loaded" => frame.color = theme.color)
=============================================================================
