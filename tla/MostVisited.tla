---------------------------- MODULE MostVisited ----------------------------
(***************************************************************************)
(* The shortcuts of the new tab page (resources/new_tab_page/most_visited.js).*)
(*                                                                         *)
(* The browser owns the list of shortcuts.  It pushes it to the page          *)
(* (setMostVisitedInfo) and answers addMostVisitedTile and                    *)
(* updateMostVisitedTile, by two pipes, so that pushes and answers overtake   *)
(* each other.  The page remembers the tile a menu was opened on by its index, *)
(* a dragged tile by a class on its element, and moves a dropped tile before   *)
(* the browser has.  Pushes, answers and a change of the window's width come   *)
(* in the middle of all this.                                               *)
(*                                                                         *)
(* Abstractions.  A shortcut is its URL; titles only matter when they are all  *)
(* that an edit changes.  The list view keeps one element per index, so a     *)
(* class stays with the index.  Indices count from 1, 0 is the code's -1.     *)
(* The dialog's close event is handled with the call that closes it.         *)
(* The menu and the dialog are modal, and so is a drag for its user.         *)
(***************************************************************************)
EXTENDS Naturals, Sequences, SequencesExt, FiniteSetsExt

CONSTANTS
    Urls, NoUrl,         \* URLs of shortcuts; the empty text
    MaxCustomTiles,      \* tiles shown of custom links: 10
    MaxTopTiles,         \* tiles shown of the most visited sites: 8
    Widths,              \* columns the window has room for: 3, 4, 5
    MaxTileChanges,      \* bound: changes the browser makes by itself
    MaxTileActs          \* bound: menus, dialogs, drags and clicks of the user

\* What the constants have to be.
ASSUME TilesAssumption ==
    /\ IsFiniteSet(Urls) /\ NoUrl \notin Urls
    /\ MaxCustomTiles \in Nat \ {0} /\ MaxTopTiles \in Nat \ {0}
    /\ Widths \subseteq Nat \ {0} /\ Widths # {}
    /\ MaxTileChanges \in Nat /\ MaxTileActs \in Nat

VARIABLES
    links, custom,           \* browser: the shortcuts, and whether they are custom links
    tileRequests,            \* requests under way, in order
    infos, replies,          \* pushes and answers under way, each in order
    tiles_, customLinksEnabled_,
    columns,                 \* columns for the width of the window (screenWidth_)
    actionMenuTargetIndex_, adding_,
    tileMenu,                \* the action menu is open
    dialog,                  \* open, dialogTileUrl_, dialogShortcutAlreadyExists_
    toast,                   \* open, showToastButtons_
    dragging,                \* "no", or what drags: "mouse", "touch"
    dragged,                 \* the element the user drags
    marked,                  \* elements with the class dragging
    rects,                   \* tileRects_: number of elements when the drag started
    reordering_,
    orphan,                  \* a dragend listener of a drag whose element went away is left
    pointermove,             \* a pointermove listener waits to end the reordering
    tileChanges, tileActs,
    tileChosen,              \* history: URL of the tile the menu or the drag began on
    replaced,                \* history: tiles were pushed since
    reset,                   \* history: an answer reset the target since
    missed,                  \* history: a drop missed: its place had gone, or its listener
    leftover                 \* history: a drag ended with custom links off, its mark left

linkVars    == <<links, custom>>
tileVars    == <<tiles_, customLinksEnabled_>>
targetVars  == <<actionMenuTargetIndex_, adding_, tileMenu, dialog>>
dragVars    == <<dragging, dragged, marked, rects, reordering_, orphan, pointermove, missed,
                 leftover>>
countVars   == <<tileChanges, tileActs>>
pastVars    == <<tileChosen, replaced, reset>>
tilesVars == <<linkVars, tileRequests, infos, replies, tileVars, columns, targetVars, toast,
          dragVars, countVars, pastVars>>

Lists    == {s \in BoundedSeq(Urls, Cardinality(Urls)) : IsInjective(s)}
Info     == [tiles : Lists, custom : BOOLEAN]
Reply    == [kind : {"add", "update"}, success : BOOLEAN]
TileRequest(kind, url, new, at) == [kind |-> kind, url |-> url, new |-> new, at |-> at]
TileRequests == [kind : {"refresh", "undo", "restore"}, url : {NoUrl}, new : {NoUrl}, at : {0}]
       \cup [kind : {"delete", "add"}, url : Urls, new : {NoUrl}, at : {0}]
       \cup [kind : {"update"}, url : Urls, new : Urls, at : {0}]
       \cup [kind : {"reorder"}, url : Urls, new : {NoUrl}, at : Nat]
Elements == 1 .. (IF MaxCustomTiles > MaxTopTiles THEN MaxCustomTiles ELSE MaxTopTiles)

TilesTypeOK ==
    /\ links \in Lists /\ custom \in BOOLEAN
    /\ tileRequests \in Seq(TileRequests) /\ infos \in Seq(Info) /\ replies \in Seq(Reply)
    /\ tiles_ \in Lists /\ customLinksEnabled_ \in BOOLEAN /\ columns \in Widths
    /\ actionMenuTargetIndex_ \in Elements \cup {0} /\ adding_ \in BOOLEAN /\ tileMenu \in BOOLEAN
    /\ dialog \in [open : BOOLEAN, url : Urls \cup {NoUrl}, exists : BOOLEAN]
    /\ adding_ => dialog.open
    /\ toast \in [open : BOOLEAN, buttons : BOOLEAN]
    /\ dragging \in {"no", "mouse", "touch"} /\ dragged \in Elements \cup {0}
    /\ marked \subseteq DOMAIN tiles_ /\ rects \in Elements \cup {0}
    /\ reordering_ \in BOOLEAN /\ orphan \in BOOLEAN /\ pointermove \in BOOLEAN
    /\ tileChanges \in 0 .. MaxTileChanges /\ tileActs \in 0 .. MaxTileActs
    /\ tileChosen \in Urls \cup {NoUrl}
    /\ replaced \in BOOLEAN /\ reset \in BOOLEAN /\ missed \in BOOLEAN
    /\ leftover \in BOOLEAN

NoDialog == [open |-> FALSE, url |-> NoUrl, exists |-> FALSE]

\* connectedCallback has asked for the tiles.
TilesInit ==
    /\ links \in Lists /\ custom \in BOOLEAN
    /\ tileRequests = <<TileRequest("refresh", NoUrl, NoUrl, 0)>> /\ infos = <<>> /\ replies = <<>>
    /\ tiles_ = <<>> /\ customLinksEnabled_ = FALSE /\ columns \in Widths
    /\ actionMenuTargetIndex_ = 0 /\ adding_ = FALSE /\ tileMenu = FALSE /\ dialog = NoDialog
    /\ toast = [open |-> FALSE, buttons |-> FALSE]
    /\ dragging = "no" /\ dragged = 0 /\ marked = {} /\ rects = 0 /\ reordering_ = FALSE
    /\ orphan = FALSE /\ pointermove = FALSE /\ missed = FALSE /\ leftover = FALSE
    /\ tileChanges = 0 /\ tileActs = 0
    /\ tileChosen = NoUrl /\ replaced = FALSE /\ reset = FALSE

-----------------------------------------------------------------------------
(* What the page computes from its properties.                             *)

computeMaxTiles_(enabled) == IF enabled THEN MaxCustomTiles ELSE MaxTopTiles

\* One row of as many columns as the window has room for; the add tile counts as one.
\* computeRowCount_ always is 1, so this is computeMaxVisibleTiles_ as well.
computeColumnCount_ ==
    LET max   == computeMaxTiles_(customLinksEnabled_)
        count == Min({max, IF max > Len(tiles_) THEN Len(tiles_) + 1 ELSE Len(tiles_)})
    IN  Min({columns, count})

computeShowAdd_ == customLinksEnabled_ /\ Len(tiles_) < computeColumnCount_

\* tileElements_: the elements that are not hidden.
tileElements_ == 1 .. Min({Len(tiles_), computeColumnCount_})

\* Another tile than the one the index names has the URL.
computeDialogShortcutAlreadyExists_(url, tiles) ==
    \E i \in DOMAIN tiles : i # actionMenuTargetIndex_ /\ tiles[i] = url

\* The user is not held by a menu, a dialog or a drag.
Free == ~tileMenu /\ ~dialog.open /\ dragging = "no"

Ask(request) ==
    /\ tileRequests' = Append(tileRequests, request)
    /\ UNCHANGED <<linkVars, infos, replies>>

\* A step of the page that sends nothing.
Still == UNCHANGED <<linkVars, tileRequests, infos, replies>>

\* The user begins something, or goes on with it.
Begin == tileActs < MaxTileActs /\ tileActs' = tileActs + 1 /\ UNCHANGED tileChanges
GoOn  == UNCHANGED countVars

\* A menu, an edit dialog or a drag has a tile to act on.
Targeting  == tileMenu \/ (dialog.open /\ ~adding_)
Chosen(index) == tileChosen' = tiles_[index] /\ replaced' = FALSE /\ reset' = FALSE
NoTarget   == tileChosen' = NoUrl /\ replaced' = FALSE /\ reset' = FALSE

-----------------------------------------------------------------------------
(* The browser.                                                            *)

Shortened(list, enabled) == SubSeq(list, 1, Min({Len(list), computeMaxTiles_(enabled)}))

Push(list, enabled) == infos' = Append(infos, [tiles |-> list, custom |-> enabled])

\* No URL is in the list twice.
Without(list, url) == RemoveFirst(list, url)

Moved(list, url, at) ==
    LET rest == Without(list, url) IN InsertAt(rest, Min({at, Len(rest) + 1}), url)

\* The list a request but undo and restore leads to; the same list when it is refused.
Result(list, enabled, request) ==
    CASE request.kind = "delete" -> Without(list, request.url)
      [] request.kind = "add" /\ enabled /\ request.url \notin Range(list)
                                 /\ Len(list) < MaxCustomTiles -> Append(list, request.url)
      [] request.kind = "update" /\ enabled /\ request.url \in Range(list)
                                 /\ request.new \notin Range(list) \ {request.url}
             -> [i \in DOMAIN list |-> IF list[i] = request.url THEN request.new ELSE list[i]]
      [] request.kind = "reorder" /\ enabled /\ request.url \in Range(list)
                                  /\ request.at \in DOMAIN list -> Moved(list, request.url, request.at)
      [] OTHER -> list

Succeeds(request) ==
    CASE request.kind = "add"    -> Result(links, custom, request) # links
      [] request.kind = "update" -> custom /\ request.url \in Range(links)
                                       /\ request.new \notin Range(links) \ {request.url}
      [] OTHER -> FALSE

\* The browser takes a request: it pushes the list when it has changed or was asked for, and
\* answers an add or an update.
BrowserHandles ==
    /\ tileRequests # <<>>
    /\ tileRequests' = Tail(tileRequests)
    /\ LET request == Head(tileRequests) IN
       /\ IF request.kind \in {"undo", "restore"}
          THEN links' \in Lists
          ELSE links' = Result(links, custom, request)
       /\ IF links' # links \/ request.kind \in {"refresh", "restore"}
          THEN Push(links', custom) ELSE infos' = infos
       /\ replies' = IF request.kind \in {"add", "update"}
                     THEN Append(replies, [kind |-> request.kind, success |-> Succeeds(request)])
                     ELSE replies
    /\ UNCHANGED <<custom, tileVars, columns, targetVars, toast, dragVars, countVars, pastVars>>

\* The list changes by itself: another tab, the history, a setting.
BrowserChanges ==
    /\ tileChanges < MaxTileChanges
    /\ tileChanges' = tileChanges + 1
    /\ \/ /\ custom' = ~custom
          /\ links' \in Lists
       \/ /\ custom' = custom
          /\ \/ \E url \in Range(links) : links' = Without(links, url)
             \/ \E url \in Urls \ Range(links) : links' = Append(links, url)
    /\ Push(links', custom')
    /\ UNCHANGED <<tileRequests, replies, tileVars, columns, targetVars, toast, dragVars,
                   tileActs, pastVars>>

-----------------------------------------------------------------------------
(* The page hears the browser and the window.                              *)

\* Mutant: the tiles are cut before the flag is set, to the old number of tiles.
TilesOf_OldFlag(info) == Shortened(info.tiles, customLinksEnabled_)

\* The tiles of a push, cut to maxTiles_.
TilesOf(info) == Shortened(info.tiles, info.custom)

\* Mutant: dialogShortcutAlreadyExists_ does not depend on the tiles.
ExistsAmong_UrlOnly(tiles) == dialog.exists

\* dialogShortcutAlreadyExists_ is computed anew when the tiles change.
ExistsAmong(tiles) == computeDialogShortcutAlreadyExists_(dialog.url, tiles)

\* The listener of setMostVisitedInfo.  customLinksEnabled_ is set first, so the tiles are
\* cut to the new maxTiles_.  Elements past the end go away, with their class.
setMostVisitedInfo ==
    /\ infos # <<>>
    /\ infos' = Tail(infos)
    /\ LET info  == Head(infos)
           tiles == TilesOf(info)
       IN  /\ tiles_' = tiles
           /\ customLinksEnabled_' = info.custom
           /\ marked' = marked \cap DOMAIN tiles
           /\ dialog' = [dialog EXCEPT !.exists = ExistsAmong(tiles)]
    /\ replaced' = (replaced \/ Targeting \/ dragging # "no")
    /\ UNCHANGED <<linkVars, tileRequests, replies, columns, actionMenuTargetIndex_, adding_, tileMenu,
                   toast, dragging, dragged, rects, reordering_, orphan, pointermove, missed, leftover,
                   countVars, tileChosen, reset>>

\* The tab becomes visible and asks for the tiles again.
visibilitychange ==
    /\ Begin
    /\ Ask(TileRequest("refresh", NoUrl, NoUrl, 0))
    /\ UNCHANGED <<tileVars, columns, targetVars, toast, dragVars, pastVars>>

\* The part of onSave_ after await: the toast, and for an edit the target is forgotten,
\* whatever menu or dialog has been opened in the meantime.
onSave_answered ==
    /\ replies # <<>>
    /\ replies' = Tail(replies)
    /\ toast' = [open |-> TRUE, buttons |-> Head(replies).success]
    /\ IF Head(replies).kind = "update"
       THEN actionMenuTargetIndex_' = 0 /\ reset' = (reset \/ tileMenu \/ dialog.open)
       ELSE UNCHANGED <<actionMenuTargetIndex_, reset>>
    /\ UNCHANGED <<linkVars, tileRequests, infos, tileVars, columns, adding_, tileMenu, dialog,
                   dragVars, countVars, tileChosen, replaced>>

updateScreenWidth_ ==
    /\ columns' \in Widths
    /\ UNCHANGED <<tileVars, targetVars, toast, dragVars, pastVars>> /\ Still /\ GoOn

\* The toast's time is over.
ToastHides ==
    /\ toast.open
    /\ toast' = [toast EXCEPT !.open = FALSE]
    /\ UNCHANGED <<tileVars, columns, targetVars, dragVars, pastVars>> /\ Still /\ GoOn

-----------------------------------------------------------------------------
(* Menu, dialog and toast.                                                 *)

\* Mutant: a target that is there already is kept.
TargetOf_Kept(index) == IF actionMenuTargetIndex_ = 0 THEN index ELSE actionMenuTargetIndex_

\* The tile the menu is for.
TargetOf(index) == index

onTileActionButtonClick_(index) ==
    /\ Free /\ customLinksEnabled_ /\ index \in tileElements_
    /\ actionMenuTargetIndex_' = TargetOf(index)
    /\ tileMenu' = TRUE
    /\ Chosen(index)
    /\ UNCHANGED <<tileVars, columns, adding_, dialog, toast, dragVars>> /\ Still /\ Begin

\* The menu is dismissed: nothing here listens, the target stays.
DismissMenu ==
    /\ tileMenu
    /\ tileMenu' = FALSE
    /\ NoTarget
    /\ UNCHANGED <<tileVars, columns, actionMenuTargetIndex_, adding_, dialog, toast, dragVars>>
    /\ Still /\ GoOn

\* The menu closes; without a tile at the target the handler throws and no dialog opens.
onEdit_ ==
    /\ tileMenu
    /\ tileMenu' = FALSE
    /\ dialog' = IF actionMenuTargetIndex_ \in DOMAIN tiles_
                 THEN LET url == tiles_[actionMenuTargetIndex_]
                      IN  [open |-> TRUE, url |-> url,
                           exists |-> computeDialogShortcutAlreadyExists_(url, tiles_)]
                 ELSE dialog
    /\ IF dialog'.open THEN UNCHANGED pastVars ELSE NoTarget
    /\ UNCHANGED <<tileVars, columns, actionMenuTargetIndex_, adding_, toast, dragVars>>
    /\ Still /\ GoOn

\* tileRemove_: the request, and a toast with buttons unless the tile is a query tile.
tileRemove_(index) ==
    /\ index \in DOMAIN tiles_
    /\ Ask(TileRequest("delete", tiles_[index], NoUrl, 0))
    /\ \E isQueryTile \in BOOLEAN :
           toast' = [open |-> TRUE, buttons |-> customLinksEnabled_ \/ ~isQueryTile]

\* Remove in the menu: without a tile at the target it throws, and the target stays.
onRemove_ ==
    /\ tileMenu
    /\ tileMenu' = FALSE
    /\ \/ tileRemove_(actionMenuTargetIndex_) /\ actionMenuTargetIndex_' = 0
       \/ /\ actionMenuTargetIndex_ \notin DOMAIN tiles_
          /\ UNCHANGED <<actionMenuTargetIndex_, toast>> /\ Still
    /\ NoTarget
    /\ UNCHANGED <<tileVars, columns, adding_, dialog, dragVars>> /\ GoOn

\* The remove button of a tile, or the key Delete on it.
onTileRemoveButtonClick_(index) ==
    /\ Free /\ index \in tileElements_
    /\ tileRemove_(index)
    /\ Begin
    /\ UNCHANGED <<tileVars, columns, targetVars, dragVars, pastVars>>

onAdd_ ==
    /\ Free /\ computeShowAdd_
    /\ adding_' = TRUE
    /\ dialog' = [NoDialog EXCEPT !.open = TRUE]
    /\ UNCHANGED <<tileVars, columns, actionMenuTargetIndex_, tileMenu, toast, dragVars, pastVars>>
    /\ Still /\ Begin

\* The user types a URL.
Type(url) ==
    /\ dialog.open
    /\ dialog' = [open |-> TRUE, url |-> url,
                  exists |-> computeDialogShortcutAlreadyExists_(url, tiles_)]
    /\ UNCHANGED <<tileVars, columns, actionMenuTargetIndex_, adding_, tileMenu, toast, dragVars,
                   pastVars>> /\ Still /\ GoOn

\* The save button: the URL is one, and no other tile had it when that was last computed.
computeDialogSaveDisabled_ == dialog.url = NoUrl \/ dialog.exists

\* Mutant: adding_ stays when the dialog closes.
onDialogClose__Adding == dialog' = NoDialog /\ adding_' = adding_ /\ NoTarget

\* onDialogClose_ empties the URL and ends adding_, when the dialog closes in whatever way.
onDialogClose_ == dialog' = NoDialog /\ adding_' = FALSE /\ NoTarget

\* The cancel button forgets the target, the key Escape does not.
onDialogCancel_(byButton) ==
    /\ dialog.open
    /\ onDialogClose_
    /\ actionMenuTargetIndex_' = IF byButton THEN 0 ELSE actionMenuTargetIndex_
    /\ UNCHANGED <<tileVars, columns, tileMenu, toast, dragVars>> /\ Still /\ GoOn

\* onSave_ up to its await: an add, an edit that changes something, an edit that changes
\* nothing, or no tile at the target: then it throws.
onSave_ ==
    /\ dialog.open /\ ~computeDialogSaveDisabled_
    /\ onDialogClose_
    /\ \/ /\ adding_
          /\ Ask(TileRequest("add", dialog.url, NoUrl, 0))
          /\ UNCHANGED actionMenuTargetIndex_
       \/ /\ ~adding_ /\ actionMenuTargetIndex_ \in DOMAIN tiles_
          /\ Ask(TileRequest("update", tiles_[actionMenuTargetIndex_], dialog.url, 0))
          /\ UNCHANGED actionMenuTargetIndex_
       \/ /\ ~adding_ /\ actionMenuTargetIndex_ \in DOMAIN tiles_
          /\ tiles_[actionMenuTargetIndex_] = dialog.url
          /\ actionMenuTargetIndex_' = 0
          /\ Still
       \/ /\ ~adding_ /\ actionMenuTargetIndex_ \notin DOMAIN tiles_
          /\ UNCHANGED actionMenuTargetIndex_ /\ Still
    /\ UNCHANGED <<tileVars, columns, tileMenu, toast, dragVars>> /\ GoOn

\* The buttons of the toast, and Ctrl+Z wherever the focus is.
ToastButton(kind) ==
    /\ toast.open /\ toast.buttons
    /\ toast' = [toast EXCEPT !.open = FALSE]
    /\ Ask(TileRequest(kind, NoUrl, NoUrl, 0))
    /\ Begin
    /\ UNCHANGED <<tileVars, columns, targetVars, dragVars, pastVars>>

onUndoClick_            == dragging = "no" /\ ToastButton("undo")
onRestoreDefaultsClick_ == Free /\ ToastButton("restore")

-----------------------------------------------------------------------------
(* Dragging a tile.                                                        *)

\* dragStart_: mark the element, remember how many there are.  onDragStart_ starts it by
\* mouse, onTouchStart_ by touch unless a reordering goes on.
dragStart_(how, index) ==
    /\ Free /\ customLinksEnabled_ /\ index \in tileElements_
    /\ how = "touch" => ~reordering_
    /\ Begin
    /\ dragging' = how /\ dragged' = index
    /\ marked' = marked \cup {index}
    /\ rects' = Cardinality(tileElements_)
    /\ reordering_' = TRUE
    /\ Chosen(index)
    /\ UNCHANGED <<tileVars, columns, targetVars, toast, orphan, pointermove, missed, leftover>>
    /\ Still

\* dragOver_: it only moves elements about, unless none is marked.
dragOver_ ==
    /\ dragging # "no" /\ marked = {}
    /\ reordering_' = FALSE
    /\ UNCHANGED <<tileVars, columns, targetVars, toast, dragging, dragged, marked, rects, orphan,
                   pointermove, missed, leftover, pastVars>> /\ Still /\ GoOn

\* Mutant: the class dragging is left on the element.
Unmarked_Kept(elements, from) == elements

\* The element dropped loses the class dragging.
Unmarked(elements, from) == elements \ {from}

\* dragEnd_ takes the first marked element, whichever was dragged, and puts its tile at the
\* place it is dropped on (0: on none).  It is a function of what it reads, since a dragend
\* may run it more than once.
dragEnd_(state, at) ==
    IF ~customLinksEnabled_ \/ state.marked = {}
    THEN [state EXCEPT !.reordering = FALSE]
    ELSE LET from == Min(state.marked)
             url  == state.tiles[from]
         IN  IF at = 0 \/ at = from
             THEN [state EXCEPT !.marked = Unmarked(@, from)]
             ELSE [state EXCEPT !.marked = Unmarked(@, from),
                                !.tiles  = Moved(@, url, at),
                                !.sent   = Append(@, TileRequest("reorder", url, NoUrl, at))]

DragState == [tiles |-> tiles_, marked |-> marked, reordering |-> reordering_, sent |-> <<>>]

\* What a drag leaves behind.  (tileRects_ stays, unread till the next drag.)
Dropped(state) ==
    /\ tiles_' = state.tiles /\ marked' = state.marked
    /\ leftover' = (leftover \/ ~customLinksEnabled_)
    /\ dragging' = "no" /\ dragged' = 0 /\ rects' = 0
    /\ tileRequests' = tileRequests \o state.sent
    /\ NoTarget
    /\ UNCHANGED <<linkVars, infos, replies, customLinksEnabled_, columns, targetVars, toast>>
    /\ GoOn

\* The place dropped on had an element when the drag started and has none now.
Vanished(at) == at # 0 /\ at \notin tileElements_

\* The dragend listener, and one left over: dragEnd_, then a hover style for the element
\* dropped on.  When that has gone the listener throws before it can listen to pointermove.
dragend(at) ==
    /\ dragging = "mouse" /\ dragged \in DOMAIN tiles_
    /\ at \in 0 .. rects
    /\ LET once  == dragEnd_(DragState, at)
           state == IF orphan THEN dragEnd_(once, at) ELSE once
       IN  Dropped(state) /\ reordering_' = state.reordering
    /\ missed' = (missed \/ Vanished(at))
    /\ pointermove' = (pointermove \/ ~Vanished(at))
    /\ orphan' = FALSE

\* The dragged element has gone: the event does not get to the document, its listener stays.
\* A bound: one listener is left over at a time.
DragendLost ==
    /\ dragging = "mouse" /\ dragged \notin DOMAIN tiles_
    /\ ~orphan
    /\ dragging' = "no" /\ dragged' = 0 /\ rects' = 0
    /\ orphan' = TRUE /\ missed' = TRUE
    /\ NoTarget
    /\ UNCHANGED <<tileVars, columns, targetVars, toast, marked, reordering_, pointermove,
                   leftover>> /\ Still /\ GoOn

\* Mutant: the handler leaves it to dragEnd_ to end the reordering.
touchEnd_Reordering(at) ==
    /\ dragging = "touch"
    /\ at \in 0 .. rects
    /\ LET state == dragEnd_(DragState, at)
       IN  Dropped(state) /\ reordering_' = state.reordering
    /\ missed' = (missed \/ Vanished(at))
    /\ UNCHANGED <<orphan, pointermove>>

\* touchend or touchcancel, which the element hears even when it has gone.
touchEnd(at) ==
    /\ dragging = "touch"
    /\ at \in 0 .. rects
    /\ Dropped(dragEnd_(DragState, at))
    /\ reordering_' = FALSE
    /\ missed' = (missed \/ Vanished(at))
    /\ UNCHANGED <<orphan, pointermove>>

\* The pointer moves: the listener of the last drop ends the reordering.
pointermoved ==
    /\ pointermove /\ dragging # "mouse"
    /\ pointermove' = FALSE /\ reordering_' = FALSE
    /\ UNCHANGED <<tileVars, columns, targetVars, toast, dragging, dragged, marked, rects, orphan,
                   missed, leftover, pastVars>> /\ Still /\ GoOn

-----------------------------------------------------------------------------

TilesNext ==
    \/ BrowserHandles
    \/ BrowserChanges
    \/ setMostVisitedInfo
    \/ visibilitychange
    \/ onSave_answered
    \/ updateScreenWidth_
    \/ ToastHides
    \/ \E index \in Elements : onTileActionButtonClick_(index)
    \/ DismissMenu
    \/ onEdit_
    \/ onRemove_
    \/ \E index \in Elements : onTileRemoveButtonClick_(index)
    \/ onAdd_
    \/ \E url \in Urls : Type(url)
    \/ \E byButton \in BOOLEAN : onDialogCancel_(byButton)
    \/ onSave_
    \/ onUndoClick_
    \/ onRestoreDefaultsClick_
    \/ \E how \in {"mouse", "touch"}, index \in Elements : dragStart_(how, index)
    \/ dragOver_
    \/ \E at \in Elements \cup {0} : dragend(at)
    \/ DragendLost
    \/ \E at \in Elements \cup {0} : touchEnd(at)
    \/ pointermoved

TilesSpec == TilesInit /\ [][TilesNext]_tilesVars

-----------------------------------------------------------------------------
(* Properties.                                                             *)

\* When no request and no push is under way the page shows the browser's shortcuts, in their
\* order, although a drop moves a tile before the browser agrees; except after a drop on a
\* place that had gone, which the browser refuses.
TilesSettle ==
    tileRequests = <<>> /\ infos = <<>> =>
        /\ customLinksEnabled_ = custom
        /\ tiles_ = Shortened(links, custom) \/ missed

\* An add that begins after a menu was dismissed, or a dialog left with Escape: their target is
\* still there, and the search for the URL passes over its tile although an add has none.
StaleTarget == adding_ /\ actionMenuTargetIndex_ # 0

\* What the save button of an open dialog offers, however the tiles change under the dialog: an
\* edit offers no URL that another tile has; an add none that any tile has, but with a stale
\* target it does offer the URL of the tile there.  Nothing is said (reset) once an answer to an
\* earlier edit has taken away the target, since what was computed with it stays.
SaveIsNoDuplicate ==
    dialog.open /\ ~computeDialogSaveDisabled_ /\ ~reset =>
        /\ adding_ /\ ~StaleTarget => dialog.url \notin Range(tiles_)
        /\ ~adding_ \/ StaleTarget =>
               \A i \in DOMAIN tiles_ : tiles_[i] = dialog.url => i = actionMenuTargetIndex_

\* The menu and the edit dialog act on the tile the user opened the menu on: it is the one the
\* index names, but for the two cases in which the code has no hold on it: tiles were pushed
\* (replaced), or an earlier edit was answered in between (reset).
TargetIsChosen ==
    Targeting =>
        \/ replaced \/ reset
        \/ actionMenuTargetIndex_ \in DOMAIN tiles_ /\ tiles_[actionMenuTargetIndex_] = tileChosen

\* The hover style hidden during a drag comes back: the drag, or a pointermove, is still to
\* come, unless a dragend listener threw or was not reached.
ReorderingEnds == reordering_ => dragging # "no" \/ pointermove \/ missed

\* The shortcuts come to be the browser's, menu and dialog act on the one that was chosen, and a
\* drag leaves nothing behind (setMostVisitedInfo, actionMenuTargetIndex_, dragEnd_).
TilesAreSound == TilesSettle /\ SaveIsNoDuplicate /\ TargetIsChosen /\ ReorderingEnds

\* A drop moves the tile of the element the user dragged, not one a former drag has left
\* marked, unless custom links were switched off during a drag (leftover).  It is the tile the
\* drag began on, or, once tiles were pushed during the drag, the one that has come to the place
\* of the element (dragEnd_).
DropMovesTheDragged ==
    [][ \A i \in DOMAIN tileRequests' :
          tileRequests'[i].kind = "reorder" /\ i > Len(tileRequests)
             => \/ /\ dragged \in DOMAIN tiles_ /\ tileRequests'[i].url = tiles_[dragged]
                   /\ tiles_[dragged] = tileChosen \/ replaced
                \/ leftover ]_tilesVars

=============================================================================
