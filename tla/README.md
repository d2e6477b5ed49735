# Netbox.Browser: a TLA+ model of the wallet inside the browser and of the browser's own pages

Netbox.Browser is Chromium with a cryptocurrency wallet built in.  The repository holds the files of
Chromium that the project adds or changes: `src/desktop/src` (Chromium 92) and `src/mobile/src`
(Chromium 89, Android).  Its own logic is a set of C++ services around an external wallet process:
they start the process, log in, keep the list of transactions, send calls of the wallet's web pages,
and update browser and wallet.  Beside them stand pages of the browser, written in JavaScript: the new
tab page, the news, the password settings, a page that debugs the wallet.  All of it is callbacks: tasks
posted between threads, replies in any order, delayed retries, processes that come and go, and pages
that show what the browser owns while its pushes, its answers and the user's acts cross.  This directory
models that.

Below, `B` is `src/desktop/src/chrome/browser`, `M` is `src/mobile/src/chrome/browser`, `R` is
`B/resources`.

## 1. The system

### Components

| Component | State it keeps | Operations | Talks to |
|---|---|---|---|
| **TransactionService** (`B/transaction_service/transaction_service.cc`) | guard flag, loaded flag, address, RPC token, failed-comparison counter; calls in flight | token or address changes, poll, reply, control sum, requests of tabs | session and wallet managers (observers), wallet process (RPC), database thread |
| **Transaction database** (`transaction_db_helper.cc`, `transaction_helper.cc`, `transaction_model.cc`) | one SQLite file per wallet: transactions, `latest_block` | open, recreate, merge a reply, query, balance | TransactionService |
| **Wallet launch** (`B/netbox/environment/launch/wallet_launch_helper.cc`) | none: a chain of thread-pool tasks | start, wait and start, stop and start, delete the token file, read the token | processes, token file, session manager |
| **Session manager** (`B/netbox/environment/controller/wallet_environment.cc`) | init, auth and wallet state, RPC token, guid, restart flag | cookie and guid chain, launch, notifications | cookie store, wallet server, launch, observers |
| **Wallet manager** (`B/netbox/wallet_manager/wallet_manager.cc`) | tab handlers, first address, session data | tab calls by kind, first-address polling, broadcasts | tabs, session manager, TransactionService |
| **Calls** (`B/netbox/call/*`) | one URL loader per call | build a request, parse a reply, map its errors | wallet process, servers |
| **New tab page** (`R/new_tab_page/app.js`) | theme, selection, dialog, background, what its frames were told | theme pushed, customize, clicks, messages of frames, promo commands | browser, frame of Netbox, bar on top, background |
| **Most visited** (`R/new_tab_page/most_visited.js`) | tiles, target of menu and dialog, toast, drag | push, menu, add, edit, remove, undo, drag and drop | browser, which owns the list |
| **Password check** (`R/settings/autofill_page/password_check.js`) | lists, status, active password, stack of anchors | start, stop, menu, show, edit, remove | browser |
| **Passwords section** (`R/settings/autofill_page/passwords_section.js`) | exceptions, account, opt-in, menu, export dialog | remove, undo, opt in and out, export | browser |
| **News page** (`R/news/js/news.js`, `B/ui/webui/news`) | language, slides, slider | choose a language, show news and images, slide | cookie manager, loaders |
| **Wallet debug page** (`R/netbox/debug/debug.js`) | iteration, timeouts | a chain of calls, poll, check answers | wallet manager |
| **Logo, information page** (`R/new_tab_page/logo.js`, `R/netboxinfo`) | none that matters | display | |
| **Browser update** (`B/browser_update/*`, `browser_process_impl.cc`) | update object, stage, timer | query, download, verify, execute, notify | update server, installer |
| **Wallet pages** (`B/ui/webui/wallet`, `dapstore`, `B/ui/views/toolbar/netbox_wallet_button.cc`) | page handler, button badge | forward calls and answers | wallet manager |
| **Wallet install** (`src/desktop/src/chrome/installer/setup/wallet_*`) | files on disk | stop wallet, replace, roll back | wallet process |
| **Mobile transaction service** (`M/transaction_service`) | address, open file, calls in flight; one SQLite file per wallet: transactions, block hash | open, import page by page, check the balance, recreate, remove, query | explorer, mobile wallet manager, database thread |
| **Mobile wallet manager** (`M/wallet_manager`) and its page (`M/resources/mobile_wallet/js/app.js`) | network, wallet of each network (on the Java side), tab handlers; last block hash of the page | set, reset, toggle, desync, poll of the balance, forward calls | transaction service, session manager, Java side, explorer |
| **Mobile session manager** (`M/netbox`) | session, features, profile | reload, retry with growing delay | servers |
| Rest of Chromium, resources, packaging | | | not part of the model |

The parts meet in four places.  `browser_process_impl.cc:1049-1062` wires the observers: the session
manager tells TransactionService and the wallet manager of every state change together with the RPC
token, and the wallet manager tells TransactionService of a new first address.  A tab's call goes from
the page to the wallet manager and, when it asks for transactions, on to TransactionService, which
answers through `WalletManager::end_http_call`.  The session manager asks for a launch; its result
comes back as a task of the UI thread.  All of them call the wallet process over RPC with a token it
renews at every start.

### What is hard, and what makes each part correct

* *TransactionService* works on two threads.  One flag, `db_in_rpc_call_`, is set on the database
  thread, carried through a call of the UI thread and the network, and cleared three hops later.  A
  tab's request may ride on that poll.  Correct: one call in flight, no request lost or answered twice,
  polling neither dies nor multiplies, a late reply never ends up in another wallet's database,
  `latest_block` never passes a transaction that was not stored.
* *The merge* sees only what changed since `latest_block`, while the chain reorganises, transactions
  vanish, and an entry's sender may be unnamed first and named later.  Correct: after each merge the
  rows that count are those of the wallet, and rows that are not looked at again are right for good.
* *Launch* races with processes it does not control, for a file it does not lock.  Correct: one launch
  at a time, every launch ends, the token belongs to the process that runs.
* *Session manager*: startup chain, launch and login end in any order, cookie changes are on their way
  while the chain runs, the guid is two cookies.  Correct: observers are told that all is well exactly
  when it is, the login is that of the cookie, a browser keeps its guid.
* *Wallet manager*: the wallet fails, ends or is replaced while calls and launches are under way; tabs
  close first.  Correct: something always tries again, the button does not lie, each call is answered
  once, and never to a tab that is gone.
* *Mobile transactions*: the page, not the service, decides when to import, from a block hash that the
  database keeps; imports go page by page over a chain that reorganises, while the wallet is changed or
  the database is recreated.  Correct: a wallet's file has its own transactions, an import skips
  nothing, the stored hash means that all is there, and what goes wrong all the same is repaired.
* *New tab page*: theme and documents arrive in any order, a selection stands in for a theme until the
  browser has pushed it or 100 ms are over, the dialog opens again before that.  Correct: every frame
  shows the present theme, what is behind the page is what is selected or else the theme's, a selection
  does not outlive its dialog.
* *Most visited*: the browser replaces the list while a menu, dialog or drag is about one entry, known
  by its index or by a class on its element.  Correct: they act on the entry that was chosen, a drop
  moves what was dragged, and the page ends with the browser's list.
* *Password pages*: answers that the user is asked for come late, one stack of anchors serves menus and
  dialogs, status comes by event and by answer, an exception has copies in two stores.  Correct: a
  dialog is about the row its menu was opened on, the stack is never popped empty, what is shown is
  current, copies are removed and restored together.
* *News*: the choice of a language crosses the answer about the saved one, loaders answer in any order,
  timers and clicks share a slider.  Correct: one language, no slide forever.
* *Debug page*: each handler sends the next call, four of them restart the wallet.  Correct: one chain,
  and it ends.
* *Update*: a timer that replaces a running update, a reply that comes for the old one.

PROJECT.json lists the hazards line by line.

## 2. The modules

| Module | Models | Checked by | Proved in |
|---|---|---|---|
| `TransactionService` | `transaction_service.cc`, opening and recreating the database | `transaction_service`, `transaction_reseed` | `TransactionServiceProofs` |
| `TransactionMerge` | the merge of one reply: `parse_transactions_json`, the database helper, `db_rpc_response` | `desktop` | `DesktopProofs` |
| `WalletLaunch` | `wallet_launch_helper.cc`; `wallet_start`, `on_wallet_start` | `desktop` | `DesktopProofs` |
| `WalletSession` | `wallet_environment.cc` | `start` | `WalletSessionProofs` |
| `WalletManager` | `wallet_manager.cc` over `WalletSession`, the wallet process, the tabs | `wallet_manager`, `wallet_found` | `WalletManagerProofs` |
| `MobileTransactions` | the mobile `transaction_service.cc` and database helper, the wallet part of the mobile `wallet_manager.cc`, the polling of the page | `mobile_import`, `mobile_wallet`, `mobile_repair` | `MobileTransactionsProofs` |
| `NewTabPage` | `new_tab_page/app.js` and `app.html` | `start` | `StartProofs` |
| `MostVisited` | `new_tab_page/most_visited.js` | `lists` | `ListsProofs` |
| `PasswordCheck` | `password_check.js` | `lists` (through `PasswordsSection`), `active_password` | `ListsProofs` |
| `PasswordsSection` | `passwords_section.js`, and the account of both password pages; extends `PasswordCheck` | `lists` | `ListsProofs` |
| `News` | `news.js` and `news.cc` | `tabs` | `TabsProofs` |
| `DebugPage` | `debug.js` and the part of `wallet_manager.cc` it talks to | `tabs` | `TabsProofs` |

Four modules put two parts side by side that do not act on each other, so that one run checks both:
`MC_Desktop` (TransactionMerge, WalletLaunch), `MC_Start` (WalletSession, NewTabPage), `MC_Tabs` (News,
DebugPage), `MC_Lists` (the password pages, MostVisited).  A variable, `part`, `tab` or `list`, says at
the start which of them a behaviour is about; the other stays in one of its initial states.  The parts
share no variable, so an interleaving of both would show nothing that the two alone do not.  The module
states the conjunction of properties of both parts.  `tab` in `MC_Tabs` has two values for the news page:
a behaviour of it has several stories or several choices of a language, not both.  `MC_Desktop` and
`MC_Start` leave out launch errors that nothing there tells from others (`FewErrors`); the modules
themselves, and the proofs, have all of them.  The four modules extend their
parts, and what is common to all specifications carries in the second the name of its part (`LaunchInit`,
`PageNext`, `DebugFairSpec`, `TilesTypeOK`).

### TransactionService

`uiQueue` and `dbQueue` are the FIFO task queues of the two threads; `ui_requests_` maps the
`WalletRequest` objects in flight to their signatures; `timers` counts delayed tasks.  The `db_*`
variables are the fields of the same name.  `dbOpen` is the file the database handle has open and
`files` the files on disk.  Each `ui_*` and `db_*` method that runs as a task is an action of that
name; a method called inside another (`db_start`, `db_get_transactions`, `db_check_synced`,
`check_database`) is an operator its callers use, so an action is always one whole task.  Actions
that belong to nobody in the class are the wallet process (`NewBlock`, `Reseed`) and the end of the
browser (`Restart`: only the files remain, whether it exits or crashes).

The wallet process answers a call at one time (`Serve`, kept in `served`) and its reply reaches the
browser later (`ui_rpc_response` and the other replies), so one given before a change of token or seed
may arrive after it.  An answer may fail; a call with a token that is not the wallet's fails.  `owners`
is history: the wallet each token belonged to.  Opening a database may fail; so may the deletion before
a recreation, after which the old file, with its rows and its `latest_block`, is opened again
(`check_database`).  A merge here stores all it writes; statements that fail are in `TransactionMerge`.
What a merge does to `latest_block` is left open among the blocks merged, so what is shown holds for any
order of the entries; `TransactionMerge` fixes it.  A balance of a database is its number of rows.

### TransactionMerge

One wallet, one database.  The actions of the wallet (`Receive`, `Drop`, `Mine`, `Reorganize`) are
external: they are what a wallet that speaks this protocol may do, with one assumption the code
depends on, that fewer than `ENOUGH_CONFIRMATION_COUNT` blocks are ever undone.  `db_rpc_response`
is the poll and its merge in one step; TransactionService's `OneCallInFlight` is what allows that.
An entry without a sender is the entry with key `<<t, FALSE>>`.  Each statement of a merge may fail, also
the one that stores `latest_block`: the code looks at none of the results, so any set `failed` of the rows
to be written keeps what it had.  `spoiled` is history: the transactions about which a statement failed,
until the next merge, or for good once `latest_block` has gone past them.  The reply of the wallet reports
`walletconflicts` for a transaction that lost to one in the chain and for no other; a wallet that also
reports it for the winner would have its row not count.

### WalletLaunch

`tasks` is a bag of the tasks in the thread pool: they may run in any order, and two may be equal.
Each function of `wallet_launch_helper.cc` that is posted is an action of that name.
`wallet_launch_raw` looks for a process and then starts one, so its second half is `LaunchProcess`:
a process may appear in between.  A process that cannot be opened (`!process.IsValid()`) is passed over,
so a launch may go on to the token file, or to the start, with such a process still there.  Processes are
numbered as they start, and a token is its writer's
number.  `after` and `forked` are history.  What the machine decides (a path, an executable, a start,
a deletion of the token file) is open at every step.

### WalletSession

The startup is one chain of callbacks, so `callback` names the one that is awaited; each callback of
`wallet_environment.cc` is an action, and a function called inside another (`io_get_auth_cookie`,
`change_init_state`) is an operator.  `cookies` is the cookie store, `read` the answer of
`GetCookieList` on its way, `listener` how far the subscription is, `changes` the notices on their way
to `OnCookieChange`.  `launches` are the chains of tasks of a launch on the thread pool, by mode, and
`results` what they post to the UI thread; `WalletLaunch` has the steps in between.  A launch whose old
token file stayed is several chains from `delete_old_token` on (`wallet_launch_helper.cc:216-232`): when
the first has ended, up to `MaxForks` others are left (`ChainEnds`), each with a result of its own, so
`on_wallet_start` may come more often than `wallet_start`, and while a later launch is under way.
`notify_state_observers` is `Notices`: what a step says to the observers, in order, is kept in
`announced`, the last of it in `heard`.  The cookies survive `Restart`; that the store has written them
by then is assumed.  How long the delays are, and that they double, is left out.

### WalletManager

`WalletSession` is instantiated: its variables are variables of this module too, and a step of the
session is one step with what the manager does about it (`Observe`), because the observers are called
inside `notify_state_observers`.  `tasks` counts the tasks that the manager has posted to the UI thread,
`ui_requests_` holds the calls in flight with the reply once it is given.  The wallet process is
`wallet`: whether it runs, whether it was told to end, its first address, and the seed it will have
after its next start.  A token is `current` or `stale`; a new wallet process makes every older token
stale.  `Launch` and `LaunchFails` are a chain of a launch, with the outcomes that `WalletLaunch` has,
among them a token that is not the running wallet's; each chain a launch forks is one of the bounded
faults (`Faults`).  The methods of tabs are five classes:
a call nobody looks at, `sethdseed`, `stop` (and `encryptwallet`), an RPC_RAW call, a call to a server.

### MobileTransactions

`uiQueue` and `dbQueue` are the task queues of the two threads, `ui_requests_` the calls to the explorer
with what came back.  As in TransactionService each `db_*` method is one action; a `ui_*` method that
only posts is part of its caller.  `db_remove_database` is two actions, `db_remove_database` and
`on_remove_database`: it calls the wallet manager on the database thread, and `reloading` holds the
address that `reload_wallet` has read there while steps of the UI thread may come between.  `java` is
the first address of each network in the shared preferences (`NetboxWalletHelper.java`), which is
assumed to be written when the browser ends (`Restart`).  `page` has the fields of the same names in
`app.js` (minified: line 12); a page loaded again has a new handler, and a reply for another one is
dropped.  What the page reads of the explorer in `process_balance` is that of the moment; that it is
old when it is used is in the time the posted task waits.

The explorer is external: `NewBlock`, `Reorganize` (the blocks undone are fewer than `CONFIRMATIONS`,
which is what `get_last_confirmed_txid` builds on), `Serve`.  `gaps` is history: for each file, whether
transactions of it have moved since the last import (`moved`, which the next import sees to), moved or
were taken away in a way an import does not see, or could not be stored because the database did not
open (`disturbed`), or an import failed (`failed`).
`raced` records that the UI thread reloaded the wallet while the database thread did.
`is_resync_allowed`, which asks the clock, is open; the check may fail to recreate, but not for ever.
Both networks share a chain, so that `local_toggle` hands the height of one network to an import of
the other is not shown; nor are the fields of `reload_wallet` torn any finer than its two halves.

### NewTabPage

`theme` and `commits` are the browser's side: its theme and the selections the dialog has committed.
`pushes` are the calls of `setTheme` under way, `theme_` and `backgroundSelection_` the fields.  Setting
a Polymer property runs every observer before the assignment returns, so a handler and the observers it
sets off are one action (`onThemeChange_`, `updateBackgroundImagePath_` and `onShowBackgroundImageChange_`
are operators of the actions that change what they observe).  `frame` is the document of Netbox in the
page, with the messages posted to it in `toFrame`, `bar` the bar on top with `toBar`.  `timers` are the
100 ms timers of `updateBackgroundImagePath_` that reset the selection.  A document that is loaded again
forgets what it was told (`FrameReloads`).  The dialog, the bar, the document in the frame and the
browser are external: `app.js` shows only their messages and the binding of the selection.

### MostVisited

`links` and `custom` are the browser's; `infos` and `replies` its pushes and answers, two pipes that
overtake each other.  Indices count from 1, and 0 stands for -1.  The list view keeps one element for
each index, so a class put on an element (`marked`) stays with the index when the tiles change; that is
what a drop goes by.  `dragged` is the element the user holds, `tileChosen` the tile that it, or the
menu, was opened on, and `replaced` whether tiles were pushed since.  `orphan` is a `dragend` listener
whose element went away during the drag: the event reaches it with the next drag, where `dragEnd_` runs
twice.  That there is one at a time is a bound: a third run of `dragEnd_` does nothing unless three
elements are marked.  `onSave_` awaits the browser, so its second half, `onSave_answered`, is an action.
The menu and the dialog are modal.

### PasswordCheck and PasswordsSection

`toBrowser` is FIFO, as the calls of one page are.  The answers to them and the events come back two
ways: `toPage` holds both in the order they were sent, each way keeps its order, and an event may be
read before an earlier answer or an answer before an earlier event (`PageReads`).  `overtaken` is
history: what the page was told last by a message older than one it had read.  `edits` are the requests
for a password, answered (`EditAnswered`, `EditRefused`) when the user has proved to be the user, which
is any time later.  Each element of `activeDialogAnchorStack_` is the row of its element.  The `assert`
on a popped anchor, or on the state the button is clicked in, sets `trapped` when it fails.  The section
shows one row for the copies of an exception: `exceptions` is a set of pairs of site and store, `undos`
what the browser can bring back.  `requests` is FIFO, and `events` are read two ways like `toPage`
(`answer` says which; `outdated` is the history); the first questions of the page about opt-in and
account are answers.  The two pages both compute whether the user is signed in from `account_`, each in
its way.  Events, dialogs and what keeps the lists (`PasswordCheckBehavior`, the handlers of the
browser) are external.

### News

Time is counted in ticks: `since` is `Date.now() - last_slide_`, and each of `timers` is the number of
ticks left.  `calls` to the cookie manager are answered in order, or, without a manager or a cookie, not at all
(`NoAnswer`: the page is told nothing and no news are asked for); a cookie may also not be set and the page
be told that it was, since `on_set_lang_cookie` looks at no status.  `outcome` is history, what became of
the last call.  `fetches` of the loaders are answered in any order
or never well (`LoadFails`).  A story is its place in the list, and its image the language of the news
it was fetched for.  `on_image_slider` is two actions, for the slide that is too young and for the one
that is due.

### DebugPage

`CallAfter` and `PollAfter` are the table that the handlers of `debug.js` spell out; the sets
`Delaying`, `CheckingErrors` and `CheckingResult` say which of them wait, call `check_error` and look at
the result.  `toBrowser`, `atWallet` and `toPage` are the places of a call, `delayed` the timeouts.  The
manager is `is_loaded`, `environment_error` and `launch`; another tab may have it restart the wallet or
cause the broadcast that has the name of an answer (`OtherTab`).

## 3. The runs

`MC_TransactionService.tla`, `MC_WalletManager.tla` and `MC_MobileTransactions.tla` add the symmetry
sets; `MC_WalletManager.tla` also has the initial states of `wallet_found`.

| Run | Question | Bounds, and why they suffice |
|---|---|---|
| `transaction_service` | one wallet over a browser restart: guard flag, requests, polling, `latest_block`, answers and loading | 1 address, 1 tab request, 2 calls in flight, 2 blocks, 2 notifications, threshold 1, 1 restart.  Two calls is what the guard flag must keep apart; two blocks is what can be skipped; two notifications start two polling chains; threshold 1 recreates the database after two mismatches, the first with a chance to recover |
| `transaction_reseed` | the wallet process comes back with another seed | 2 addresses and 2 reseeds, so that an address can change there and back while a reply of the first is under way; threshold 0, 1 notification, 1 block |
| `desktop` | what a merge leaves in the tables; launches, with processes that hang, end or are started by the user | merge: 2 transactions, one of them of amount 0, 4 blocks, 3 confirmations, so a transaction can settle, a branch of 2 blocks can replace the last ones, and both can meet in one reply; 1 spoiled transaction at a time, so that one is left to show the failure does not spread.  Without failing statements it was also run with 6 blocks.  Launch: 2 requests, 3 processes, each loop retried once (`TRIES` 0 compares with `>`), so every loop runs, repeats and gives up |
| `start` | startup, launch and login in any order; the new tab page with documents that load late or again | session: 2 login changes (a cookie can be replaced, or set and removed), 1 failed guid request, 1 further launch, 1 chain more of a launch that forks, 2 restarts: one between the guid cookies, one after the browser was ready.  Page: a light and a dark theme, 2 images, a known and an unknown command, 3 acts: opening, choosing and opening again before the timer is what the reset of the selection must survive |
| `wallet_manager` | button, next attempt, calls of a tab | 1 tab, 2 calls in flight, 1 login change, 1 address (no property here tells two apart), 1 fault (error, lost reply, crash, failed or forked launch); one fault at any place is what the next attempt must survive |
| `wallet_found` | does the browser find the wallet again? | as above with 2 addresses, a user logged in from the start, and `sethdseed` as the tab's call, which changes the address and ends the wallet.  No symmetry, since it is a liveness property |
| `mobile_import` | resume point and block hash over reorganisations, failures, recreations and a restart | 1 wallet, 2 transactions, pages of 1, so an import has three; 3 blocks, 2 confirmations, 1 branch of 2 blocks at most; 1 failed reply, 1 restart; a check at every poll |
| `mobile_wallet` | whose transactions, whose wallet | 2 wallets of one network and 1 of the other, 2 changes (there and back), 1 failed reply or file operation |
| `mobile_repair` | is the page right in the end? | 1 wallet, 2 transactions, 2 blocks, 1 branch, 1 failed reply, 1 restart; a check at every second poll, so that a poll without one is there |
| `tabs` | do language, news, images and slider agree; is the debug page's chain one, and does it end? | news: 2 languages, one from right to left, 2 choices with 1 story (so that three answers can cross) or 2 stories with 1 choice, an interval of 3 ticks and timers up to 1 tick late, so that the time passed and the time left differ; a saved cookie or none.  Debug: 2 iterations, so that one follows another, 1 failed launch, 2 disturbances |
| `lists` | menu, dialog, toast and drag while the list changes; exceptions and their copies | passwords: 2, one weak, 1 change, 3 acts (a menu, the late answer of an edit, another menu), 1 site with copies in 2 stores; `SomethingAtRest`: at the start there are exceptions or an account, not both, since what is done about one does not look at the other.  Tiles: 2 URLs, 2 custom tiles but 1 most visited, 1 or 2 columns, 2 changes of the browser and 2 acts.  Answers and events of the password pages come two ways (6,892,938 states for all pages) |
| `active_password` | is the active password the one the menu is about? (violated) | as the passwords of `lists` |

Several properties are bundles of named parts, each explained where it is defined:
`TypesOK` (the types of both parts), `NothingIsLost` (in TransactionService `RequestInOnePlace` and
`NothingSkipped`, in WalletManager `NeverIdle` and `CallInOnePlace`), `WaitingEnds` (requests answered,
loading ends), `SettledRows` (`SettledIsFinal`, `NothingSkipped` of the merge), `LaunchIsSound`
(`OneLaunch`, `FreshToken`), `ImportIsSound` (`ResumePointSound`, `HashMeansImported`), `FramesFollow`,
`BackgroundIsRight`, `ChainIsSound`, `LanguageIsSound`, `PagesMoveOn`, `DialogsAreSound`,
`StatusIsCurrent`, `TilesAreSound`.

**Fairness.**  `TransactionService!FairSpec`: each thread runs its tasks, delayed tasks fire (Chromium's
schedulers), and a call gets a reply.  The last is an assumption on the wallet process:
`wallet_request.cc` sets no timeout, so a process that keeps a connection open and silent stops polling
for good.  `LaunchFairSpec`: the pool and the UI thread run what is posted; nothing is assumed of the
wallet process.  `WalletSession!FairSpec`: posted tasks and cookie calls, and the guid server answers;
each chain of a launch ends, which `LaunchEnds` of WalletLaunch shows.  `WalletManager!FairSpec`: the
same, each call is served or lost, and a wallet that was told to end does.  The polling timer fires;
nothing is assumed of the user, who need not log in, close a tab or start a wallet.
`MobileTransactions!FairSpec`: both threads run their tasks, an open page polls, the explorer answers or
fails, and of checks that find a difference one recreates in the end (`SF_vars(Recreate)`:
`is_resync_allowed` wants 30 minutes without a new transaction).  `EventuallyRight` also assumes that
from some time on polls are so far apart that an import ends between two of them (`PatientPoll`): the
page polls on a timer and does not wait for its import.  `MC_Desktop`, `MC_Start` and `MC_Tabs` repeat
the fairness of the part a behaviour is about and demand nothing of the other.  `PageFairSpec`: messages
and timers arrive, documents load and the browser applies what was committed, one of them after the
other; no act of the user is owed.  `News!FairSpec`: time passes, the timer runs, the cookie manager and
the loaders answer or fail.  `DebugFairSpec`: events, timeouts and messages are handled, the wallet
answers, and launches end.  `CHECK_DEADLOCK FALSE` everywhere: the bounds on notifications, blocks,
requests and acts run out.

### Findings

* `active_password`: `password_check.js:112` and `:174` call `activePassword_` and `activeListItem_` the
  password and the item "that the user is interacting with now".  `onEditPasswordClick_` (line 372)
  closes the menu and asks for the password, for which the system may ask the user to log in; when the
  answer comes, it assigns `activePassword_` though the menu of another row may be open by then.  What
  that menu then shows, edits or removes is the password of the first row.  When the answer is a refusal,
  `activePassword_` becomes null, so that "edit" in the other menu fails its assertion and "show" throws,
  and an anchor is popped that belongs to the other menu.  There is an anchor left for every dialog all
  the same (`DialogsAreSound` is proved, with `disturbed` for these cases).

Seen while modelling, not runs of their own.  Of the transactions: `transaction_service.cc:251` says
"rpc_data new ... old, so iterate in reverse order", but `rpc_data` is a `std::map` by key (txid,
address, ...), so `latest_block` becomes the block of the settled entry with the lowest key.  No
transaction is lost by it (`SettledRows`, `NothingIsLost`), but polls list settled transactions again
and again.  Of the launch: `wallet_launch_helper.cc:25-26` announces up to 5 seconds in which the old
token file may be deleted; `delete_old_token` posts the delayed retry and then, with no return,
`wallet_launch_raw` as well, so the launch goes on at once next to the file it meant to wait for and
becomes two chains of tasks, the second of which may delete the token of the process just started.
Also: the retry loops compare with `>`, so each makes one try
more than its comment counts; `STOP_AND_START` with no process found, and `START`, never delete the
token file, so the token of a dead process may be delivered; a reply dropped as stale schedules no
poll (`transaction_service.cc:227-237`); the comparison there is of addresses only, so a call made between
the news of another wallet's token and the news of its address is merged into the old wallet's file, also
when it comes back after the address has changed there and back (`ForeignRowsOnlyByReseed` says that
nothing else is); the results of `insert_or_update`, `update` and `set_conflicted` are ignored
(`:279`, `:290`), so a row that could not be written when its block settles is listed by no later poll
(`spoiled`); a timer that fires while a tab's call is under way ends its
chain of polls (`PollingEndsOnlyKnowingly` names every such case); a recreation while a call is under
way leaves a gap in the new file until the next recreation (the exemption in `NothingSkipped`); a
failed reply counts as loaded (`transaction_service.cc:310`).  A launch that has forked posts one result for
each of its chains; the first clears `wallet_restarting_`, so a further launch may start beside the others.

Of the session manager: `notify_state_observers` has no return after it has said `DS_NONE` for an
unknown login; it says nothing wrong only because the startup ends after the login is known, which is
part of the invariant proved.  A login or logout between the read of the login cookie and the
subscription is missed (`missed`), and with no cookie manager there is no listener at all.

Of the wallet manager: any launch error but a missing executable, and any error of the startup, stays
until the user restarts the wallet (`SessionFailed`).  `sethdseed` that fails with an error other than
-4 has the browser wait for a wallet that does not end, and reports
`DS_WALLET_PROCESS_STOPPED_WITH_ERROR`.  When the user starts another wallet, polls with the old token
fail for good: their error is no reason to read the token again.  A first-address reply that comes
after its wallet ended is taken for an address of the present one (`outlived`).  While the wallet is
not loaded the button shows that it is loading, also when a launch has failed.

Of the pages: `check_error` reads a name `data` that is not declared (`debug.js:28`), so on any error
of a checked call the handler throws and the page says nothing (`threw`).  `dragEnd_` returns before it
takes the mark off the dragged tile when custom links were switched off during the drag
(`most_visited.js:451`); switched on again, the next drop finds two marks and moves the first
(`leftover`).  When tiles are pushed during a drag, the mark stays with the element, and the drop moves
the tile that has come to its place (`replaced`; `DropMovesTheDragged` says that it is that one or the
tile the drag began on).  A menu that was dismissed leaves its target behind, and `onAdd_` does not
reset it: the dialog to add then passes over that tile when it looks for the URL
(`most_visited.js:417`), and save is offered for a URL that is there (`StaleTarget`; the browser is left
to refuse it).  An edit that is answered late takes away the target of a menu opened meanwhile (`:767`,
`reset`).  A `dragend` listener that throws, or whose element is gone, leaves `reordering_` set until
the next drag (`missed`).  A menu of either password page that is dismissed leaves its anchor on the
stack, so "If no dialog is open, the stack is empty" (`password_check.js:167-168`, and the same words in
`passwords_section.js`) is not so; harmless, since only popping an empty stack fails, though the focus
then goes back to another row.  An answer about the status, the opt-in or the start of a check that is
read after a newer event undoes it (`overtaken`, `outdated`).  `onCheckPasswordsClick_` of the section
is bound to rows that `computeShouldShowBanner_`, which returns `false`, hides.  The answer to `getlang`
is taken over a choice made before it came (`crossed`), and sets no direction of text when the cookie
names `ar` (`news.js:31`).  `on_get_news` compares nothing (`news.js:124`): when the news of an older
request come after those of the last, they stay, and the page is for good in one language by its button,
direction and cookie and in another by its stories (`Overtaken`).  Without an answer of the cookie
manager (`news.cc:221-232`) a choice changes the button and nothing else; a cookie that was not set
(`:240`) is announced as set.  An image that comes after the news have changed is put on the slide with
the same number (`late`).

Of the mobile wallet: `db_remove_database` calls `on_remove_database` on the database thread
(`transaction_service.cc:479`), so the `DCHECK_CURRENTLY_ON(content::BrowserThread::UI)` in
`reload_wallet` (`wallet_manager.cc:94`) and in `ui_set_first_address` fails whenever a wallet replaces
another, and a reload on the UI thread at that time may leave the two threads at different wallets
(`raced`).  A page of an import that fails stores the block hash all the same
(`transaction_service.cc:382`), and so does one whose database was recreated, or
could not be opened, on its way; the next import
is answered with `reload: false` until there is a new block, and only the check repairs what is missing.
A reply dropped because the wallet changed, and an import with no wallet, leave the page without an
answer.  Transactions that a branch takes out of the chain stay in the file until a check recreates it.

## 4. The proofs

TLAPS proves what follows for all values of the constants, from the assumptions named `...Assumption` in
the modules.  They say that a bound is a natural number, and a number of confirmations, a size of pages
or an interval at least 1 or 2; that one set is part of another, like the dark colours of the colours,
or the calls of a tab of those that the model knows (`MethodsAssumption`); that a name for "nothing" is
none of the things, like `NoCall` no signature (`NoCallAssumption`); and that there are
finitely many wallets in the mobile model, and finitely many URLs in `MostVisited` (`TilesAssumption`).
An invariant found for a proof was first checked by TLC as an invariant of the run's own configuration.

* `TransactionServiceProofs`.  `TypeCorrect` and `SingleFlight` (`Spec => []OneCallInFlight`):  `TypeOK`
  is inductive with the shape of the two queues, and for the guard flag the invariant counts where a
  `listsinceblock` call can be.  `RequestsKept` and `NothingGetsLost` (`Spec => []NothingIsLost`): a
  tab's request is in one place.  A number of places in queues is awkward to reason with; `ReqInv` says
  instead of each request which of its places holds it, and that nothing else does (`OnePlace`), and
  `ExtInv` that calls carry only requests of their kind.  `PlacesKeep` is the lemma for a step that
  moves a request from one place to the next.  For the rows, `SkipInv` adds to `NothingSkipped` that the
  open file is that of the present address or none (`OpenIsCurrent`), and that whatever is on its way
  for a poll, as task or call, asks or answers from a block that the file has reached (`PollInv`).  A
  recreation that could not delete the old file keeps its rows and its `latest_block`, so both stay
  true.  `ForeignRows`, `PollingEnds` and `PollingStaysSingle` are the three action properties
  (`ForeignRowsOnlyByReseed`, `PollingEndsOnlyKnowingly`, `PollingDoesNotMultiply`).  For the first,
  `OwnerInv` says that each token has an owner, the last one the present wallet, and that the rows a
  call brings are those of the owner of its token.  `ChainInv` says that the chains of polls are finite
  in number, and that the reply whose end schedules another poll never carries a tab's request; a step
  then takes one chain from its place and puts one back, or is among those that the property names.
* `DesktopProofs`.  `MergeTypeCorrect`, `MergeIsExact`, `SettledRowsKept`: for any set of transactions,
  any chain and any number of confirmations.  None is inductive alone.  `Inv` adds that the wallet's
  records are of three kinds and not above the tip (`WalletOK`), that `latest_block` is always
  `ENOUGH_CONFIRMATION_COUNT` deep (`LatestDeep`), and that a settled row has a named sender and its
  transaction lies that deep (`SettledDeep`).  A failed statement leaves its row as it was, so these
  stay true of it; what the properties say of the other transactions is shown row by row.  Then no
  reorganisation touches a settled row (`WalletInv`), and a merge that does not list a transaction finds
  it settled or gone (`MergeStep`).  `LaunchTypeCorrect` and `LaunchStaysSound` (`LaunchSpec =>
  []LaunchIsSound`): for any number of tries, requests and processes.  `OneLaunch` is inductive, since
  what a task posts comes in its own place; it is stated without a cardinality (`OneTask`).  That the
  token delivered is fresh is not: `LaunchInv` says of every task what it counts on (`CountsOn`): the
  processes it found are gone for good, and once it is past `delete_old_token` so is the token they
  left.  `DesktopTypesCorrect` puts both parts together (`MCFairSpec => []TypesOK`).
* `WalletSessionProofs`.  `SessionTypeCorrect`, `ReadyMeansAll`, `LoginFollowsCookie`, `GuidStays`.
  `StartInv` adds to `TypeOK` that the chain runs before the startup is over and before the
  subscription, that a start takes one guid, and that the login is known before the startup is over.
  `LoginInv` says that the changes on their way are linked, each starting where the one before it ended,
  and lead from `auth_state_` to the cookie.  `GuidInv` follows the guid through the two cookies: where
  it may be used, both hold it, and a browser that was ready never asks for another.
* `WalletManagerProofs`.  `ManagerTypeCorrect`, `ButtonTellsTheTruth` (`Spec => []ButtonIsTruthful`) and
  `ManagerLosesNothing` (`Spec => []NothingIsLost`), over the lemmas about the session.  What observers
  are told in one step is a fold over a sequence of notices; no step has more than two, and the lemmas
  unfold the fold for none, one and two.  `WakeInv` is what keeps the manager awake: a launch has no
  result only while it is under way, a missing executable is tried again, and when the session is ready
  the manager knows it and has the first address or something that will get it; before the login is
  known nothing was asked, so that the button cannot say that all is well.  `CallInv` says of each tab
  where its call is, and that a request for the first address is nobody's but the manager's.
* `MobileTransactionsProofs`.  `MobileTypeCorrect`, `BothAtTheWallet` (`Spec => []TheRightWallet`) and
  `EachFileIsOwn` (`Spec => []RowsAreOwn`).  `WalletInv` says where a change of wallet can be: a task
  that removes the database is still ahead, `on_remove_database` has read the present wallet, or the
  tasks that wait leave both threads at it (`AtWallet`), unless they raced.  `HeadRuns` says that the
  task whose `on_remove_database` runs is the head of the queue.  Lemma `Kinds` sorts the steps by what
  they do to the queues and the addresses, so that the invariant is shown once for each sort.  `OwnInv`
  says that every task and call on its way carries only transactions of the wallet it names, and that
  the open file is that of the present wallet.  `ImportsAreSound` (`Spec => []ImportIsSound`): the
  resume point skips nothing, and the stored hash means that all is there.  `ImportInv` says for every
  file without a known disturbance that it is sound up to its resume point (`FileSound`), and of every
  call of its import that it asks behind such a point and that its page, together with what is stored,
  misses nothing before what it lists (`CallSound`); and that nobody knows of blocks still to come
  (`Past`).  TLC found that the exception must also name a database that cannot be opened during an
  import: the page of the import is then stored nowhere and the next one goes on behind it (5,574,272
  and 16,208,104 states).
* `StartProofs`.  `NewTabPageTypeCorrect`, `BackgroundStaysRight` (`PageSpec => []BackgroundIsRight`)
  and `FramesKeepUp` (`PageSpec => []FramesFollow`).  The background is right by induction from the
  types alone.  That a frame which has read its messages is up to date is not inductive: `FrameInv` and
  `BarInv` say of the messages on their way that the last one of its kind carries what the page has now,
  and of a frame without such a message that it shows that already; a `hidelang` that follows a click is
  on its way as long as the menu is open; `AskedInv` follows each question from the call through the
  queue to the bar.  `StartTypesCorrect` is about both parts (`MCFairSpec => []TypesOK`).
* `TabsProofs`.  `NewsTypeCorrect`, `SlideIsShownInTime` (`Spec => []SlideIsNotLate`) and `OneLanguage`
  (`Spec => []LanguageIsSound`).  `SlideInv` bounds what is left to the timer by the age of the slide,
  which is why a retry that waits for the wrong time still comes soon enough.  `CallInv` says that the
  last call in the queue of the cookie manager is about the last choice, and that each answer there
  makes one request for news.  `NewsInv` says that the news under way or shown for the last request are
  those of the language of the page, and `ImagesAreOfTheNews` is inductive with it.  `DebugTypeCorrect`
  and `ChainStaysSound` (`DebugSpec => []ChainIsSound`): the property counts the places of a call, the
  invariant (`ChainInv`) says which it is: sent, with the wallet, waiting for a timeout, told by an
  event, or nowhere when the page has said how it ended; and in each of them that a call past a restart
  finds the wallet loaded (399,706 states).  `TabsTypesCorrect` is about both parts.
* `ListsProofs`.  `DialogsStaySound`, `CopiesGoTogether` and `StatusStaysCurrent` (`Spec =>
  []StatusIsCurrent`).  The first counts anchors (`IInv`): the stack is at least as high as there are
  open menus, open dialogs and passwords asked for.  For the second, `CopiesInv` says of everything that
  carries copies (the rows, each request, each event, each removal that can be undone) what the property
  says of the browser's list.  For the third, `OptInv`, `AutoInv` and `ShownInv` look ahead: as long as
  nothing that matters was overtaken, the last message about the opt-in, or the status, that is on its
  way says what the browser has, and an answer that a check was started, with no change of the passwords
  behind it, is about the passwords of now.  A message may be read from the middle of the sequence, so
  each step looks at what is left without it (`RemovedAt`).  `TilesStaySound` (`TilesSpec =>
  []TilesAreSound`) and `DropsMoveTheDragged`: `TilesInv` needs facts about every part of the page at
  once.  `SettleInv` looks ahead like those above: the last push on its way is the browser's list;
  without one, the page shows the list, has missed its place in it, or has asked for something the
  browser will push an answer to.  Whether a request will be pushed is whether its `Result` differs from
  the list, so the proof rests on lemmas about what each request makes of a list without duplicates
  (`WithoutIs`, `InsertedIs`, `MovedIs`, `ResultIs`), and a drop is shown to ask for the very list the
  page has made of its tiles (`DropDiffers`, `DropSettles`).  `OneThing` says that menu, dialog and drag
  exclude one another, `DialogInv` that what the dialog has computed of its URL is true of the tiles,
  `DragInv` that only the dragged element is marked, and that a `dragend` listener is left behind by a
  drag that was begun.  `ListsTypesCorrect` (`MCSpec => []TypesOK`) is about all pages.  That no more
  passwords are asked for, or changed, than the bounds say needs `BudgetInv`: a menu, a dialog, a
  password asked for and a call that removes one have each cost a click, which is spent once.

Only model-checked: liveness (`WaitingEnds`, `LaunchEnds`, `LoginIsHeard`, `WalletIsFound`,
`EventuallyRight`, `TabSettles`, `PagesMoveOn`; liveness under fairness and ENABLED are out of this
prover's reach, as is induction over data).  Every invariant and every action property of a passing run
is stated by a theorem.

## 5. What is left

In this order:

1. Composition of `WalletManager` with `TransactionService`, whose environment (`ui_set_rpc_token`,
   `ui_set_first_address`, `end_http_call`) it replaces, with the tabs' transaction requests.
2. An abstract specification of a request service (every request is answered once), refined by
   `TransactionService` and by `WalletManager`; `WalletSession`'s launch refined by `WalletLaunch`.
3. `BrowserUpdate` (stages, download, retry).  The timer replaces the update object while a task holds a
   `base::Unretained` pointer to it; what happens then is undefined, so a model would have little to say
   beyond that it can happen.
4. `WalletInstall` (replace the wallet's files, roll back), which runs in a process of its own.
5. The mobile session manager (reload, callbacks with `base::Unretained`, delay of retries) and the rest
   of the mobile wallet manager (calls to servers, notification tokens).
6. What `WalletManager` leaves out: broadcasts to all tabs, a call that cannot be built
   (`wallet_request.cc:47`).
7. Proofs: the refinements of item 2.

## 6. Not modelled

* Of the new tab page: the voice overlay, the loading flags of the promo and of the modules,
  `init_texts_switch`, measuring of performance, rectangles of overlays, colours of logo and
  attribution: each is set once, or computed from one property, and nothing reads it back.
* `logo.js`: `computeShowDoodle_` and `computeShowLogo_` return `false` in this repository, so doodle and
  share dialog are never shown.  `netboxinfo`: puts the fields of one answer on the page.
* Of the passwords pages: the disclaimer's way on to the edit dialog, whose link is not in `src`; the
  saved passwords of the section (`passwords_list_handler`, not in `src`); filter and wording.
* The pages of wallet, dapstore and welcome are bundles: generated, without their sources.
* The SQL of the queries for the pages and what the pages show, URL and HTML building, encryption
  (`crypto`, `os_crypt`), packaging scripts, and the rest of Chromium that the repository carries with
  small edits.  They are data conversion, I/O or third-party code without state of their own that the
  properties could tell apart.
