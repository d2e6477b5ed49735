--------------------------- MODULE WalletManager ---------------------------
(***************************************************************************)
(* WalletManager of the desktop browser (wallet_manager.cc) together with    *)
(* the session manager it observes (WalletSession) and the wallet process.   *)
(* The manager asks the wallet for its first address whenever the session is *)
(* ready, polls the balance from then on, sends the calls of the tabs, and   *)
(* has the wallet launched again when a call fails or the user asks for it.   *)
(*                                                                         *)
(* A step of the session and what the observers do in it are one step, as in  *)
(* the code: on_environment_ready runs inside notify_state_observers.        *)
(*                                                                         *)
(* Abstractions.  A token is "current" when it is that of the wallet process  *)
(* that runs or ran last, else "stale", so processes need no numbers.  Tasks  *)
(* of the UI thread are counted: they have priorities and delays, so they run  *)
(* in any order.  A chain of a launch acts on the wallet in one step           *)
(* (WalletLaunch has the steps).  What tabs show and the balance are left out. *)
(***************************************************************************)
EXTENDS Naturals, Sequences, SequencesExt

CONSTANTS
    Addresses,           \* first addresses the wallet may have
    NoAddress,           \* the empty string
    Calls,               \* bound: WalletRequest objects in flight
    Tabs,                \* tabs; each makes one call
    NoTab,               \* a call of the manager itself
    Methods,             \* bound: the methods that tabs call
    MaxFaults,           \* bound: errors, lost replies, crashes, launches that fail, and
                         \*        chains added to one whose old token file stays
    MaxCookieChanges, MaxGuidErrors

ASSUME ManagerAssumption ==
    /\ NoAddress \notin Addresses /\ NoTab \notin Tabs
    /\ MaxFaults \in Nat /\ MaxCookieChanges \in Nat /\ MaxGuidErrors \in Nat

VARIABLES
    auth_state_, init_state_, wallet_state_, guid, is_first_launch_,
    wallet_restarting_, token_base64_, callback, launches, results,
    cookies, read, listener, changes, announced, heard, missed, kept, used,
    manager,             \* is_loaded, environment_error, first_address_, polling_timer_
    status,              \* the status that the wallet button was notified of last
    tasks,               \* tasks of the UI thread, posted or delayed
    ui_requests_,        \* WalletRequest objects in flight
    tabs,                \* the tabs: handlers_ holds those not closed
    answers,             \* how many answers each tab has had
    wallet,              \* the wallet process
    faults,              \* number of faults so far
    outlived             \* history: the first address came from a wallet that had ended

sessionVars == <<auth_state_, init_state_, wallet_state_, guid, is_first_launch_,
                 wallet_restarting_, token_base64_, callback, launches, results,
                 cookies, read, listener, changes, announced, heard, missed, kept, used>>
launchVars == <<wallet_restarting_, token_base64_, launches, results>>
tabVars == <<tabs, answers>>
walletVars == <<wallet, faults>>
vars == <<sessionVars, manager, status, tasks, ui_requests_, tabVars, walletVars, outlived>>

Current == "current"
Stale   == "stale"

Session == INSTANCE WalletSession WITH
    Tokens <- {Current, Stale}, NoToken <- "none", MaxLaunches <- 0, MaxForks <- MaxFaults,
    MaxRestarts <- 0

\* The session does nothing and announces nothing.
SessionIdle ==
    /\ Session!LaunchStep
    /\ UNCHANGED <<launchVars, used>>

TaskKinds == {"initialize_rpc_first_address", "schedule_wallet_stop_and_start",
              "START", "WAIT_AND_START", "STOP_AND_START"}

\* The calls of a tab: an RPC method that nobody looks at, the two that end the wallet
\* (stop stands for encryptwallet too), an RPC_RAW call and a call to a server.
TabMethods == {"rpc", "sethdseed", "stop", "raw", "api"}
ASSUME MethodsAssumption == Methods \subseteq TabMethods

RpcJson == {"getfirstaddress", "getbalance", "rpc", "sethdseed", "stop"}

Replies == {"sent", "ok", "error", "refused", "lost"}

Call == [method : {"getfirstaddress", "getbalance"} \cup TabMethods,
         tab : Tabs \cup {NoTab}, token : {Current, Stale, "none"},
         reply : Replies, address : Addresses \cup {NoAddress}]
NoCall == [method |-> "none"]

TypeOK ==
    /\ Session!TypeOK
    /\ manager \in [is_loaded : BOOLEAN,
                    environment_error : {"DS_OK"} \cup Session!InitErrors \cup Session!LaunchErrors,
                    first_address_ : Addresses \cup {NoAddress}, polling_timer_ : BOOLEAN]
    /\ status \in Session!DataStates
    /\ tasks \in [TaskKinds -> Nat]
    /\ ui_requests_ \in [Calls -> Call \cup {NoCall}]
    /\ tabs \in [Tabs -> {"open", "asked", "closed"}]
    /\ answers \in [Tabs -> Nat]
    /\ wallet \in [up : BOOLEAN, told : BOOLEAN, address : Addresses, seed : Addresses]
    /\ faults \in 0 .. MaxFaults
    /\ outlived \in BOOLEAN

\* The browser starts; a wallet may be running.
Init ==
    /\ Session!Init
    /\ manager = [is_loaded |-> FALSE, environment_error |-> "DS_OK",
                  first_address_ |-> NoAddress, polling_timer_ |-> FALSE]
    /\ status = "DS_NONE"
    /\ tasks = [kind \in TaskKinds |-> 0]
    /\ ui_requests_ = [c \in Calls |-> NoCall]
    /\ tabs = [t \in Tabs |-> "open"]
    /\ answers = [t \in Tabs |-> 0]
    /\ \E up \in BOOLEAN, a \in Addresses :
          wallet = [up |-> up, told |-> FALSE, address |-> a, seed |-> a]
    /\ faults = 0
    /\ outlived = FALSE

-----------------------------------------------------------------------------
(* What the manager does when it is called *)

Post(kind) == tasks' = [tasks EXCEPT ![kind] = @ + 1]

\* notify_status_changed, of manager m with the login as it is.
Status(m, auth) ==
    IF auth = "AUTH_NOT_LOGGED" THEN "DS_AUTH_COOKIE_ERROR"
    ELSE IF ~m.is_loaded THEN "DS_NONE"
    ELSE m.environment_error

\* A state of the whole manager, for what is done more than once in a step.
State == [m |-> manager, status |-> status, tasks |-> tasks]

Becomes(s) == manager' = s.m /\ status' = s.status /\ tasks' = s.tasks

Notified(s, auth) == [s EXCEPT !.status = Status(s.m, auth)]

\* The session has an error: only a missing executable is worth another launch.
Failed(s, state) ==
    [s EXCEPT !.m.environment_error = state,
              !.tasks["schedule_wallet_stop_and_start"] =
                  IF state = "DS_WALLET_FILE_NOT_FOUND" THEN @ + 1 ELSE @]

\* Mutant: the error of the last launch stays.
on_environment_ready_KeepError(s, notice) ==
    IF notice.state = "DS_NONE" THEN [s EXCEPT !.m.is_loaded = FALSE]
    ELSE IF notice.state = "DS_OK" THEN [s EXCEPT !.tasks["initialize_rpc_first_address"] = @ + 1]
    ELSE IF notice.auth = "AUTH_NOT_LOGGED" THEN Notified(s, notice.auth)
    ELSE Notified(Failed(s, notice.state), notice.auth)

\* Mutant: a missing login is an error like the others.
on_environment_ready_NoAuth(s, notice) ==
    IF notice.state = "DS_NONE" THEN [s EXCEPT !.m.is_loaded = FALSE]
    ELSE IF notice.state = "DS_OK"
    THEN [s EXCEPT !.m.environment_error = "DS_OK", !.tasks["initialize_rpc_first_address"] = @ + 1]
    ELSE Notified([s EXCEPT !.m.environment_error = notice.state], notice.auth)

on_environment_ready(s, notice) ==
    IF notice.state = "DS_NONE" THEN [s EXCEPT !.m.is_loaded = FALSE]
    ELSE IF notice.state = "DS_OK"
    THEN [s EXCEPT !.m.environment_error = "DS_OK", !.tasks["initialize_rpc_first_address"] = @ + 1]
    ELSE IF notice.auth = "AUTH_NOT_LOGGED" THEN Notified(s, notice.auth)
    ELSE Notified(Failed(s, notice.state), notice.auth)

\* A step of the session with all that it announces.
Observe(step) ==
    /\ step
    /\ Becomes(FoldLeft(on_environment_ready, State, announced'))
    /\ UNCHANGED <<ui_requests_, tabVars, walletVars, outlived>>

\* Mutant: the button is not notified.
Schedule_Silent(s, mode) == [s EXCEPT !.m.is_loaded = FALSE, !.tasks[mode] = @ + 1]

\* schedule_wallet_stop_and_start and schedule_wallet_wait_and_start.
Schedule(s, mode) ==
    Notified([s EXCEPT !.m.is_loaded = FALSE, !.tasks[mode] = @ + 1], auth_state_)

\* A call leaves the manager.
Send(c, method, tab) ==
    /\ ui_requests_[c] = NoCall
    /\ ui_requests_' = [ui_requests_ EXCEPT ![c] =
          [method |-> method, tab |-> tab, reply |-> "sent", address |-> NoAddress,
           token |-> IF method = "api" THEN "none" ELSE token_base64_]]

\* end_http_call: only a tab that is still open is told.
Answer(t) == answers' = IF tabs[t] = "asked" THEN [answers EXCEPT ![t] = @ + 1] ELSE answers

-----------------------------------------------------------------------------
(* Tasks of the UI thread *)

Quiet == SessionIdle /\ UNCHANGED walletVars

Take(kind) == tasks[kind] > 0
Taken(kind) == [tasks EXCEPT ![kind] = @ - 1]

initialize_rpc_first_address(c) ==
    /\ Take("initialize_rpc_first_address")
    /\ tasks' = Taken("initialize_rpc_first_address")
    /\ Send(c, "getfirstaddress", NoTab)
    /\ Quiet /\ UNCHANGED <<manager, status, tabVars, outlived>>

schedule_wallet_stop_and_start ==
    /\ Take("schedule_wallet_stop_and_start")
    /\ Becomes(Schedule([State EXCEPT !.tasks = Taken("schedule_wallet_stop_and_start")],
                        "STOP_AND_START"))
    /\ Quiet /\ UNCHANGED <<ui_requests_, tabVars, outlived>>

wallet_start(mode) ==
    /\ Take(mode)
    /\ tasks' = Taken(mode)
    /\ Session!wallet_start(mode)
    /\ Session!LaunchStep
    /\ UNCHANGED <<used, manager, status, ui_requests_, tabVars, walletVars, outlived>>

\* The polling timer: the call is made only while the wallet is usable.  Bound: one at a
\* time, though the timer does not wait for the reply.
request_balance(c) ==
    /\ manager.polling_timer_
    /\ manager.is_loaded /\ manager.environment_error = "DS_OK"
    /\ \A d \in Calls : ui_requests_[d] # NoCall => ui_requests_[d].method # "getbalance"
    /\ Send(c, "getbalance", NoTab)
    /\ Quiet /\ UNCHANGED <<manager, status, tasks, tabVars, outlived>>

-----------------------------------------------------------------------------
(* The tabs *)

\* The handler is removed; a call of the tab goes on.
CloseTab(t) ==
    /\ tabs[t] \in {"open", "asked"}
    /\ tabs' = [tabs EXCEPT ![t] = "closed"]
    /\ Quiet /\ UNCHANGED <<manager, status, tasks, ui_requests_, answers, outlived>>

\* Mutant: a call that is refused is sent as well.
request_http_NoReturn(c, t, method) ==
    /\ tabs[t] = "open"
    /\ tabs' = [tabs EXCEPT ![t] = "asked"]
    /\ Send(c, method, t)
    /\ IF method # "api" /\ (~manager.is_loaded \/ manager.environment_error # "DS_OK")
       THEN answers' = [answers EXCEPT ![t] = @ + 1]
       ELSE UNCHANGED answers
    /\ Quiet /\ UNCHANGED <<manager, status, tasks, outlived>>

\* request_http for a tab: while the wallet is not usable an RPC call is answered at once.
request_http(c, t, method) ==
    /\ tabs[t] = "open"
    /\ tabs' = [tabs EXCEPT ![t] = "asked"]
    /\ IF method # "api" /\ (~manager.is_loaded \/ manager.environment_error # "DS_OK")
       THEN answers' = [answers EXCEPT ![t] = @ + 1] /\ UNCHANGED ui_requests_
       ELSE Send(c, method, t) /\ UNCHANGED answers
    /\ Quiet /\ UNCHANGED <<manager, status, tasks, outlived>>

\* service("restartwallet"), which is answered at once.
restartwallet(t) ==
    /\ tabs[t] = "open"
    /\ tabs' = [tabs EXCEPT ![t] = "asked"]
    /\ answers' = [answers EXCEPT ![t] = @ + 1]
    /\ Becomes(Schedule(State, "STOP_AND_START"))
    /\ Quiet /\ UNCHANGED <<ui_requests_, outlived>>

-----------------------------------------------------------------------------
(* Replies *)

\* What a reply makes the manager do with the wallet.  A call that ends the wallet has it
\* waited for and started again, whatever the reply, except sethdseed refused with -4; and
\* a JSON call that found no wallet (netboxrestart) has it stopped and started again.
AfterReply(call) ==
    LET waits == \/ call.method = "stop"
                 \/ call.method = "sethdseed" /\ call.reply # "refused"
        stops == /\ call.method \in RpcJson \ {"stop", "getfirstaddress"}
                 /\ call.reply = "lost"
        first == IF waits THEN Schedule(State, "WAIT_AND_START") ELSE State
    IN  IF stops THEN Schedule(first, "STOP_AND_START") ELSE first

Finish(c) == ui_requests_' = [ui_requests_ EXCEPT ![c] = NoCall]

\* on_http_response for a tab or the polling timer.
on_http_response(c) ==
    /\ ui_requests_[c] # NoCall
    /\ LET call == ui_requests_[c] IN
          /\ call.method # "getfirstaddress" /\ call.reply # "sent"
          /\ Becomes(AfterReply(call))
          /\ IF call.tab = NoTab THEN UNCHANGED answers ELSE Answer(call.tab)
    /\ Finish(c)
    /\ Quiet /\ UNCHANGED <<tabs, outlived>>

\* Mutant: after a failed getfirstaddress nothing is tried again.
end_ping_first_address_rpc_GiveUp(c) ==
    /\ ui_requests_[c] # NoCall
    /\ LET call == ui_requests_[c] IN
          /\ call.method = "getfirstaddress" /\ call.reply # "sent"
          /\ IF call.reply = "ok"
             THEN /\ Becomes(Notified([State EXCEPT !.m =
                            [@ EXCEPT !.is_loaded = TRUE, !.first_address_ = call.address,
                                      !.polling_timer_ = TRUE]], auth_state_))
                  /\ outlived' = (call.token = Stale)
             ELSE UNCHANGED <<manager, status, tasks, outlived>>
    /\ Finish(c)
    /\ Quiet /\ UNCHANGED tabVars

end_ping_first_address_rpc(c) ==
    /\ ui_requests_[c] # NoCall
    /\ LET call == ui_requests_[c] IN
          /\ call.method = "getfirstaddress" /\ call.reply # "sent"
          /\ IF call.reply = "ok"
             THEN /\ Becomes(Notified([State EXCEPT !.m =
                            [@ EXCEPT !.is_loaded = TRUE, !.first_address_ = call.address,
                                      !.polling_timer_ = TRUE]], auth_state_))
                  /\ outlived' = (call.token = Stale)
             ELSE Post("START") /\ UNCHANGED <<manager, status, outlived>>
    /\ Finish(c)
    /\ Quiet /\ UNCHANGED tabVars

-----------------------------------------------------------------------------
(* The wallet process and the servers *)

Faults(n) == faults + n <= MaxFaults /\ faults' = faults + n
Fault == Faults(1)

External == UNCHANGED <<manager, status, tasks, tabVars, outlived>>

Reply(c, reply, address) ==
    ui_requests_' = [ui_requests_ EXCEPT ![c].reply = reply, ![c].address = address]

\* The wallet handles a call.  sethdseed and stop make it end; the seed counts when it
\* is started again.
Serve(c) ==
    /\ ui_requests_[c] # NoCall
    /\ LET call == ui_requests_[c] IN
          /\ call.reply = "sent" /\ call.method # "api" /\ wallet.up
          /\ IF call.token # Current
             THEN Reply(c, "error", NoAddress) /\ UNCHANGED walletVars
             ELSE \/ /\ Reply(c, "ok", IF call.method = "getfirstaddress" THEN wallet.address
                                       ELSE NoAddress)
                     /\ \E seed \in IF call.method = "sethdseed" THEN Addresses ELSE {wallet.seed} :
                          wallet' = [wallet EXCEPT !.seed = seed,
                                         !.told = @ \/ call.method \in {"sethdseed", "stop"}]
                     /\ UNCHANGED faults
                  \/ /\ \E reply \in {"error"} \cup (IF call.method = "sethdseed" THEN {"refused"}
                                                     ELSE {}) : Reply(c, reply, NoAddress)
                     /\ Fault /\ UNCHANGED wallet
    /\ External /\ SessionIdle

\* A server answers, or a call finds no wallet, or its connection fails.
Lose(c) ==
    /\ ui_requests_[c] # NoCall /\ ui_requests_[c].reply = "sent"
    /\ \/ /\ ui_requests_[c].method = "api"
          /\ \E reply \in {"ok", "error"} : Reply(c, reply, NoAddress)
          /\ UNCHANGED faults
       \/ /\ ui_requests_[c].method # "api"
          /\ Reply(c, "lost", NoAddress)
          /\ IF wallet.up THEN Fault ELSE UNCHANGED faults
    /\ External /\ SessionIdle /\ UNCHANGED wallet

\* The wallet ends: told to, or by itself.
Exit ==
    /\ wallet.up
    /\ IF wallet.told THEN UNCHANGED faults ELSE Fault
    /\ wallet' = [wallet EXCEPT !.up = FALSE]
    /\ External /\ SessionIdle /\ UNCHANGED ui_requests_

\* Another wallet process: its token is another one too.
Outdated(token) == IF token = Current THEN Stale ELSE token
OldResults == [i \in DOMAIN results |-> [results[i] EXCEPT !.token = Outdated(@)]]
NewWallet ==
    /\ wallet' = [up |-> TRUE, told |-> FALSE, address |-> wallet.seed, seed |-> wallet.seed]
    /\ token_base64_' = Outdated(token_base64_)
    /\ ui_requests_' = [c \in Calls |->
          IF ui_requests_[c] = NoCall THEN NoCall
          ELSE [ui_requests_[c] EXCEPT !.token = Outdated(@)]]

\* The user starts a wallet that is not running.
UserStarts ==
    /\ ~wallet.up
    /\ NewWallet /\ UNCHANGED faults
    /\ results' = OldResults
    /\ UNCHANGED <<wallet_restarting_, launches>>
    /\ External /\ Session!LaunchStep /\ UNCHANGED used

\* A chain of a launch succeeds.  One that only starts the wallet takes one that is there.
\* The token file may still hold the token of an earlier wallet.
Launch(mode, forks) ==
    /\ Session!ChainEnds(mode, forks)
    /\ LET finds == mode = "START" /\ wallet.up
           earlier == IF finds THEN results ELSE OldResults
       IN  /\ IF finds THEN UNCHANGED <<wallet, token_base64_, ui_requests_>> ELSE NewWallet
           /\ mode = "WAIT_AND_START" => ~wallet.up
           /\ \/ /\ Faults(forks)
                 /\ results' = Append(earlier, [state |-> "DS_OK", token |-> Current])
              \/ /\ Faults(forks + 1)
                 /\ results' = Append(earlier, [state |-> "DS_OK", token |-> Stale])
    /\ External /\ Session!LaunchStep /\ UNCHANGED used

\* A chain fails; one that waits for a wallet that nobody told to end always does.
LaunchFails(mode, forks) ==
    /\ \/ Faults(forks + 1) /\ \E state \in Session!LaunchErrors :
             Session!wallet_launch(mode, forks, [state |-> state, token |-> "none"])
       \/ /\ mode = "WAIT_AND_START" /\ wallet.up /\ ~wallet.told
          /\ Faults(0)
          /\ Session!wallet_launch(mode, forks, [state |-> "DS_WALLET_PROCESS_STOPPED_WITH_ERROR",
                                                 token |-> "none"])
    /\ External /\ Session!LaunchStep
    /\ UNCHANGED <<used, token_base64_, wallet, ui_requests_>>

-----------------------------------------------------------------------------
(* The specification *)

SessionStep ==
    \/ Observe(Session!ChainStep)
    \/ Observe(Session!AddCookieChangeListener)
    \/ Observe(Session!OnCookieChange)
    \/ Observe(Session!on_wallet_start)

TaskStep ==
    \/ \E c \in Calls : initialize_rpc_first_address(c)
    \/ schedule_wallet_stop_and_start
    \/ \E mode \in Session!Modes : wallet_start(mode)

PoolStep == \E mode \in Session!Modes, forks \in 0 .. MaxFaults :
    Launch(mode, forks) \/ LaunchFails(mode, forks)

ReplyStep(c) == on_http_response(c) \/ end_ping_first_address_rpc(c)

Next ==
    \/ SessionStep
    \/ \E login \in BOOLEAN : Observe(Session!ChangeLogin(login))
    \/ TaskStep
    \/ \E c \in Calls : request_balance(c) \/ ReplyStep(c) \/ Serve(c) \/ Lose(c)
    \/ \E t \in Tabs : CloseTab(t) \/ restartwallet(t)
    \/ \E t \in Tabs, method \in Methods, c \in Calls : request_http(c, t, method)
    \/ Exit \/ UserStarts
    \/ PoolStep

Spec == Init /\ [][Next]_vars

\* Chromium runs tasks and timers and delivers replies; the guid server answers; a wallet
\* that was told to end does, and each call is served or lost; a chain of a launch ends.  That a call
\* gets an answer is assumed: wallet_request.cc sets no timeout.
Fairness ==
    /\ WF_vars(SessionStep)
    /\ WF_vars(\E c \in Calls : initialize_rpc_first_address(c))
    /\ WF_vars(schedule_wallet_stop_and_start)
    /\ \A mode \in Session!Modes : WF_vars(wallet_start(mode))
    /\ WF_vars(\E c \in Calls : request_balance(c))
    /\ \A c \in Calls : WF_vars(ReplyStep(c)) /\ WF_vars(Serve(c) \/ Lose(c))
    /\ WF_vars(wallet.told /\ Exit)
    /\ WF_vars(PoolStep)

FairSpec == Spec /\ Fairness

-----------------------------------------------------------------------------
(* Properties *)

\* The wallet button says that all is well only if the manager would send a call: a restart,
\* an error or a logout is always followed by a notification in the same step.
ButtonIsTruthful ==
    status = "DS_OK" => /\ auth_state_ = "AUTH_LOGGED"
                        /\ manager.is_loaded /\ manager.environment_error = "DS_OK"

\* States of the session that only the user can end, with a restart: the startup failed, or
\* a launch with any error but a missing executable.
SessionFailed ==
    \/ init_state_ \in Session!InitErrors
    \/ wallet_state_ \in Session!LaunchErrors \ {"DS_WALLET_FILE_NOT_FOUND"}

UnderWay ==
    \/ wallet_restarting_
    \/ \E kind \in TaskKinds : tasks[kind] > 0
    \/ \E c \in Calls : ui_requests_[c] # NoCall /\ ui_requests_[c].method = "getfirstaddress"

\* The wakeup is never lost: while the user is logged in and the wallet cannot be used,
\* something is under way that will try again, whichever launches were dropped, replies
\* were late, and logins and launches crossed.
NeverIdle ==
    /\ auth_state_ = "AUTH_LOGGED" /\ init_state_ = "DS_OK" /\ ~SessionFailed
    /\ ~manager.is_loaded \/ manager.environment_error # "DS_OK"
    => UnderWay

\* A call of a tab is under way, or the tab was answered once, or it was closed first.
CallInOnePlace ==
    \A t \in Tabs :
        LET out == {c \in Calls : ui_requests_[c] # NoCall /\ ui_requests_[c].tab = t} IN
        /\ answers[t] <= 1
        /\ out # {} => answers[t] = 0 /\ \A c, d \in out : c = d
        /\ tabs[t] = "asked" /\ out = {} => answers[t] = 1

\* What is under way stays under way until it is dealt with: the next attempt to find the wallet
\* (end_ping_first_address_rpc, on_environment_ready) and each call of a tab (request_http).
NothingIsLost == NeverIdle /\ CallInOnePlace

\* The browser finds the wallet again, with its present address, after any number of faults,
\* restarts and new seeds.  It does not when the session has failed, when the address
\* came late from a wallet that had ended, or when the user started another wallet: polls
\* with the old token are errors, and an error is no reason to read the token again.
WalletIsFound ==
    <>[](auth_state_ = "AUTH_LOGGED")
    => []<>(\/ manager.is_loaded /\ manager.first_address_ = wallet.address
            \/ SessionFailed
            \/ outlived
            \/ manager.is_loaded /\ token_base64_ # Current)

=============================================================================
