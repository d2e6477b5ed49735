--------------------------- MODULE WalletSession ---------------------------
(***************************************************************************)
(* WalletSessionManager of the desktop browser (wallet_environment.cc).     *)
(* Three things go on at once after start(): a chain of callbacks that sets  *)
(* the session cookie, finds or requests the guid of the browser and reads   *)
(* the login cookie; the launch of the wallet process; and, once the chain   *)
(* has subscribed, the changes of the login cookie.  Each has a state, and   *)
(* notify_state_observers turns the three into what the observers are told.  *)
(*                                                                         *)
(* Abstractions.  callback is the one callback of the chain that is awaited.  *)
(* A guid is a number; the two guid cookies hold the guid and the guid that  *)
(* the signature belongs to, so they verify when they are equal.  Delays and  *)
(* values of cookies are left out.  A chain of tasks of a launch is one step   *)
(* from the task that is posted to the result (WalletLaunch has the steps);   *)
(* a launch that goes on as several chains has a result of each.             *)
(***************************************************************************)
EXTENDS Naturals, Sequences

CONSTANTS
    Tokens,              \* RPC tokens of wallet processes
    NoToken,             \* no token
    MaxCookieChanges,    \* bound: logins and logouts
    MaxGuidErrors,       \* bound: failed guid requests
    MaxLaunches,         \* bound: calls of wallet_start from outside
    MaxForks,            \* bound: chains that delete_old_token adds to a launch
    MaxRestarts          \* bound: restarts of the browser

ASSUME ConstantsAssumption ==
    /\ NoToken \notin Tokens
    /\ MaxCookieChanges \in Nat /\ MaxGuidErrors \in Nat
    /\ MaxLaunches \in Nat /\ MaxForks \in Nat /\ MaxRestarts \in Nat

VARIABLES
    auth_state_, init_state_, wallet_state_,
    guid,                \* data_.guid
    is_first_launch_,
    wallet_restarting_,
    token_base64_,
    callback,            \* the callback of the startup chain that is awaited
    launches,            \* chains of tasks in the thread pool, by mode
    results,             \* on_wallet_start tasks posted to the UI thread
    cookies,             \* the cookie store
    read,                \* the login cookie as GetCookieList returned it
    listener,            \* cookie_listener_binding_
    changes,             \* cookie changes on their way to OnCookieChange
    announced,           \* what the observers are told in this step, in order
    heard,               \* history: what they were told last
    missed,              \* history: the login cookie changed before the listener was there
    kept,                \* history: the guid of the last browser that was ready
    used                 \* numbers of steps that are bounded

stateVars  == <<auth_state_, init_state_, wallet_state_>>
guidVars   == <<guid, is_first_launch_>>
launchVars == <<wallet_restarting_, token_base64_, launches, results>>
storeVars  == <<cookies, read, listener, changes, missed>>
vars == <<stateVars, guidVars, launchVars, callback, storeVars, announced, heard, kept, used>>

NoGuid == 0
Guids  == 0 .. MaxRestarts + 1     \* each start of the browser is given one at most

AuthStates == {"AUTH_UNDEFINED", "AUTH_NOT_LOGGED", "AUTH_LOGGED"}

InitErrors == {"DS_SESSION_ERROR", "DS_GUID_ERROR"}
LaunchErrors == {"DS_WALLET_DIR_NOT_FOUND", "DS_WALLET_FILE_NOT_FOUND",
                 "DS_WALLET_PROCESS_NOT_FOUND", "DS_WALLET_PROCESS_STARTED_WITH_ERROR",
                 "DS_WALLET_PROCESS_STOPPED_WITH_ERROR", "DS_WALLET_RPC_TOKEN_ERROR"}
DataStates == {"DS_OK", "DS_NONE", "DS_AUTH_COOKIE_ERROR"} \cup InitErrors \cup LaunchErrors

Modes == {"START", "WAIT_AND_START", "STOP_AND_START"}
FirstLaunch == [mode \in Modes |-> IF mode = "START" THEN 1 ELSE 0]

Callbacks == {"on_get_hardware_info", "set_session_cookie", "on_set_session_cookie",
              "process_guid", "on_get_guid_from_cookie", "send_new_guid_request",
              "on_guid_request_response", "on_set_guid_cookie_result",
              "on_set_guid_sign_cookie_result", "on_get_auth_cookies_list", "none"}

Result == [state : LaunchErrors, token : {NoToken}] \cup [state : {"DS_OK"}, token : Tokens]

\* Why a cookie changed, and whether the browser was logged in before.
Change == [cause : {"INSERTED", "OVERWRITE", "EXPLICIT"}, before : BOOLEAN]

TypeOK ==
    /\ auth_state_ \in AuthStates
    /\ init_state_ \in {"DS_NONE", "DS_OK"} \cup InitErrors
    /\ wallet_state_ \in {"DS_NONE", "DS_OK"} \cup LaunchErrors
    /\ guid \in Guids /\ kept \in Guids
    /\ is_first_launch_ \in BOOLEAN
    /\ wallet_restarting_ \in BOOLEAN
    /\ token_base64_ \in Tokens \cup {NoToken}
    /\ callback \in Callbacks
    /\ launches \in [Modes -> Nat]
    /\ results \in Seq(Result)
    /\ cookies \in [login : BOOLEAN, guid : Guids, sign : Guids]
    /\ read \in SUBSET BOOLEAN
    /\ listener \in {"none", "requested", "added"}
    /\ changes \in Seq(Change)
    /\ announced \in Seq([state : DataStates, auth : AuthStates])
    /\ heard \in DataStates
    /\ missed \in BOOLEAN
    /\ used \in [cookie : Nat, error : Nat, launch : Nat, restart : Nat, guid : Nat]

\* StartWalletModules has called start(): the wallet is launched and the hardware read.
Started(jar) ==
    /\ auth_state_ = "AUTH_UNDEFINED"
    /\ init_state_ = "DS_NONE" /\ wallet_state_ = "DS_NONE"
    /\ guid = NoGuid /\ is_first_launch_ = FALSE
    /\ wallet_restarting_ = TRUE /\ token_base64_ = NoToken
    /\ launches = FirstLaunch /\ results = <<>>
    /\ callback = "on_get_hardware_info"
    /\ cookies = jar /\ read = {} /\ listener = "none" /\ changes = <<>> /\ missed = FALSE
    /\ announced = <<>> /\ heard = "DS_NONE"

Init ==
    /\ \E login \in BOOLEAN : Started([login |-> login, guid |-> NoGuid, sign |-> NoGuid])
    /\ kept = NoGuid
    /\ used = [cookie |-> 0, error |-> 0, launch |-> 0, restart |-> 0, guid |-> 0]

-----------------------------------------------------------------------------
(* Telling the observers *)

Fine == {"DS_NONE", "DS_OK"}

\* What notify_state_observers says.  With the login unknown it says DS_NONE first and goes
\* on: no return follows that loop.
Notices(auth, wallet, init) ==
    LET tell(state) == <<[state |-> state, auth |-> auth]>>
    IN  (IF auth = "AUTH_UNDEFINED" THEN tell("DS_NONE") ELSE <<>>)
        \o (IF auth = "AUTH_NOT_LOGGED" THEN tell("DS_AUTH_COOKIE_ERROR")
            ELSE IF wallet \notin Fine THEN tell(wallet)
            ELSE IF init \notin Fine THEN tell(init)
            ELSE IF wallet = "DS_OK" /\ init = "DS_OK" THEN tell("DS_OK")
            ELSE <<>>)

Announce(notices) ==
    /\ announced' = notices
    /\ heard' = IF notices = <<>> THEN heard ELSE notices[Len(notices)].state

Silent == announced' = <<>> /\ UNCHANGED heard

change_auth_state(state) ==
    /\ auth_state_' = state
    /\ Announce(Notices(state, wallet_state_, init_state_))
    /\ UNCHANGED <<init_state_, wallet_state_>>

change_init_state(state) ==
    /\ init_state_' = state
    /\ Announce(Notices(auth_state_, wallet_state_, state))
    /\ UNCHANGED <<auth_state_, wallet_state_>>

change_wallet_state(state) ==
    /\ wallet_state_' = state
    /\ Announce(Notices(auth_state_, state, init_state_))
    /\ UNCHANGED <<auth_state_, init_state_>>

-----------------------------------------------------------------------------
(* The startup chain *)

Callback(name) == callback = name /\ UNCHANGED <<launchVars, kept>>
Awaits(name) == callback' = name /\ Silent /\ UNCHANGED stateVars
Fails(state) == callback' = "none" /\ change_init_state(state)

on_get_hardware_info ==
    /\ Callback("on_get_hardware_info")
    /\ Awaits("set_session_cookie")
    /\ UNCHANGED <<guidVars, storeVars, used>>

\* The session cookie itself is not kept here: nothing in the browser reads it.
set_session_cookie ==
    /\ Callback("set_session_cookie")
    /\ Awaits("on_set_session_cookie") \/ Fails("DS_SESSION_ERROR")
    /\ UNCHANGED <<guidVars, storeVars, used>>

on_set_session_cookie ==
    /\ Callback("on_set_session_cookie")
    /\ Awaits("process_guid") \/ Fails("DS_SESSION_ERROR")
    /\ UNCHANGED <<guidVars, storeVars, used>>

process_guid ==
    /\ Callback("process_guid")
    /\ Awaits("on_get_guid_from_cookie") \/ Fails("DS_GUID_ERROR")
    /\ UNCHANGED <<guidVars, storeVars, used>>

\* Mutant: the failure is one of the startup, not of the login.
io_get_auth_cookie_InitState ==
    \/ Awaits("on_get_auth_cookies_list")
    \/ Fails("DS_AUTH_COOKIE_ERROR")

\* Without a cookie manager the chain ends here, and no listener is ever added.
io_get_auth_cookie ==
    \/ Awaits("on_get_auth_cookies_list")
    \/ callback' = "none" /\ change_auth_state("AUTH_NOT_LOGGED")

read_guid_from_cookies == cookies.guid # NoGuid /\ cookies.guid = cookies.sign

on_get_guid_from_cookie ==
    /\ Callback("on_get_guid_from_cookie")
    /\ IF read_guid_from_cookies
       THEN guid' = cookies.guid /\ io_get_auth_cookie
       ELSE UNCHANGED guid /\ Awaits("send_new_guid_request")
    /\ UNCHANGED <<is_first_launch_, storeVars, used>>

send_new_guid_request ==
    /\ Callback("send_new_guid_request")
    /\ is_first_launch_' = TRUE
    /\ Awaits("on_guid_request_response")
    /\ UNCHANGED <<guid, storeVars, used>>

\* Mutant: a failed request is not repeated.
on_guid_request_response_NoRetry ==
    /\ Callback("on_guid_request_response")
    /\ \/ /\ used.error < MaxGuidErrors
          /\ used' = [used EXCEPT !.error = @ + 1]
          /\ Awaits("none")
          /\ UNCHANGED guid
       \/ Fails("DS_GUID_ERROR") /\ guid' = NoGuid /\ UNCHANGED used
       \/ /\ used' = [used EXCEPT !.guid = @ + 1]
          /\ guid' = used'.guid
          /\ Awaits("on_set_guid_cookie_result") \/ Fails("DS_GUID_ERROR")
    /\ UNCHANGED <<is_first_launch_, storeVars>>

\* The server failed (the request is repeated later), or its answer is unusable, or its
\* guid is taken and the first cookie is set.
on_guid_request_response ==
    /\ Callback("on_guid_request_response")
    /\ \/ /\ used.error < MaxGuidErrors
          /\ used' = [used EXCEPT !.error = @ + 1]
          /\ Awaits("send_new_guid_request")
          /\ UNCHANGED guid
       \/ Fails("DS_GUID_ERROR") /\ guid' = NoGuid /\ UNCHANGED used
       \/ /\ used' = [used EXCEPT !.guid = @ + 1]
          /\ guid' = used'.guid
          /\ Awaits("on_set_guid_cookie_result") \/ Fails("DS_GUID_ERROR")
    /\ UNCHANGED <<is_first_launch_, storeVars>>

SetCookie(jar) == cookies' = jar /\ UNCHANGED <<read, listener, changes, missed>>

\* Mutant: the guid is used as soon as its own cookie is there.
on_set_guid_cookie_result_NoSign ==
    /\ Callback("on_set_guid_cookie_result")
    /\ \/ /\ SetCookie([cookies EXCEPT !.guid = guid])
          /\ io_get_auth_cookie \/ Fails("DS_GUID_ERROR")
       \/ UNCHANGED storeVars /\ Fails("DS_GUID_ERROR")
    /\ UNCHANGED <<guidVars, used>>

on_set_guid_cookie_result ==
    /\ Callback("on_set_guid_cookie_result")
    /\ \/ /\ SetCookie([cookies EXCEPT !.guid = guid])
          /\ Awaits("on_set_guid_sign_cookie_result") \/ Fails("DS_GUID_ERROR")
       \/ UNCHANGED storeVars /\ Fails("DS_GUID_ERROR")
    /\ UNCHANGED <<guidVars, used>>

on_set_guid_sign_cookie_result ==
    /\ Callback("on_set_guid_sign_cookie_result")
    /\ \/ SetCookie([cookies EXCEPT !.sign = guid]) /\ io_get_auth_cookie
       \/ UNCHANGED storeVars /\ Fails("DS_GUID_ERROR")
    /\ UNCHANGED <<guidVars, used>>

\* Mutant: the observers are not told that the startup is over.
on_get_auth_cookies_list_Silent ==
    /\ Callback("on_get_auth_cookies_list")
    /\ callback' = "none"
    /\ \E login \in read :
        LET auth == IF login THEN "AUTH_LOGGED" ELSE "AUTH_NOT_LOGGED"
            told == Notices(auth, wallet_state_, init_state_)
        IN  \/ /\ listener' = "requested"
               /\ auth_state_' = auth /\ init_state_' = "DS_OK"
               /\ Announce(told)
            \/ /\ auth_state_' = "AUTH_NOT_LOGGED"
               /\ Announce(told \o Notices("AUTH_NOT_LOGGED", wallet_state_, init_state_))
               /\ UNCHANGED <<listener, init_state_>>
    /\ read' = {}
    /\ UNCHANGED <<wallet_state_, guidVars, cookies, changes, missed, used>>

\* The state of the login, then create_auth_cookie_subscription: two notifications.
on_get_auth_cookies_list ==
    /\ Callback("on_get_auth_cookies_list")
    /\ callback' = "none"
    /\ \E login \in read :
        LET auth == IF login THEN "AUTH_LOGGED" ELSE "AUTH_NOT_LOGGED"
            told == Notices(auth, wallet_state_, init_state_)
        IN  \/ /\ listener' = "requested"
               /\ auth_state_' = auth /\ init_state_' = "DS_OK"
               /\ Announce(told \o Notices(auth, wallet_state_, "DS_OK"))
            \/ /\ auth_state_' = "AUTH_NOT_LOGGED"
               /\ Announce(told \o Notices("AUTH_NOT_LOGGED", wallet_state_, init_state_))
               /\ UNCHANGED <<listener, init_state_>>
    /\ read' = {}
    /\ UNCHANGED <<wallet_state_, guidVars, cookies, changes, missed, used>>

-----------------------------------------------------------------------------
(* Changes of the login cookie *)

\* Mutant: the notice that the old cookie goes, when a new one replaces it, is a logout.
OnCookieChange_Overwrite ==
    /\ changes # <<>>
    /\ changes' = Tail(changes)
    /\ IF Head(changes).cause = "INSERTED"
       THEN change_auth_state("AUTH_LOGGED") /\ UNCHANGED is_first_launch_
       ELSE change_auth_state("AUTH_NOT_LOGGED") /\ is_first_launch_' = FALSE
    /\ UNCHANGED <<guid, launchVars, callback, cookies, read, listener, missed, kept, used>>

OnCookieChange ==
    /\ changes # <<>>
    /\ changes' = Tail(changes)
    /\ IF Head(changes).cause \in {"INSERTED", "OVERWRITE"}
       THEN change_auth_state("AUTH_LOGGED") /\ UNCHANGED is_first_launch_
       ELSE change_auth_state("AUTH_NOT_LOGGED") /\ is_first_launch_' = FALSE
    /\ UNCHANGED <<guid, launchVars, callback, cookies, read, listener, missed, kept, used>>

StoreStep == Silent /\ UNCHANGED <<stateVars, guidVars, launchVars, callback, kept>>

\* GetCookieList is answered: the store may change before the answer arrives.
StoreReads ==
    /\ callback = "on_get_auth_cookies_list" /\ read = {}
    /\ read' = {cookies.login}
    /\ StoreStep /\ UNCHANGED <<cookies, listener, changes, missed, used>>

\* AddCookieChangeListener reaches the store: only later changes are reported.
AddCookieChangeListener ==
    /\ listener = "requested"
    /\ listener' = "added"
    /\ missed' = ~(auth_state_ = "AUTH_LOGGED" <=> cookies.login)
    /\ StoreStep /\ UNCHANGED <<cookies, read, changes, used>>

\* The user logs in or out.  A cookie that replaces another is two changes.
ChangeLogin(login) ==
    /\ used.cookie < MaxCookieChanges
    /\ login \/ cookies.login
    /\ used' = [used EXCEPT !.cookie = @ + 1]
    /\ cookies' = [cookies EXCEPT !.login = login]
    /\ LET report(list, cause) == Append(list, [cause |-> cause, before |-> cookies.login])
           gone == IF cookies.login THEN report(changes, IF login THEN "OVERWRITE" ELSE "EXPLICIT")
                   ELSE changes
       IN  changes' = CASE listener # "added" -> changes
                        [] listener = "added" /\ login -> report(gone, "INSERTED")
                        [] listener = "added" /\ ~login -> gone
    /\ StoreStep /\ UNCHANGED <<read, listener, missed>>

-----------------------------------------------------------------------------
(* The wallet process *)

LaunchStep == Silent /\ UNCHANGED <<stateVars, guidVars, callback, storeVars, kept>>

\* A request that comes while a launch is under way is dropped.
wallet_start(mode) ==
    /\ wallet_restarting_' = TRUE
    /\ launches' = IF wallet_restarting_ THEN launches ELSE [launches EXCEPT ![mode] = @ + 1]
    /\ UNCHANGED <<token_base64_, results>>

\* The first chain of a launch is over.  Where the old token file stayed, delete_old_token
\* has added others, which are left: each looks for a wallet and starts it, as START does.
ChainEnds(mode, forks) ==
    /\ launches[mode] > 0
    /\ mode = "START" => forks = 0
    /\ LET left == [launches EXCEPT ![mode] = @ - 1]
       IN  launches' = [left EXCEPT !["START"] = @ + forks]
    /\ UNCHANGED wallet_restarting_

\* A chain is over and its result posted to the UI thread; with this error it has not come
\* to delete_old_token.
wallet_launch(mode, forks, result) ==
    /\ ChainEnds(mode, forks)
    /\ result.state = "DS_WALLET_PROCESS_STOPPED_WITH_ERROR" => forks = 0
    /\ results' = Append(results, result)

on_wallet_start ==
    /\ results # <<>>
    /\ results' = Tail(results)
    /\ wallet_restarting_' = FALSE
    /\ token_base64_' = Head(results).token
    /\ change_wallet_state(Head(results).state)
    /\ UNCHANGED <<launches, guidVars, callback, storeVars, kept, used>>

-----------------------------------------------------------------------------
(* The specification *)

\* The rest of the browser asks for a launch.
Relaunch(mode) ==
    /\ used.launch < MaxLaunches
    /\ used' = [used EXCEPT !.launch = @ + 1]
    /\ wallet_start(mode)
    /\ LaunchStep

LaunchEnds(mode, forks, result) ==
    /\ wallet_launch(mode, forks, result)
    /\ LaunchStep /\ UNCHANGED <<token_base64_, used>>

\* The browser ends, by itself or not, and starts again: only the cookies remain.
Restart ==
    /\ used.restart < MaxRestarts
    /\ used' = [used EXCEPT !.restart = @ + 1]
    /\ kept' = IF heard = "DS_OK" THEN guid ELSE kept
    /\ auth_state_' = "AUTH_UNDEFINED"
    /\ init_state_' = "DS_NONE" /\ wallet_state_' = "DS_NONE"
    /\ guid' = NoGuid /\ is_first_launch_' = FALSE
    /\ wallet_restarting_' = TRUE /\ token_base64_' = NoToken
    /\ launches' = FirstLaunch /\ results' = <<>>
    /\ callback' = "on_get_hardware_info"
    /\ read' = {} /\ listener' = "none" /\ changes' = <<>> /\ missed' = FALSE
    /\ announced' = <<>> /\ heard' = "DS_NONE"
    /\ UNCHANGED cookies

ChainStep ==
    \/ on_get_hardware_info
    \/ set_session_cookie
    \/ on_set_session_cookie
    \/ process_guid
    \/ on_get_guid_from_cookie
    \/ send_new_guid_request
    \/ on_guid_request_response
    \/ on_set_guid_cookie_result
    \/ on_set_guid_sign_cookie_result
    \/ StoreReads
    \/ on_get_auth_cookies_list

PoolStep ==
    \E mode \in Modes, forks \in 0 .. MaxForks, result \in Result : LaunchEnds(mode, forks, result)

Next ==
    \/ ChainStep
    \/ AddCookieChangeListener
    \/ OnCookieChange
    \/ \E login \in BOOLEAN : ChangeLogin(login)
    \/ \E mode \in Modes : Relaunch(mode)
    \/ PoolStep
    \/ on_wallet_start
    \/ Restart

Spec == Init /\ [][Next]_vars

\* Chromium runs posted tasks and answers cookie calls, each chain of a launch ends
\* (LaunchEnds of WalletLaunch), and the guid server is assumed to answer.
FairSpec ==
    /\ Spec
    /\ WF_vars(ChainStep) /\ WF_vars(AddCookieChangeListener) /\ WF_vars(OnCookieChange)
    /\ WF_vars(PoolStep) /\ WF_vars(on_wallet_start)

-----------------------------------------------------------------------------
(* Properties *)

\* Startup chain, launch and login end in any order, and each notifies on its own; the
\* observers were told DS_OK last exactly when all three are fine.
ReadyIsAll ==
    heard = "DS_OK" <=> /\ auth_state_ = "AUTH_LOGGED"
                        /\ init_state_ = "DS_OK"
                        /\ wallet_state_ = "DS_OK"

\* Once subscribed, auth_state_ is the login cookie as of the changes delivered so far, so
\* a cookie that is replaced is never a logout.  The exception is a change that falls
\* between the read of the cookie and the subscription: nobody reports it.
AuthFollowsCookie ==
    listener = "added" /\ ~missed =>
        (auth_state_ = "AUTH_LOGGED"
         <=> IF changes = <<>> THEN cookies.login ELSE Head(changes).before)

\* A browser that was ready once has the same guid when it is ready again: the guid is two
\* cookies, written one after the other, and the browser may end between them.
GuidIsKept == heard = "DS_OK" /\ kept # NoGuid => guid = kept

\* A user who is logged in for good is one whom the observers hear of: they are told DS_OK,
\* unless a step of the startup or the launch failed or the login was missed.
LoginIsHeard ==
    <>[]cookies.login =>
        <>[](\/ heard = "DS_OK"
             \/ init_state_ \in InitErrors
             \/ wallet_state_ \in LaunchErrors
             \/ auth_state_ = "AUTH_NOT_LOGGED" /\ listener = "none"   \* no cookie manager
             \/ missed)

=============================================================================
