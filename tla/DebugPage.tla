----------------------------- MODULE DebugPage -----------------------------
(***************************************************************************)
(* The wallet debug page (resources/netbox/debug/debug.js): a chain of calls  *)
(* that drives the wallet through its operations, iteration after iteration,  *)
(* and the part of WalletManager it talks to (wallet_manager.cc).            *)
(*                                                                         *)
(* Every answer is an event whose handler sends the next call, at once or     *)
(* after a timeout.  Four of the calls make the wallet restart; after those   *)
(* the page polls the environment until the wallet is loaded again.  Events   *)
(* nobody listens to (skip1, sendtonull, listdappssecond) end there, so the   *)
(* calls that cause them are left out.                                      *)
(*                                                                         *)
(* Abstractions.  An answer is "ok", "error" (it has a key error) or "bad"    *)
(* (it lacks the result looked for).  Timeouts are not measured: a delayed    *)
(* message is one that has not been sent yet.  Another tab may make the       *)
(* wallet restart, or cause the broadcast of notify_auth.                   *)
(***************************************************************************)
EXTENDS Naturals, Sequences, FiniteSets

CONSTANTS
    Iterations,        \* the number of iterations asked for
    MaxFaults,         \* bound: launches of the wallet that fail
    MaxDisturbances    \* bound: restarts and broadcasts due to other tabs

ASSUME DebugAssumption ==
    Iterations \in Nat /\ MaxFaults \in Nat /\ MaxDisturbances \in Nat

VARIABLES
    started,         \* the button was pressed (it disappears)
    iteration,       \* iterations done
    status,          \* what the page says
    delayed,         \* messages a setTimeout will send
    toBrowser,       \* chrome.send messages under way, in order
    atWallet,        \* calls the browser has passed on
    toPage,          \* events under way to the page, in order
    is_loaded,       \* WalletManager: the wallet is loaded
    environment_error, \* WalletManager: the last launch failed
    launch,          \* the launch under way: of the process, then its first address
    faults, disturbances,
    threw            \* history: check_error met an error and threw

pageVars    == <<started, iteration, status, delayed, threw>>
managerVars == <<is_loaded, environment_error, launch>>
browserVars == <<atWallet, managerVars>>
debugVars   == <<pageVars, browserVars, toBrowser, toPage, faults, disturbances>>

RpcCalls   == {"sethdseed", "mnsync", "encryptwallet", "getnewaddress", "stop",
               "getbalance", "getbalance2", "listdappsfirst"}
OtherCalls == {"restartwallet", "transactions", "wallet_images", "web_url"}
Calls      == RpcCalls \cup OtherCalls

\* The poll that follows each call that restarts the wallet.
PollAfter == [sethdseed     |-> "sethdseed_environment",
              encryptwallet |-> "encryptwallet_environment",
              stop          |-> "stop_environment",
              restartwallet |-> "restartwallet_environment"]
Restarting == DOMAIN PollAfter
Polls      == {PollAfter[call] : call \in Restarting}
Queries    == Polls \cup {"environment"}

\* The call each handler sends when all is well.
CallAfter == [environment               |-> "sethdseed",
              sethdseed_environment     |-> "mnsync",
              mnsync                    |-> "encryptwallet",
              encryptwallet_environment |-> "getnewaddress",
              getnewaddress             |-> "stop",
              stop_environment          |-> "getbalance",
              getbalance                |-> "restartwallet",
              restartwallet_environment |-> "getbalance2",
              getbalance2               |-> "transactions",
              transactions              |-> "wallet_images",
              wallet_images             |-> "web_url",
              web_url                   |-> "listdappsfirst"]

\* The handlers that send through setTimeout(..., getTimeout()), that call check_error, and
\* that look at the result.
Delaying       == {"mnsync", "getnewaddress", "getbalance", "getbalance2"}
CheckingErrors == {"getnewaddress", "getbalance", "getbalance2", "transactions", "listdappsfirst"}
CheckingResult == {"mnsync", "getbalance", "getbalance2", "transactions", "listdappsfirst"}

Answers == {"ok", "error", "bad"}
Event   == [name : Calls, answer : Answers]
             \cup [name : Queries, answer : {"loaded", "loading", "error", "unknown"}]

DebugTypeOK ==
    /\ started \in BOOLEAN /\ iteration \in 0 .. (Iterations + 1) /\ threw \in BOOLEAN
    /\ status \in {"idle", "running", "failed", "success"}
    /\ delayed \subseteq Calls \cup Queries
    /\ toBrowser \in Seq(Calls \cup Queries) /\ toPage \in Seq(Event)
    /\ atWallet \subseteq Calls
    /\ is_loaded \in BOOLEAN /\ environment_error \in BOOLEAN
    /\ launch \in {"none", "process", "address"}
    /\ faults \in 0 .. MaxFaults /\ disturbances \in 0 .. MaxDisturbances

DebugInit ==
    /\ started = FALSE /\ iteration = 0 /\ status = "idle" /\ delayed = {} /\ threw = FALSE
    /\ toBrowser = <<>> /\ toPage = <<>> /\ atWallet = {}
    /\ is_loaded \in BOOLEAN /\ environment_error = FALSE
    /\ launch = IF is_loaded THEN "none" ELSE "process"
    /\ faults = 0 /\ disturbances = 0

-----------------------------------------------------------------------------
(* The page.                                                               *)

Send(message) == toBrowser' = Append(toBrowser, message)

\* The button start.
onclick ==
    /\ ~started
    /\ started' = TRUE
    /\ Send("environment")
    /\ UNCHANGED <<iteration, status, delayed, threw, browserVars, toPage, faults, disturbances>>

\* The event at the head of the queue, taken by its listener.
Receive(name, answers) ==
    /\ toPage # <<>>
    /\ Head(toPage).name = name /\ Head(toPage).answer \in answers
    /\ toPage' = Tail(toPage)
    /\ UNCHANGED <<started, browserVars, faults, disturbances>>

\* Mutant: the message is not shown.
show_error_Silent == UNCHANGED <<iteration, status, delayed, toBrowser, threw>>

\* show_error: the page says so and the chain ends here.
show_error ==
    /\ status' = "failed"
    /\ UNCHANGED <<iteration, delayed, toBrowser, threw>>

\* check_error on an error: data is not defined in it, so it throws instead of showing the
\* error; the handler ends and the page goes on saying what it said.
check_error ==
    /\ threw' = TRUE
    /\ UNCHANGED <<iteration, status, delayed, toBrowser>>

\* The listener of "environment", which begins an iteration.
environment_started ==
    \/ /\ Receive("environment", {"loaded"})
       /\ status' = "running"
       /\ Send(CallAfter["environment"])
       /\ UNCHANGED <<iteration, delayed, threw>>
    \/ Receive("environment", {"loading", "error", "unknown"}) /\ show_error

\* Mutant: the callback does not end the handler, which goes on to set the timeout.
environment_NoReturn(name) ==
    \/ Receive(name, {"error"}) /\ check_error
    \/ /\ Receive(name, {"loading"})
       /\ status' = "running" /\ delayed' = delayed \cup {name}
       /\ UNCHANGED <<iteration, toBrowser, threw>>
    \/ /\ Receive(name, {"loaded"})
       /\ status' = "running" /\ Send(CallAfter[name]) /\ delayed' = delayed \cup {name}
       /\ UNCHANGED <<iteration, threw>>

\* Mutant: an error of the environment is taken for a wallet that loads.
environment_Polls(name) ==
    \/ /\ Receive(name, {"loading", "error"})
       /\ status' = "running" /\ delayed' = delayed \cup {name}
       /\ UNCHANGED <<iteration, toBrowser, threw>>
    \/ /\ Receive(name, {"loaded"})
       /\ status' = "running" /\ Send(CallAfter[name])
       /\ UNCHANGED <<iteration, delayed, threw>>

\* environment(): while the wallet loads ask again after a delay, then go on.
environment(name) ==
    \/ Receive(name, {"error"}) /\ check_error
    \/ /\ Receive(name, {"loading"})
       /\ status' = "running" /\ delayed' = delayed \cup {name}
       /\ UNCHANGED <<iteration, toBrowser, threw>>
    \/ /\ Receive(name, {"loaded"})
       /\ status' = "running" /\ Send(CallAfter[name])
       /\ UNCHANGED <<iteration, delayed, threw>>

\* Mutant: the listener does not wait for the wallet.
on_restarting_call_NoPoll(call) ==
    /\ Receive(call, Answers)
    /\ Send(CallAfter[PollAfter[call]])
    /\ UNCHANGED <<iteration, status, delayed, threw>>

\* The listeners of the calls that restart the wallet: whatever the answer, start to poll; that of
\* encryptwallet says so.
on_restarting_call(call) ==
    /\ Receive(call, Answers)
    /\ status' = IF call = "encryptwallet" THEN "running" ELSE status
    /\ Send(PollAfter[call])
    /\ UNCHANGED <<iteration, delayed, threw>>

\* A listener rejects the answer: an error it checks for, or a result that is not there.
on_call_failed(call) ==
    \/ call \in CheckingErrors /\ Receive(call, {"error"}) /\ check_error
    \/ /\ call \in CheckingResult
       /\ Receive(call, IF call \in CheckingErrors THEN {"bad"} ELSE {"bad", "error"})
       /\ show_error

\* The answers a listener goes on with.
Accepted(call) == Answers \ (  (IF call \in CheckingErrors THEN {"error"} ELSE {})
                        \cup (IF call \in CheckingResult THEN {"bad", "error"} ELSE {}))

\* transactions says nothing, and mnsync only how long its timeout is when there is one.
Logs(call) == call # "transactions" /\ (call = "mnsync" => iteration % 2 = 1)

\* The other listeners: go on to the next call, at once or after a timeout.
on_call(call) ==
    /\ Receive(call, Accepted(call))
    /\ status' = IF Logs(call) THEN "running" ELSE status
    /\ IF call \in Delaying
       THEN delayed' = delayed \cup {CallAfter[call]} /\ toBrowser' = toBrowser
       ELSE Send(CallAfter[call]) /\ delayed' = delayed
    /\ UNCHANGED <<iteration, threw>>

\* Mutant: the end is seen one iteration late.
LastIteration_Late == iteration > Iterations

\* The iteration that is done was the last: there is one more than the number asked for.
LastIteration == iteration + 1 > Iterations

\* next(), called by the listener of listdappsfirst: another iteration, or the end.
next ==
    /\ Receive("listdappsfirst", Accepted("listdappsfirst"))
    /\ iteration' = iteration + 1
    /\ IF LastIteration
       THEN status' = "success" /\ toBrowser' = toBrowser
       ELSE status' = "running" /\ Send("environment")
    /\ UNCHANGED <<delayed, threw>>

\* A timeout sends its message.
Timeout(message) ==
    /\ message \in delayed
    /\ delayed' = delayed \ {message}
    /\ Send(message)
    /\ UNCHANGED <<started, iteration, status, threw, browserVars, toPage, faults, disturbances>>

-----------------------------------------------------------------------------
(* The browser.                                                            *)

Take(message) == toBrowser # <<>> /\ Head(toBrowser) = message /\ toBrowser' = Tail(toBrowser)
Emit(name, answer) == toPage' = Append(toPage, [name |-> name, answer |-> answer])

\* WalletManager::environment.
AnswerEnvironment(query) ==
    /\ Take(query)
    /\ Emit(query, IF environment_error THEN "error" ELSE IF is_loaded THEN "loaded" ELSE "loading")
    /\ UNCHANGED <<pageVars, browserVars, faults, disturbances>>

\* WalletManager::request_http: without a wallet the answer is an error, at once.
request_http(call) ==
    /\ call \in RpcCalls
    /\ Take(call)
    /\ IF is_loaded /\ ~environment_error
       THEN atWallet' = atWallet \cup {call} /\ toPage' = toPage
       ELSE Emit(call, "error") /\ atWallet' = atWallet
    /\ UNCHANGED <<pageVars, managerVars, faults, disturbances>>

\* What is not a call of the wallet is passed on without a look at its state.
PassOn(call) ==
    /\ call \in OtherCalls \ {"restartwallet"}
    /\ Take(call)
    /\ atWallet' = atWallet \cup {call}
    /\ UNCHANGED <<pageVars, managerVars, toPage, faults, disturbances>>

\* schedule_wallet_wait_and_start and schedule_wallet_stop_and_start: the error of the last launch
\* stays until the next has ended.
ScheduleStart ==
    /\ is_loaded' = FALSE /\ launch' = "process"
    /\ UNCHANGED environment_error

\* Something else than the page makes the wallet restart.
Disturb == disturbances < MaxDisturbances /\ disturbances' = disturbances + 1

\* WalletManager::service: the restart is scheduled before the answer is given.
restartwallet ==
    /\ Take("restartwallet")
    /\ ScheduleStart
    /\ Emit("restartwallet", "ok")
    /\ UNCHANGED <<pageVars, atWallet, faults, disturbances>>

\* WalletManager::on_http_response: stop and encryptwallet restart the wallet whatever it
\* said, sethdseed unless the error is -4, and any call when its answer asks for it
\* (netboxrestart); then the page hears.
on_http_response(call, answer) ==
    /\ call \in atWallet
    /\ atWallet' = atWallet \ {call}
    /\ \/ call \in {"stop", "encryptwallet", "sethdseed"} /\ ScheduleStart
          /\ UNCHANGED disturbances
       \/ call \in RpcCalls /\ ScheduleStart /\ Disturb
       \/ /\ call \notin {"stop", "encryptwallet"}
          /\ call = "sethdseed" => answer = "error"
          /\ UNCHANGED <<managerVars, disturbances>>
    /\ Emit(call, answer)
    /\ UNCHANGED <<pageVars, toBrowser, faults>>

\* The launch of the process ends, well or not (on_environment_ready); then the first address is
\* asked for, and its answer ends the launch (end_ping_first_address_rpc).
LaunchEnds ==
    /\ \/ launch = "process" /\ launch' = "address" /\ environment_error' = FALSE
          /\ UNCHANGED <<is_loaded, faults>>
       \/ /\ launch = "process" /\ faults < MaxFaults
          /\ faults' = faults + 1
          /\ launch' = "none" /\ environment_error' = TRUE
          /\ UNCHANGED is_loaded
       \/ launch = "address" /\ launch' = "none" /\ is_loaded' = TRUE
          /\ UNCHANGED <<environment_error, faults>>
    /\ UNCHANGED <<pageVars, atWallet, toBrowser, toPage, disturbances>>

\* Another tab: it makes the wallet restart, or a signed call of it is refused and
\* notify_auth broadcasts "environment" with nothing about is_loaded.
OtherTab ==
    /\ Disturb
    /\ \/ ScheduleStart /\ toPage' = toPage
       \/ Emit("environment", "unknown") /\ UNCHANGED managerVars
    /\ UNCHANGED <<pageVars, atWallet, toBrowser, faults>>

-----------------------------------------------------------------------------

PageStep ==
    \/ environment_started
    \/ \E name \in Polls : environment(name)
    \/ \E call \in Restarting : on_restarting_call(call)
    \/ \E call \in Calls : on_call_failed(call)
    \/ \E call \in DOMAIN CallAfter \ Queries : on_call(call)
    \/ next
    \/ \E message \in delayed : Timeout(message)

BrowserStep ==
    \/ \E query \in Queries : AnswerEnvironment(query)
    \/ \E call \in Calls : request_http(call)
    \/ \E call \in Calls : PassOn(call)
    \/ restartwallet
    \/ \E call \in atWallet, answer \in Answers : on_http_response(call, answer)

DebugNext == onclick \/ PageStep \/ BrowserStep \/ LaunchEnds \/ OtherTab

DebugSpec == DebugInit /\ [][DebugNext]_debugVars

\* Events, timeouts and messages are handled, the wallet answers and launches end.
DebugFairness == WF_debugVars(PageStep) /\ WF_debugVars(BrowserStep) /\ WF_debugVars(LaunchEnds)

DebugFairSpec == DebugSpec /\ DebugFairness

-----------------------------------------------------------------------------
(* Properties.                                                             *)

\* The events of the chain: all but the broadcasts.
ChainEvents == {i \in DOMAIN toPage : toPage[i].answer # "unknown"}

\* The places where the chain may be: messages, calls, timeouts and events.
ChainLength == Len(toBrowser) + Cardinality(atWallet) + Cardinality(delayed)
                 + Cardinality(ChainEvents)

\* One call at a time: neither a poll, a timeout nor a broadcast makes a second chain.
OneChain == ChainLength <= 1

\* A call to the wallet that follows a restart is sent to a wallet that is loaded again,
\* unless another tab interfered: the manager forgets the wallet before
\* it answers the call that restarts it.
CallsFindTheWallet ==
    \A i \in DOMAIN toBrowser :
        toBrowser[i] \in RpcCalls => is_loaded \/ disturbances > 0

\* When the chain has ended the page says how, unless check_error threw.
EndIsTold == started /\ ChainLength = 0 => status \in {"failed", "success"} \/ threw

\* There is one chain of calls, it asks a wallet that is there, and it says how it ended.
ChainIsSound == OneChain /\ CallsFindTheWallet /\ EndIsTold

\* The chain comes to its end and does not poll forever, whatever the wallet answers and
\* however often it restarts.
ChainEnds == started ~> ChainLength = 0

=============================================================================
