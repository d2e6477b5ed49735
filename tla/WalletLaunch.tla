---------------------------- MODULE WalletLaunch ----------------------------
(***************************************************************************)
(* How the desktop browser starts, stops and restarts the wallet process    *)
(* (wallet_launch_helper.cc), and the two methods of WalletSessionManager    *)
(* around it: wallet_start, which lets one launch run at a time, and         *)
(* on_wallet_start, which takes its result.                                 *)
(*                                                                         *)
(* A launch is a chain of tasks of the thread pool, each posting the next.   *)
(* The pool runs them in parallel, so tasks is a bag; a delayed task is one  *)
(* that has not run yet.  wallet_launch_raw looks for a process and then     *)
(* starts one: two steps here, since another process may come in between.   *)
(*                                                                         *)
(* Abstractions.  Wallet processes are numbered in the order they start,     *)
(* and a token is the number of the process that wrote it.  Whether the      *)
(* executable is there, the start succeeds or the token file can be deleted   *)
(* is up to the machine, each time.                                         *)
(***************************************************************************)
EXTENDS Naturals, Sequences, FiniteSets, Bags

CONSTANTS
    WALLET_FILE_TRIES_CNT,       \* 10
    DELETE_TOKEN_TRIES_CNT,      \* 10
    WAIT_PROCESS_TRIES_CNT,      \* 1800
    TOKEN_FILE_READ_TRIES_CNT,   \* 180
    MaxRequests,                 \* bound: calls of wallet_start
    MaxProcesses                 \* bound: wallet processes started

\* What the constants have to be.
ASSUME LaunchAssumption ==
    /\ WALLET_FILE_TRIES_CNT \in Nat /\ DELETE_TOKEN_TRIES_CNT \in Nat
    /\ WAIT_PROCESS_TRIES_CNT \in Nat /\ TOKEN_FILE_READ_TRIES_CNT \in Nat
    /\ MaxRequests \in Nat /\ MaxProcesses \in Nat \ {0}

VARIABLES
    wallet_restarting_,    \* WalletSessionManager: a launch is under way
    wallet_state_,         \* WalletSessionManager: result of the last launch
    token_base64_,         \* WalletSessionManager: token of the last launch
    tasks,                 \* tasks of the thread pool
    results,               \* on_wallet_start tasks posted to the UI thread
    processes,             \* wallet processes that run
    started,               \* number of wallet processes started so far
    token_file,            \* what the token file holds
    requests,              \* number of calls of wallet_start so far
    forked                 \* history: a launch has become two chains of tasks

managerVars == <<wallet_restarting_, wallet_state_, token_base64_>>
machineVars == <<processes, started, token_file>>
launchVars == <<managerVars, tasks, results, machineVars, requests, forked>>

NoToken == 0
Tokens  == 0 .. MaxProcesses     \* NoToken, or the process that wrote it

Modes  == {"START", "WAIT_AND_START", "STOP_AND_START"}
States == {"DS_NONE", "DS_OK", "DS_WALLET_DIR_NOT_FOUND", "DS_WALLET_FILE_NOT_FOUND",
           "DS_WALLET_PROCESS_NOT_FOUND", "DS_WALLET_PROCESS_STARTED_WITH_ERROR",
           "DS_WALLET_PROCESS_STOPPED_WITH_ERROR", "DS_WALLET_RPC_TOKEN_ERROR"}

\* after is history: every process up to this one had ended, and the token file had
\* been deleted, when this launch went on.  NoToken: it did not see that.
Task == [step : {"wallet_launch", "stop_previous_processes", "wait_process",
                 "delete_old_token", "wallet_launch_raw", "LaunchProcess", "read_token"},
         mode : Modes, iteration : Nat, after : Tokens]

Result == [state : States, token : Tokens, after : Tokens]

LaunchTypeOK ==
    /\ wallet_restarting_ \in BOOLEAN
    /\ wallet_state_ \in States
    /\ token_base64_ \in Tokens
    /\ IsABag(tasks) /\ BagToSet(tasks) \subseteq Task
    /\ results \in Seq(Result)
    /\ processes \subseteq 1 .. started
    /\ started \in Tokens
    /\ token_file \in Tokens
    /\ requests \in 0 .. MaxRequests
    /\ forked \in BOOLEAN

\* The browser starts; a wallet process and a token file may be left from the last time.
LaunchInit ==
    /\ wallet_restarting_ = FALSE
    /\ wallet_state_ = "DS_NONE"
    /\ token_base64_ = NoToken
    /\ tasks = EmptyBag
    /\ results = <<>>
    /\ started = 1
    /\ processes \in SUBSET {1}
    /\ token_file \in {NoToken, 1}
    /\ requests = 0
    /\ forked = FALSE

-----------------------------------------------------------------------------
(* WalletSessionManager *)

\* Mutant: the flag is not tested.
wallet_start_NoCompare(mode) ==
    /\ requests < MaxRequests
    /\ requests' = requests + 1
    /\ wallet_restarting_' = TRUE
    /\ tasks' = tasks (+) SetToBag({[step |-> "wallet_launch", mode |-> mode,
                                     iteration |-> 0, after |-> NoToken]})
    /\ UNCHANGED <<wallet_state_, token_base64_, results, machineVars, forked>>

\* A request that comes while a launch is under way is dropped.
wallet_start(mode) ==
    /\ requests < MaxRequests
    /\ requests' = requests + 1
    /\ wallet_restarting_' = TRUE
    /\ tasks' = IF wallet_restarting_ THEN tasks
                ELSE tasks (+) SetToBag({[step |-> "wallet_launch", mode |-> mode,
                                          iteration |-> 0, after |-> NoToken]})
    /\ UNCHANGED <<wallet_state_, token_base64_, results, machineVars, forked>>

on_wallet_start ==
    /\ results # <<>>
    /\ results' = Tail(results)
    /\ wallet_restarting_' = FALSE
    /\ wallet_state_' = Head(results).state
    /\ token_base64_' = Head(results).token
    /\ UNCHANGED <<tasks, machineVars, requests, forked>>

-----------------------------------------------------------------------------
(* The tasks of a launch *)

\* Task t runs and posts the tasks of a set.
Runs(t, step) == BagIn(t, tasks) /\ t.step = step /\ UNCHANGED <<managerVars, requests>>
Posts(t, next) == tasks' = (tasks (-) SetToBag({t})) (+) SetToBag(next)

Continue(t, next) == Posts(t, next) /\ UNCHANGED <<results, forked>>
Go(t, step) == Continue(t, {[t EXCEPT !.step = step, !.iteration = 0]})

\* Mutant: the tries are counted down.
Again_Down(t) == Continue(t, {[t EXCEPT !.iteration = @ - 1]})

Again(t) == Continue(t, {[t EXCEPT !.iteration = @ + 1]})

wallet_launch_result(t, state, token) ==
    /\ Posts(t, {})
    /\ results' = Append(results, [state |-> state, token |-> token, after |-> t.after])
    /\ UNCHANGED forked

wallet_launch(t) ==
    /\ Runs(t, "wallet_launch")
    /\ Go(t, CASE t.mode = "STOP_AND_START" -> "stop_previous_processes"
               [] t.mode = "WAIT_AND_START" -> "wait_process"
               [] t.mode = "START"          -> "wallet_launch_raw")
    /\ UNCHANGED machineVars

\* Tells the first process that can be opened (process.IsValid()) to stop, if there is one.
stop_previous_processes(t) ==
    /\ Runs(t, "stop_previous_processes")
    /\ \/ Go(t, "wallet_launch_raw")
       \/ processes # {} /\ Go(t, "wait_process")
    /\ UNCHANGED machineVars

\* Mutant: at the limit the tries are counted anew.
wait_process_NoLimit(t) ==
    /\ Runs(t, "wait_process")
    /\ \/ processes = {}  /\ Continue(t, {[t EXCEPT !.step = "delete_old_token",
                                                    !.iteration = 0, !.after = started]})
       \/ processes # {} /\ Go(t, "delete_old_token")
       \/ /\ processes # {} /\ t.iteration > WAIT_PROCESS_TRIES_CNT
          /\ Continue(t, {[t EXCEPT !.iteration = 0]})
       \/ processes # {} /\ t.iteration <= WAIT_PROCESS_TRIES_CNT /\ Again(t)
    /\ UNCHANGED machineVars

\* Mutant: once the process is gone the wallet is started, with the old token in place.
wait_process_KeepToken(t) ==
    /\ Runs(t, "wait_process")
    /\ \/ processes = {}  /\ Continue(t, {[t EXCEPT !.step = "wallet_launch_raw",
                                                    !.iteration = 0, !.after = started]})
       \/ processes # {} /\ Go(t, "wallet_launch_raw")
       \/ /\ processes # {} /\ t.iteration > WAIT_PROCESS_TRIES_CNT
          /\ wallet_launch_result(t, "DS_WALLET_PROCESS_STOPPED_WITH_ERROR", NoToken)
       \/ processes # {} /\ t.iteration <= WAIT_PROCESS_TRIES_CNT /\ Again(t)
    /\ UNCHANGED machineVars

\* A process that cannot be opened is passed over: the launch goes on when there is no
\* other, with such a process still there.
wait_process(t) ==
    /\ Runs(t, "wait_process")
    /\ \/ processes = {}  /\ Continue(t, {[t EXCEPT !.step = "delete_old_token",
                                                    !.iteration = 0, !.after = started]})
       \/ processes # {} /\ Go(t, "delete_old_token")
       \/ /\ processes # {} /\ t.iteration > WAIT_PROCESS_TRIES_CNT
          /\ wallet_launch_result(t, "DS_WALLET_PROCESS_STOPPED_WITH_ERROR", NoToken)
       \/ processes # {} /\ t.iteration <= WAIT_PROCESS_TRIES_CNT /\ Again(t)
    /\ UNCHANGED machineVars

\* Whether or not the file is still there, wallet_launch_raw is posted: no return follows
\* the delayed retry, so the launch goes on as two chains of tasks.
delete_old_token(t) ==
    /\ Runs(t, "delete_old_token")
    /\ token_file' \in {token_file, NoToken}
    /\ LET launch == [t EXCEPT !.step = "wallet_launch_raw", !.iteration = 0,
                               !.after = IF token_file' = NoToken THEN @ ELSE NoToken]
           retries == token_file' # NoToken /\ t.iteration <= DELETE_TOKEN_TRIES_CNT
       IN  /\ Posts(t, {launch} \cup
                       (IF retries THEN {[t EXCEPT !.iteration = @ + 1]} ELSE {}))
           /\ forked' = (forked \/ retries)
    /\ UNCHANGED <<results, processes, started>>

\* The look at the disk and at the processes.
wallet_launch_raw(t) ==
    /\ Runs(t, "wallet_launch_raw")
    /\ \/ wallet_launch_result(t, "DS_WALLET_DIR_NOT_FOUND", NoToken)
       \/ IF t.iteration > WALLET_FILE_TRIES_CNT       \* no executable
          THEN wallet_launch_result(t, "DS_WALLET_FILE_NOT_FOUND", NoToken)
          ELSE Again(t)
       \/ processes = {} /\ Go(t, "LaunchProcess")
       \/ /\ processes # {}
          /\ \/ Go(t, "read_token")
             \/ wallet_launch_result(t, "DS_WALLET_PROCESS_STARTED_WITH_ERROR", NoToken)
    /\ UNCHANGED machineVars

\* The start itself, and check_after_start (Windows).
LaunchProcess(t) ==
    /\ Runs(t, "LaunchProcess")
    /\ \/ /\ wallet_launch_result(t, "DS_WALLET_PROCESS_NOT_FOUND", NoToken)
          /\ UNCHANGED machineVars
       \/ /\ started < MaxProcesses
          /\ started' = started + 1
          /\ processes' = processes \cup {started'}
          /\ UNCHANGED token_file
          /\ \/ Go(t, "read_token")
             \/ wallet_launch_result(t, "DS_WALLET_PROCESS_STARTED_WITH_ERROR", NoToken)

read_token(t) ==
    /\ Runs(t, "read_token")
    /\ \/ token_file # NoToken /\ wallet_launch_result(t, "DS_OK", token_file)
       \/ /\ token_file = NoToken /\ t.iteration > TOKEN_FILE_READ_TRIES_CNT
          /\ wallet_launch_result(t, "DS_WALLET_RPC_TOKEN_ERROR", NoToken)
       \/ token_file = NoToken /\ t.iteration <= TOKEN_FILE_READ_TRIES_CNT /\ Again(t)
    /\ UNCHANGED machineVars

-----------------------------------------------------------------------------
(* The wallet process *)

MachineStep == UNCHANGED <<managerVars, tasks, results, requests, forked>>

\* A process writes its token, once it is up.
WriteToken(p) ==
    /\ p \in processes
    /\ token_file' = p
    /\ MachineStep /\ UNCHANGED <<processes, started>>

\* A process ends, told to or not; it may remove its token file.
Exit(p) ==
    /\ p \in processes
    /\ processes' = processes \ {p}
    /\ token_file' \in {token_file, NoToken}
    /\ MachineStep /\ UNCHANGED started

\* The user starts the wallet.
UserStarts ==
    /\ started < MaxProcesses
    /\ started' = started + 1
    /\ processes' = processes \cup {started'}
    /\ MachineStep /\ UNCHANGED token_file

-----------------------------------------------------------------------------
(* The specification *)

PoolStep == \E t \in BagToSet(tasks) :
    \/ wallet_launch(t)
    \/ stop_previous_processes(t)
    \/ wait_process(t)
    \/ delete_old_token(t)
    \/ wallet_launch_raw(t)
    \/ LaunchProcess(t)
    \/ read_token(t)

LaunchNext ==
    \/ \E mode \in Modes : wallet_start(mode)
    \/ on_wallet_start
    \/ PoolStep
    \/ \E p \in processes : WriteToken(p) \/ Exit(p)
    \/ UserStarts

LaunchSpec == LaunchInit /\ [][LaunchNext]_launchVars

\* The thread pool and the UI thread run what is posted.  Nothing is assumed of the
\* wallet process: it need not end when it is told to, nor write a token.
LaunchFairness == WF_launchVars(PoolStep) /\ WF_launchVars(on_wallet_start)

LaunchFairSpec == LaunchSpec /\ LaunchFairness

-----------------------------------------------------------------------------
(* Properties *)

\* One chain of tasks, and nothing else.
OneTask == \E t \in BagToSet(tasks) : tasks = SetToBag({t})

\* wallet_restarting_ is set while one launch is under way and only then, whatever the
\* way the launch ends: no request starts a second one next to it, which would look for
\* a process, find none and start a second wallet, and none is locked out afterwards.
\* This is lost once delete_old_token has gone on twice.
OneLaunch ==
    ~forked => \/ wallet_restarting_  /\ OneTask          /\ results = <<>>
               \/ wallet_restarting_  /\ tasks = EmptyBag /\ Len(results) = 1
               \/ ~wallet_restarting_ /\ tasks = EmptyBag /\ results = <<>>

\* A launch that saw every process ended and the token file deleted reports a token that
\* a later process wrote, in every interleaving of the chains with each other and with
\* the processes.
FreshToken ==
    \A i \in DOMAIN results : results[i].state = "DS_OK" => results[i].token > results[i].after

\* One launch at a time, with a token that is not an old one (wallet_start, delete_old_token).
LaunchIsSound == OneLaunch /\ FreshToken

\* A launch ends, whatever the wallet process does.
LaunchEnds == wallet_restarting_ ~> ~wallet_restarting_

=============================================================================
