------------------------- MODULE TransactionService -------------------------
(***************************************************************************)
(* The transaction list of the desktop browser (class TransactionService). *)
(* It keeps, per wallet, a database of the wallet's transactions, fills it  *)
(* by polling the wallet process over RPC, and answers the tabs from it.    *)
(*                                                                         *)
(* The class lives on two threads.  The methods named ui_* run on the UI    *)
(* thread, the ones named db_* on a sequenced task runner; each side hands  *)
(* work to the other by posting a task.  Both task queues are FIFO and are  *)
(* the sequences uiQueue and dbQueue here.  HTTP replies come back in any   *)
(* order, delayed tasks fire at any time.                                  *)
(*                                                                         *)
(* Abstractions.  A wallet has one transaction in each block of the chain;  *)
(* a transaction is the pair <<wallet, height>> and weighs one coin.  What  *)
(* latest_block becomes after a merge is left open among the merged blocks  *)
(* (TransactionMerge says which one the code picks).  A merge stores all it *)
(* writes: the code ignores a statement that fails, and what is lost by it  *)
(* is the subject of TransactionMerge.  A database that could               *)
(* not be opened, or opened and not initialised, is NoAddress in dbOpen:    *)
(* nothing can be stored in it or read from it either way.                  *)
(***************************************************************************)
EXTENDS Naturals, Sequences, FiniteSets

CONSTANTS
    Addresses,      \* first addresses: what tells one wallet from another
    NoAddress,      \* the empty string of db_wallet_first_address_
    Requests,       \* transaction requests of the tabs, each made once
    NoRequest,      \* no external signature
    Calls,          \* addresses of WalletRequest objects, a bound on calls in flight
    NoCall,         \* not in ui_requests_
    Threshold,      \* mismatches after which the database is recreated (15)
    MaxTip,         \* bound: height of the chain
    MaxTokens,      \* bound: notifications of the session manager in one browser process
    MaxReseeds,     \* bound: times the wallet process comes back with another seed
    MaxRestarts     \* bound: times the browser exits, or crashes, and starts again

ASSUME ConstantsAssumption ==
    /\ NoAddress \notin Addresses
    /\ NoRequest \notin Requests
    /\ Threshold \in Nat /\ MaxTip \in Nat
    /\ MaxTokens \in Nat /\ MaxReseeds \in Nat /\ MaxRestarts \in Nat

VARIABLES
    \* the two threads and the network
    uiQueue, dbQueue, ui_requests_,
    timers,                    \* delayed tasks of schedule_transaction_request
    \* the fields of the class, used by the db_* methods only
    db_wallet_first_address_, db_token_base64_, db_in_rpc_call_, db_loaded_,
    db_control_sum_check_failed_count_,
    \* db_helper_: the file that is open, and every file on disk
    dbOpen, files,
    \* the tabs: how often each request was answered
    asked, answers,
    \* the wallet process, its answers to calls in flight, what WalletManager last told,
    \* and the bounds used up
    wallet, served, first_address_, used

queueVars == <<uiQueue, dbQueue, ui_requests_, timers>>
dbVars    == <<db_wallet_first_address_, db_token_base64_, db_in_rpc_call_, db_loaded_,
               db_control_sum_check_failed_count_>>
fileVars  == <<dbOpen, files>>
tabVars   == <<asked, answers>>
envVars   == <<wallet, served, first_address_, used>>
vars == <<queueVars, dbVars, fileVars, tabVars, envVars>>

-----------------------------------------------------------------------------
(* Tasks, calls, files *)

NoToken    == 0   \* the empty string; the tokens of the wallet process are numbered
AnyAddress == Addresses \cup {NoAddress}
AnyRequest == Requests \cup {NoRequest}
Heights    == 0 .. MaxTip
Rows       == Addresses \X (1 .. MaxTip)

\* WalletHttpCallSignature: method, RPC token, the address in extra_data, the
\* latest_block parameter and the external signature.
Signature == [op : {"listsinceblock", "mnsync", "getbalance"}, token : Nat,
              addr : AnyAddress, since : Heights, ext : AnyRequest]

ASSUME NoCallAssumption == NoCall \notin Signature

\* The wallet process.  owners is history: the wallet each of its tokens belonged to.
WalletProcess == [addr : Addresses, tip : Heights, token : Nat \ {NoToken},
                  owners : Seq(Addresses)]

\* The wallet and its height when the wallet process answered.
Answer == [addr : Addresses, tip : Heights]

UiTask == Signature \cup [op : {"end_http_call"}, ext : Requests, is_loading : BOOLEAN]

DbTask ==      [op : {"db_set_token"}, token : Nat]
          \cup [op : {"db_set_first_address"}, addr : Addresses]
          \cup [op : {"db_start", "db_get_transactions"}, ext : AnyRequest]
          \cup [op : {"db_rpc_response"}, sig : Signature, rows : SUBSET Rows]
          \cup [op : {"db_check_control_sum"}]
          \cup [op : {"db_rpc_balance_response"}, sig : Signature,
                ok : BOOLEAN, balance : Heights]

\* raced is history: the file was recreated while listsinceblock was on its way.
File == [latest : Heights, rows : SUBSET Rows, raced : BOOLEAN]
NewFile == [latest |-> 0, rows |-> {}, raced |-> FALSE]

TypeOK ==
    /\ uiQueue \in Seq(UiTask)
    /\ dbQueue \in Seq(DbTask)
    /\ ui_requests_ \in [Calls -> Signature \cup {NoCall}]
    /\ timers \in Nat
    /\ db_wallet_first_address_ \in AnyAddress
    /\ db_token_base64_ \in Nat
    /\ db_in_rpc_call_ \in BOOLEAN
    /\ db_loaded_ \in BOOLEAN
    /\ db_control_sum_check_failed_count_ \in 0 .. Threshold + 1
    /\ dbOpen \in AnyAddress
    /\ files \in [Addresses -> File]
    /\ asked \in SUBSET Requests
    /\ answers \in [Requests -> Nat]
    /\ wallet \in WalletProcess
    /\ served \in [Calls -> SUBSET Answer]
    /\ first_address_ \in AnyAddress
    /\ used \in [token : Nat, reseed : Nat, restart : Nat]

Init ==
    /\ uiQueue = <<>> /\ dbQueue = <<>>
    /\ ui_requests_ = [c \in Calls |-> NoCall]
    /\ timers = 0
    /\ db_wallet_first_address_ = NoAddress
    /\ db_token_base64_ = NoToken
    /\ db_in_rpc_call_ = FALSE
    /\ db_loaded_ = FALSE
    /\ db_control_sum_check_failed_count_ = 0
    /\ dbOpen = NoAddress
    /\ files = [a \in Addresses |-> NewFile]
    /\ asked = {}
    /\ answers = [r \in Requests |-> 0]
    /\ \E a \in Addresses : wallet = [addr |-> a, tip |-> 0, token |-> 1, owners |-> <<a>>]
    /\ served = [c \in Calls |-> {}]
    /\ first_address_ = NoAddress
    /\ used = [token |-> 0, reseed |-> 0, restart |-> 0]

-----------------------------------------------------------------------------
(* The UI thread: what the rest of the browser calls *)

PostDb(task) == dbQueue' = Append(dbQueue, task)

\* A data observer of WalletSessionManager: called with every notification, whatever the
\* state, with the token known by then: none, the wallet's, or the one before a restart.
ui_set_rpc_token(token) ==
    /\ used.token < MaxTokens
    /\ used' = [used EXCEPT !.token = @ + 1]
    /\ PostDb([op |-> "db_set_token", token |-> token])
    /\ UNCHANGED <<uiQueue, ui_requests_, timers, dbVars, fileVars, tabVars,
                   wallet, served, first_address_>>

\* A first-address observer of WalletManager, which calls it when the address that
\* getfirstaddress returned is not the one it knows.
ui_set_first_address ==
    /\ wallet.addr # first_address_
    /\ first_address_' = wallet.addr
    /\ PostDb([op |-> "db_set_first_address", addr |-> wallet.addr])
    /\ UNCHANGED <<uiQueue, ui_requests_, timers, dbVars, fileVars, tabVars,
                   wallet, served, used>>

\* A tab asks for its transactions; with "invalidate" the wallet is polled first.
ui_get_transactions(r, invalidate) ==
    /\ r \notin asked
    /\ asked' = asked \cup {r}
    /\ PostDb([op |-> IF invalidate THEN "db_start" ELSE "db_get_transactions", ext |-> r])
    /\ UNCHANGED <<uiQueue, ui_requests_, timers, dbVars, fileVars, answers, envVars>>

\* The delayed task of schedule_transaction_request.
ui_start ==
    /\ timers > 0
    /\ timers' = timers - 1
    /\ PostDb([op |-> "db_start", ext |-> NoRequest])
    /\ UNCHANGED <<uiQueue, ui_requests_, dbVars, fileVars, tabVars, envVars>>

-----------------------------------------------------------------------------
(* The UI thread: tasks the database side posted, and replies *)

\* ui_rpc_request, ui_mnsync_request and ui_rpc_balance_request: send the call and
\* keep the WalletRequest until its reply.
ui_request(c) ==
    /\ uiQueue # <<>>
    /\ Head(uiQueue).op # "end_http_call"
    /\ ui_requests_[c] = NoCall
    /\ uiQueue' = Tail(uiQueue)
    /\ ui_requests_' = [ui_requests_ EXCEPT ![c] = Head(uiQueue)]
    /\ UNCHANGED <<dbQueue, timers, dbVars, fileVars, tabVars, envVars>>

\* WalletManager::end_http_call for a transactions request.
end_http_call ==
    /\ uiQueue # <<>>
    /\ Head(uiQueue).op = "end_http_call"
    /\ uiQueue' = Tail(uiQueue)
    /\ answers' = [answers EXCEPT ![Head(uiQueue).ext] = @ + 1]
    /\ UNCHANGED <<dbQueue, ui_requests_, timers, dbVars, fileVars, asked, envVars>>

\* The reply of call c, with its WalletRequest released: what the wallet process answered,
\* perhaps a while ago, or an error.
Reply(c, method, ok) ==
    /\ ui_requests_[c] # NoCall
    /\ ui_requests_[c].op = method
    /\ ok => served[c] # {}
    /\ ui_requests_' = [ui_requests_ EXCEPT ![c] = NoCall]
    /\ served' = [served EXCEPT ![c] = {}]
    /\ UNCHANGED <<uiQueue, dbVars, fileVars, tabVars, wallet, first_address_, used>>

\* listsinceblock: the transactions above the block that was asked about, or an
\* error, in which parse_transactions_json finds no transaction.
ui_rpc_response(c, ok) ==
    /\ Reply(c, "listsinceblock", ok)
    /\ PostDb([op |-> "db_rpc_response", sig |-> ui_requests_[c],
               rows |-> {row \in Rows : /\ ok /\ row[2] > ui_requests_[c].since
                                        /\ \E answer \in served[c] :
                                              row[1] = answer.addr /\ row[2] <= answer.tip}])
    /\ UNCHANGED timers

\* Mutant: nothing is scheduled while the wallet is not synchronised.
ui_mnsync_response_OnlySynced(c, synced) ==
    /\ Reply(c, "mnsync", synced)
    /\ IF synced THEN PostDb([op |-> "db_check_control_sum"]) ELSE UNCHANGED dbQueue
    /\ UNCHANGED timers

\* Mutant: the return after posting db_check_control_sum is missing.
ui_mnsync_response_NoReturn(c, synced) ==
    /\ Reply(c, "mnsync", synced)
    /\ timers' = timers + 1
    /\ IF synced THEN PostDb([op |-> "db_check_control_sum"]) ELSE UNCHANGED dbQueue

ui_mnsync_response(c, synced) ==
    /\ Reply(c, "mnsync", synced)
    /\ \/ synced /\ PostDb([op |-> "db_check_control_sum"]) /\ UNCHANGED timers
       \/ ~synced /\ timers' = timers + 1 /\ UNCHANGED dbQueue

ui_rpc_balance_response(c, ok) ==
    /\ Reply(c, "getbalance", ok)
    /\ \E balance \in IF ok THEN {answer.tip : answer \in served[c]} ELSE {0} :
            PostDb([op |-> "db_rpc_balance_response", sig |-> ui_requests_[c],
                    ok |-> ok, balance |-> balance])
    /\ UNCHANGED timers

-----------------------------------------------------------------------------
(* The database thread *)

DbTaskIs(op) == dbQueue # <<>> /\ Head(dbQueue).op = op
DbTaskDone   == dbQueue' = Tail(dbQueue) /\ UNCHANGED <<ui_requests_, tabVars, envVars>>

\* Mutant: the test that there is an external signature is missing.
db_get_transactions_NoTest(ext, loaded) ==
    <<[op |-> "end_http_call", ext |-> ext, is_loading |-> ~loaded]>>

\* Mutant: the answer waits for the database to be loaded, and is forgotten.
db_get_transactions_OnlyLoaded(ext, loaded) ==
    IF ext = NoRequest \/ ~loaded THEN <<>>
    ELSE <<[op |-> "end_http_call", ext |-> ext, is_loading |-> FALSE]>>

\* db_get_transactions for the external signature ext, if there is one: the tasks it
\* posts to the UI thread.
db_get_transactions(ext, loaded) ==
    IF ext = NoRequest THEN <<>>
    ELSE <<[op |-> "end_http_call", ext |-> ext, is_loading |-> ~loaded]>>

\* get_latest_block: nothing ("") when no database is open.
get_latest_block(open) == IF open = NoAddress THEN 0 ELSE files[open].latest

\* Mutant: a recreation clears the transactions and keeps the settings (latest_block).
check_database_KeepSettings(a, recreate) ==
    /\ dbOpen' \in {a, NoAddress}
    /\ \/ UNCHANGED files
       \/ recreate /\ files' = [files EXCEPT ![a].rows = {}, ![a].raced = db_in_rpc_call_]

\* check_database(a, recreate): close, delete if asked to, open again.  Opening may fail;
\* so may deleting, and then it is the old file that is opened again.
check_database(a, recreate) ==
    /\ dbOpen' \in {a, NoAddress}
    /\ \/ UNCHANGED files
       \/ recreate /\ files' = [files EXCEPT ![a] = [NewFile EXCEPT !.raced = db_in_rpc_call_]]

\* Mutant: the test of db_in_rpc_call_ is missing.
MayNotStart_NoGuard == db_wallet_first_address_' = NoAddress \/ db_token_base64_' = NoToken

\* The early return of db_start, which reads the fields once they have their new values.
MayNotStart ==
    db_wallet_first_address_' = NoAddress \/ db_token_base64_' = NoToken \/ db_in_rpc_call_

db_start(ext) ==
    IF MayNotStart
    THEN /\ uiQueue' = uiQueue \o db_get_transactions(ext, db_loaded_')
         /\ UNCHANGED db_in_rpc_call_
    ELSE /\ db_in_rpc_call_' = TRUE
         /\ uiQueue' = Append(uiQueue, [op |-> "listsinceblock", token |-> db_token_base64_',
                                        addr |-> db_wallet_first_address_',
                                        since |-> get_latest_block(dbOpen'), ext |-> ext])

db_set_token ==
    /\ DbTaskIs("db_set_token") /\ DbTaskDone
    /\ db_token_base64_' = Head(dbQueue).token
    /\ UNCHANGED <<db_wallet_first_address_, db_loaded_, db_control_sum_check_failed_count_,
                   fileVars, timers>>
    /\ db_start(NoRequest)

db_set_first_address ==
    /\ DbTaskIs("db_set_first_address") /\ DbTaskDone
    /\ db_wallet_first_address_' = Head(dbQueue).addr
    /\ IF db_wallet_first_address_ # Head(dbQueue).addr
       THEN /\ db_loaded_' = FALSE
            /\ db_control_sum_check_failed_count_' = 0
            /\ check_database(Head(dbQueue).addr, FALSE)
       ELSE UNCHANGED <<db_loaded_, db_control_sum_check_failed_count_, fileVars>>
    /\ UNCHANGED <<db_token_base64_, timers>>
    /\ db_start(NoRequest)

db_start_task ==
    /\ DbTaskIs("db_start") /\ DbTaskDone
    /\ UNCHANGED <<db_wallet_first_address_, db_token_base64_, db_loaded_,
                   db_control_sum_check_failed_count_, fileVars, timers>>
    /\ db_start(Head(dbQueue).ext)

db_get_transactions_task ==
    /\ DbTaskIs("db_get_transactions") /\ DbTaskDone
    /\ uiQueue' = uiQueue \o db_get_transactions(Head(dbQueue).ext, db_loaded_)
    /\ UNCHANGED <<dbVars, fileVars, timers>>

\* Mutant: the address of the reply is not compared.
StaleReply_Never == FALSE

\* A reply that was asked for under another address is dropped: nothing is merged,
\* nothing is polled again.
StaleReply == Head(dbQueue).sig.addr # db_wallet_first_address_

db_rpc_response_stale ==
    /\ DbTaskIs("db_rpc_response") /\ DbTaskDone
    /\ StaleReply
    /\ db_in_rpc_call_' = FALSE
    /\ uiQueue' = uiQueue \o db_get_transactions(Head(dbQueue).sig.ext, db_loaded_)
    /\ UNCHANGED <<db_wallet_first_address_, db_token_base64_, db_loaded_,
                   db_control_sum_check_failed_count_, fileVars, timers>>

\* The merge, in one database transaction: store the rows, move latest_block to one of
\* their blocks or leave it (when no row is deep enough in the chain).
Merge(rows) ==
    IF rows = {} \/ dbOpen = NoAddress
    THEN UNCHANGED files
    ELSE \E latest \in {files[dbOpen].latest} \cup {row[2] : row \in rows} :
            files' = [files EXCEPT ![dbOpen] =
                        [latest |-> latest, rows |-> @.rows \cup rows, raced |-> @.raced]]

\* db_check_synced: the tasks it posts to the UI thread.
db_check_synced == <<[op |-> "mnsync", token |-> db_token_base64_, addr |-> NoAddress,
                      since |-> 0, ext |-> NoRequest]>>

\* Mutant: only a reply that brought something counts as loaded.
db_rpc_response_LoadedByRows ==
    /\ DbTaskIs("db_rpc_response") /\ DbTaskDone
    /\ ~StaleReply
    /\ Merge(Head(dbQueue).rows)
    /\ db_loaded_' = (db_loaded_ \/ Head(dbQueue).rows # {})
    /\ db_in_rpc_call_' = FALSE
    /\ uiQueue' = uiQueue \o (IF Head(dbQueue).sig.ext # NoRequest
                              THEN db_get_transactions(Head(dbQueue).sig.ext, TRUE)
                              ELSE db_check_synced)
    /\ UNCHANGED <<db_wallet_first_address_, db_token_base64_,
                   db_control_sum_check_failed_count_, dbOpen, timers>>

db_rpc_response ==
    /\ DbTaskIs("db_rpc_response") /\ DbTaskDone
    /\ ~StaleReply
    /\ Merge(Head(dbQueue).rows)
    /\ db_loaded_' = TRUE
    /\ db_in_rpc_call_' = FALSE
    /\ uiQueue' = uiQueue \o (IF Head(dbQueue).sig.ext # NoRequest
                              THEN db_get_transactions(Head(dbQueue).sig.ext, TRUE)
                              ELSE db_check_synced)
    /\ UNCHANGED <<db_wallet_first_address_, db_token_base64_,
                   db_control_sum_check_failed_count_, dbOpen, timers>>

db_check_control_sum ==
    /\ DbTaskIs("db_check_control_sum") /\ DbTaskDone
    /\ uiQueue' = Append(uiQueue, [op |-> "getbalance", token |-> db_token_base64_,
                                   addr |-> db_wallet_first_address_,
                                   since |-> 0, ext |-> NoRequest])
    /\ UNCHANGED <<dbVars, fileVars, timers>>

\* get_balance of the open database.
get_balance == IF dbOpen = NoAddress THEN 0 ELSE Cardinality(files[dbOpen].rows)

\* The counter of failed comparisons.  It is compared with > Threshold only, so it
\* saturates one above.
FailedCount(balance) ==
    IF balance = get_balance THEN 0
    ELSE IF db_control_sum_check_failed_count_ > Threshold THEN Threshold + 1
    ELSE db_control_sum_check_failed_count_ + 1

db_rpc_balance_response ==
    /\ DbTaskIs("db_rpc_balance_response") /\ DbTaskDone
    /\ IF StaleReply THEN UNCHANGED <<timers, db_loaded_, db_control_sum_check_failed_count_,
                                      fileVars>>
       ELSE /\ timers' = timers + 1
            /\ db_control_sum_check_failed_count_' =
                 IF Head(dbQueue).ok THEN FailedCount(Head(dbQueue).balance)
                                     ELSE db_control_sum_check_failed_count_
            /\ IF Head(dbQueue).ok /\ db_control_sum_check_failed_count_' > Threshold
               THEN /\ db_loaded_' = FALSE
                    /\ check_database(db_wallet_first_address_, TRUE)
               ELSE UNCHANGED <<db_loaded_, fileVars>>
    /\ UNCHANGED <<uiQueue, db_wallet_first_address_, db_token_base64_, db_in_rpc_call_>>

-----------------------------------------------------------------------------
(* The wallet process, and the end of the browser process *)

\* The wallet process answers call c.  It refuses a token that is not its own.
Serve(c) ==
    /\ ui_requests_[c] # NoCall /\ served[c] = {}
    /\ ui_requests_[c].token = wallet.token
    /\ served' = [served EXCEPT ![c] = {[addr |-> wallet.addr, tip |-> wallet.tip]}]
    /\ UNCHANGED <<queueVars, dbVars, fileVars, tabVars, wallet, first_address_, used>>

\* A block is added to the chain.
NewBlock ==
    /\ wallet.tip < MaxTip
    /\ wallet' = [wallet EXCEPT !.tip = @ + 1]
    /\ UNCHANGED <<queueVars, dbVars, fileVars, tabVars, served, first_address_, used>>

\* The user gives the wallet another seed (sethdseed): the process comes back as another
\* wallet, with another RPC token.
Reseed(a) ==
    /\ used.reseed < MaxReseeds
    /\ a # wallet.addr
    /\ used' = [used EXCEPT !.reseed = @ + 1]
    /\ wallet' = [wallet EXCEPT !.addr = a, !.token = @ + 1, !.owners = Append(@, a)]
    /\ UNCHANGED <<queueVars, dbVars, fileVars, tabVars, served, first_address_>>

\* The browser exits (ui_stop) or dies, and is started again: the files remain.  The
\* open requests of the tabs go with the tabs.
Restart ==
    /\ used.restart < MaxRestarts
    /\ used' = [used EXCEPT !.restart = @ + 1, !.token = 0]
    /\ uiQueue' = <<>> /\ dbQueue' = <<>>
    /\ ui_requests_' = [c \in Calls |-> NoCall]
    /\ timers' = 0
    /\ db_wallet_first_address_' = NoAddress
    /\ db_token_base64_' = NoToken
    /\ db_in_rpc_call_' = FALSE
    /\ db_loaded_' = FALSE
    /\ db_control_sum_check_failed_count_' = 0
    /\ dbOpen' = NoAddress
    /\ asked' = {r \in asked : answers[r] > 0}
    /\ first_address_' = NoAddress
    /\ served' = [c \in Calls |-> {}]
    /\ UNCHANGED <<files, answers, wallet>>

-----------------------------------------------------------------------------
(* The specification *)

UiTaskStep == end_http_call \/ \E c \in Calls : ui_request(c)

ReplyStep(c) == \E b \in BOOLEAN :
    ui_rpc_response(c, b) \/ ui_mnsync_response(c, b) \/ ui_rpc_balance_response(c, b)

DbStep ==
    \/ db_set_token
    \/ db_set_first_address
    \/ db_start_task
    \/ db_get_transactions_task
    \/ db_rpc_response_stale
    \/ db_rpc_response
    \/ db_check_control_sum
    \/ db_rpc_balance_response

Next ==
    \/ \E token \in NoToken .. wallet.token : ui_set_rpc_token(token)
    \/ ui_set_first_address
    \/ \E r \in Requests, invalidate \in BOOLEAN : ui_get_transactions(r, invalidate)
    \/ ui_start
    \/ UiTaskStep
    \/ \E c \in Calls : ReplyStep(c) \/ Serve(c)
    \/ DbStep
    \/ NewBlock
    \/ \E a \in Addresses : Reseed(a)
    \/ Restart

Spec == Init /\ [][Next]_vars

\* Each thread runs its tasks, delayed tasks fire, and the wallet process answers or the
\* connection to it fails: WalletRequest sets no timeout, so that it does is an assumption.
Fairness ==
    /\ WF_vars(ui_start)
    /\ WF_vars(UiTaskStep)
    /\ WF_vars(DbStep)
    /\ \A c \in Calls : WF_vars(ReplyStep(c))

FairSpec == Spec /\ Fairness

-----------------------------------------------------------------------------
(* Properties *)

\* Where a listsinceblock call can be: posted to the UI thread, on the network, or
\* with its reply posted to the database thread.
Places(queue, op) == {i \in DOMAIN queue : queue[i].op = op}
UiCalls  == Places(uiQueue, "listsinceblock")
NetCalls == {c \in Calls : ui_requests_[c] # NoCall /\ ui_requests_[c].op = "listsinceblock"}
DbCalls  == Places(dbQueue, "db_rpc_response")

IsSingle(S) == \E x \in S : S = {x}

\* The guard flag db_in_rpc_call_, set on one thread and cleared three task hops later,
\* never disagrees with the pipeline: when it is set exactly one listsinceblock call is
\* somewhere on its way, so that the flag cannot be left set and stop all polling, and
\* when it is clear there is none, so that two merges cannot overlap.
OneCallInFlight ==
    IF db_in_rpc_call_
    THEN \/ IsSingle(UiCalls) /\ NetCalls = {} /\ DbCalls = {}
         \/ UiCalls = {} /\ IsSingle(NetCalls) /\ DbCalls = {}
         \/ UiCalls = {} /\ NetCalls = {} /\ IsSingle(DbCalls)
    ELSE UiCalls = {} /\ NetCalls = {} /\ DbCalls = {}

\* Where the request r of a tab can be.
RequestPlaces(r) ==
         {"ui"} \X {i \in DOMAIN uiQueue : uiQueue[i].ext = r}
    \cup {"net"} \X {c \in Calls : ui_requests_[c] # NoCall /\ ui_requests_[c].ext = r}
    \cup {"db"} \X {i \in DOMAIN dbQueue :
                     \/ /\ dbQueue[i].op \in {"db_start", "db_get_transactions"}
                        /\ dbQueue[i].ext = r
                     \/ dbQueue[i].op = "db_rpc_response" /\ dbQueue[i].sig.ext = r}

\* A tab's request rides on a poll, is dropped off where a poll is already running, and
\* changes threads up to four times.  It is never lost nor answered twice: until its
\* answer it is in exactly one place, afterwards nowhere.
RequestInOnePlace ==
    \A r \in Requests :
        Cardinality(RequestPlaces(r)) + answers[r] = IF r \in asked THEN 1 ELSE 0

\* latest_block is what the next poll starts from, so a block below it that was not
\* stored never will be.  There is none in any file, whatever the changes of address,
\* the failures and the restarts, but in a file that was recreated while a call based
\* on the old file was on its way: that reply is merged into the new, empty file.
NothingSkipped ==
    \A a \in Addresses : ~files[a].raced =>
        \A h \in 1 .. files[a].latest : \E row \in files[a].rows : row[2] = h

\* No tab's request is lost or answered twice (ui_rpc_response, db_get_transactions), and no
\* transaction is passed over by latest_block (db_rpc_response).
NothingIsLost == RequestInOnePlace /\ NothingSkipped

\* The transactions of a wallet b enter the database of a wallet a only in the reply to a
\* call that was made for a with b's token, which db_start makes between the news of the
\* token and the news of the address (db_set_token, db_set_first_address).  A reply to a
\* call made under another address is never merged (db_rpc_response); one to a call that
\* paired a with b's token is, also when the address became b's and a's again meanwhile.
ForeignRowsOnlyByReseed ==
    [][\A a \in Addresses : \A row \in files'[a].rows \ files[a].rows :
          row[1] # a => /\ DbTaskIs("db_rpc_response")
                        /\ Head(dbQueue).sig.addr = a
                        /\ row[1] = wallet.owners[Head(dbQueue).sig.token]]_vars

\* The polls that keep the list up to date: every delayed task, every posted task and
\* every call that ends in another poll.
Chain(sig) == sig.op # "end_http_call" /\ sig.ext = NoRequest
DbChain(task) ==
    /\ task.op \in {"db_start", "db_get_transactions"} =>
          task.op = "db_start" /\ task.ext = NoRequest
    /\ task.op \in {"db_rpc_response", "db_rpc_balance_response"} => Chain(task.sig)

UiChains  == {i \in DOMAIN uiQueue : Chain(uiQueue[i])}
NetChains == {c \in Calls : ui_requests_[c] # NoCall /\ Chain(ui_requests_[c])}
DbChains  == {i \in DOMAIN dbQueue : DbChain(dbQueue[i])}

PollChains == timers + Cardinality(UiChains) + Cardinality(NetChains) + Cardinality(DbChains)

Ready == db_wallet_first_address_ # NoAddress /\ db_token_base64_ # NoToken

\* The listsinceblock call under way was started by the request of a tab.
TabCallInFlight ==
    \/ \E i \in DOMAIN uiQueue : uiQueue[i].op = "listsinceblock" /\ uiQueue[i].ext # NoRequest
    \/ \E c \in Calls : ui_requests_[c] # NoCall /\ ui_requests_[c].ext # NoRequest
    \/ \E i \in DOMAIN dbQueue : /\ dbQueue[i].op = "db_rpc_response"
                                  /\ dbQueue[i].sig.ext # NoRequest

\* Polling ends only where the code gives it up: the wallet is not ready, the browser
\* ended, the reply was asked for under another address, or a poll found the call of a
\* tab's request under way, which ends without another poll.
PollingEndsOnlyKnowingly ==
    [][PollChains > 0 /\ PollChains' = 0 =>
          \/ ~Ready'
          \/ DbTaskIs("db_rpc_response") /\ StaleReply
          \/ DbTaskIs("db_rpc_balance_response") /\ StaleReply
          \/ db_in_rpc_call_ /\ TabCallInFlight]_vars

\* Each chain schedules itself again, so one that doubled would never die out: only a
\* notification of a token or an address starts another one.
PollingDoesNotMultiply ==
    [][PollChains' > PollChains => used' # used \/ first_address_' # first_address_]_vars

\* Every request is answered, or ends with the browser.
RequestsAnswered ==
    \A r \in Requests : r \in asked ~> answers[r] = 1 \/ r \notin asked

\* "is_loading" does not last: as long as the wallet is ready and polling goes on, a
\* database that is being loaded is loaded.
LoadingEnds ==
    Ready /\ ~db_loaded_ /\ PollChains > 0 ~> db_loaded_ \/ ~Ready \/ PollChains = 0

=============================================================================
