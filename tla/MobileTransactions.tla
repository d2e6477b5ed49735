------------------------- MODULE MobileTransactions -------------------------
(***************************************************************************)
(* The transaction list of the mobile browser (TransactionMobileService and *)
(* the wallet of WalletManager).  The page polls the balance at an explorer *)
(* and, when the last block is a new one, has the browser import: it asks   *)
(* the explorer page by page for what follows the last confirmed            *)
(* transaction it has.  When nothing is new the page sometimes has the      *)
(* balance compared, and a database that differs is recreated.              *)
(*                                                                         *)
(* As on the desktop the ui_* methods run on the UI thread and the db_*     *)
(* methods on a sequence of their own; uiQueue and dbQueue hold the tasks   *)
(* posted to each.  One method breaks the rule: db_remove_database calls    *)
(* WalletManager::on_remove_database where it is, so its two halves are two *)
(* steps here, and those of the UI thread may come between.                 *)
(*                                                                         *)
(* Abstractions.  A transaction is the pair <<wallet, number>>, is listed   *)
(* by height and then by number, and weighs one coin: a balance is a number *)
(* of transactions.  Both networks share one chain.  Each chain is longer   *)
(* than the one it replaces, so the hash of its last block is its height.  *)
(***************************************************************************)
EXTENDS Integers, Sequences, FiniteSets

CONSTANTS
    Addresses,          \* first addresses: what tells one wallet from another
    TestAddresses,      \* those of the test network
    NoAddress,          \* the empty string
    TxCount,            \* bound: transactions of a wallet
    Calls,              \* WalletRequest objects, a bound on calls in flight
    NoCall,             \* not in ui_requests_
    MAX_TRANSACTIONS,   \* transactions asked for at once (100)
    CONFIRMATIONS,      \* blocks after which a transaction stays where it is (100)
    CHECK_EVERY,        \* check_transactions_counter_max of the page (40)
    DiskFaults,         \* whether opening and deleting a file may fail
    MaxTop,             \* bound: height of the chain
    MaxReorgs,          \* bound: reorganisations
    MaxLoads,           \* bound: times the page is loaded
    MaxChanges,         \* bound: new wallets, resets, toggles and desyncs
    MaxFaults,          \* bound: replies and file operations that fail
    MaxRestarts,        \* bound: ends of the browser
    MaxQueue            \* bound: tasks waiting when the page asks for one more

ASSUME ConstantsAssumption ==
    /\ IsFiniteSet(Addresses)
    /\ NoAddress \notin Addresses /\ TestAddresses \subseteq Addresses
    /\ TxCount \in Nat /\ MAX_TRANSACTIONS \in Nat \ {0}
    /\ CONFIRMATIONS \in Nat \ {0} /\ CHECK_EVERY \in Nat \ {0}
    /\ DiskFaults \in BOOLEAN
    /\ MaxTop \in Nat /\ MaxReorgs \in Nat /\ MaxLoads \in Nat
    /\ MaxChanges \in Nat /\ MaxFaults \in Nat /\ MaxRestarts \in Nat
    /\ MaxQueue \in Nat

VARIABLES
    uiQueue, dbQueue, ui_requests_,
    \* the database sequence: the field, the open file, the files on disk, and the
    \* address that on_remove_database has read while it runs on this sequence
    db_wallet_first_address_, dbOpen, files, reloading,
    \* WalletManager, and the wallet of each network that the Java side keeps
    is_qa_, first_address_, java,
    page,               \* the page, see Page
    height, top,        \* the chain: where a transaction is, and how long it is
    \* history: what an import of this wallet may have missed, and why; whether the UI
    \* thread has reloaded the wallet while the database sequence did
    gaps, raced,
    used                \* bounds used up

walletVars == <<is_qa_, first_address_, java, raced>>
dbVars     == <<db_wallet_first_address_, dbOpen, files, reloading, gaps>>
chainVars  == <<height, top>>
vars == <<uiQueue, dbQueue, ui_requests_, walletVars, dbVars, page, chainVars, used>>

-----------------------------------------------------------------------------
(* Transactions, files, tasks *)

AnyAddress == Addresses \cup {NoAddress}
OfNetwork(is_qa) == IF is_qa THEN TestAddresses ELSE Addresses \ TestAddresses
Txs     == Addresses \X (1 .. TxCount)
NoTx    == <<NoAddress, 0>>    \* the empty txid
Heights == 0 .. MaxTop         \* 0: not in the chain

\* Hashes: -1 is the page's "-1", -2 its false, or no block_hash in the settings.
Unknown == -1
Missing == -2
AnyHash == Heights \cup {Unknown, Missing}

RowSets == UNION {[S -> Heights] : S \in SUBSET Txs}
NoRows  == [t \in {} |-> 0]

\* A file of the database: does it exist, its transactions with their heights, its hash.
Files == [rows : RowSets, hash : AnyHash]
NewFile == [rows |-> NoRows, hash |-> Missing]

\* w/tx/list: the wallet and txid it asks for, the tab's signature that it carries (handler
\* and block hash), and what came back.
Call == [address : Addresses, from : Txs \cup {NoTx}, to : Nat, hash : AnyHash,
         status : {"asked", "listed", "failed"}, data : RowSets]

UiTask ==      [op : {"request"}, call : Call]
          \cup [op : {"last_block_hash"}, to : Nat, hash : AnyHash]
          \cup [op : {"imported"}, to : Nat, reload : BOOLEAN]
          \cup [op : {"transactions"}, to : Nat, shown : SUBSET Txs]
          \cup [op : {"reset_last_block_hash"}]

DbTask ==      [op : {"set_first_address"}, address : AnyAddress]
          \cup [op : {"last_block_hash", "transactions"}, to : Nat]
          \cup [op : {"import"}, to : Nat, hash : AnyHash, height : Heights]
          \cup [op : {"response"}, call : Call]
          \cup [op : {"check"}, address : AnyAddress, balance : Nat]
          \cup [op : {"remove", "desync"}]

\* The tab: its handler, how far it is, the fields of the page.
Page == [handler : Nat, state : {"closed", "loading", "ready"}, firstAddress : AnyAddress,
         last_block_hash : AnyHash, counter : Nat, balance_received : BOOLEAN,
         shown : SUBSET Txs]
NewPage(handler, state, address) ==
    [handler |-> handler, state |-> state, firstAddress |-> address,
     last_block_hash |-> Unknown, counter |-> 0, balance_received |-> FALSE,
     shown |-> {}]

NoReload == <<>>
Gap == SUBSET {"moved", "disturbed", "failed"}

TypeOK ==
    /\ uiQueue \in Seq(UiTask)
    /\ dbQueue \in Seq(DbTask)
    /\ ui_requests_ \in [Calls -> Call \cup {NoCall}]
    /\ db_wallet_first_address_ \in AnyAddress
    /\ dbOpen \in AnyAddress
    /\ files \in [Addresses -> Files]
    /\ reloading \in {NoReload} \cup {<<a>> : a \in AnyAddress}
    /\ is_qa_ \in BOOLEAN
    /\ first_address_ \in AnyAddress
    /\ java \in [BOOLEAN -> AnyAddress]
    /\ page \in Page
    /\ height \in [Txs -> Heights] /\ top \in Heights
    /\ gaps \in [Addresses -> Gap]
    /\ raced \in BOOLEAN
    /\ used \in [reorgs : Nat, changes : Nat, faults : Nat, restarts : Nat]

\* StartWalletModules: the database path, then WalletManager::start, which reads is_qa_ from
\* the Java side and reloads.
Init ==
    /\ java \in {f \in [BOOLEAN -> AnyAddress] :
                    \A qa \in BOOLEAN : f[qa] \in OfNetwork(qa) \cup {NoAddress}}
    /\ is_qa_ = FALSE
    /\ first_address_ = java[is_qa_]
    /\ uiQueue = <<>>
    /\ dbQueue = <<[op |-> "set_first_address", address |-> first_address_]>>
    /\ ui_requests_ = [c \in Calls |-> NoCall]
    /\ db_wallet_first_address_ = NoAddress /\ dbOpen = NoAddress
    /\ files = [a \in Addresses |-> NewFile]
    /\ reloading = NoReload
    /\ page = NewPage(0, "closed", NoAddress)
    /\ height = [t \in Txs |-> 0] /\ top = 0
    /\ gaps = [a \in Addresses |-> {}]
    /\ raced = FALSE
    /\ used = [reorgs |-> 0, changes |-> 0, faults |-> 0, restarts |-> 0]

PostUi(task) == uiQueue' = Append(uiQueue, task)
PostDb(task) == dbQueue' = Append(dbQueue, task)
Spend(what) == used' = [used EXCEPT ![what] = @ + 1]

-----------------------------------------------------------------------------
(* The explorer (external) *)

Listed(a) == {t \in Txs : t[1] = a /\ height[t] > 0}
Before(h, s, t) == h[s] < h[t] \/ (h[s] = h[t] /\ s[2] < t[2])
After(a, from) == {t \in Listed(a) : from = NoTx \/ Before(height, from, t)}

\* The first MAX_TRANSACTIONS of those transactions, with their heights.
FirstOf(S) ==
    [t \in {u \in S : Cardinality({s \in S : Before(height, s, u)}) < MAX_TRANSACTIONS}
        |-> height[t]]

\* A database task or a call that belongs to an import of this wallet.
ImportUnderWay(a) ==
    \/ \E c \in Calls : ui_requests_[c] # NoCall /\ ui_requests_[c].address = a
    \/ \E i \in DOMAIN uiQueue : uiQueue[i].op = "request" /\ uiQueue[i].call.address = a
    \/ \E i \in DOMAIN dbQueue : dbQueue[i].op = "response" /\ dbQueue[i].call.address = a

\* What the next chain, the present one up to block k and transactions at the heights h,
\* means for a file.  Stored transactions that are above k, or whose height changes, have
\* "moved"; the next import sees to it, as it goes back to the last confirmed one.  That is
\* too late ("disturbed") when by the stored heights one of them counts as confirmed by
\* then, and while an import is under way.
GapsAfter(a, h, k) ==
    LET rows      == files[a].rows
        touched   == {t \in DOMAIN rows : rows[t] > k \/ height[t] > k \/ h[t] # height[t]}
        confirmed == {t \in DOMAIN rows : top + 1 - rows[t] >= CONFIRMATIONS}
        settling  == {t \in confirmed : top - rows[t] < CONFIRMATIONS}
        moved     == touched # {} \/ "moved" \in gaps[a]
        tooLate   == \/ ImportUnderWay(a) /\ (k < top \/ touched # {})
                     \/ touched \cap confirmed # {}
                     \/ moved /\ settling # {}
    IN  gaps[a] \cup (IF moved THEN {"moved"} ELSE {}) \cup (IF tooLate THEN {"disturbed"} ELSE {})

NewChain(h, k) ==
    /\ top < MaxTop
    /\ height' = h /\ top' = top + 1
    /\ gaps' = [a \in Addresses |-> GapsAfter(a, h, k)]
    /\ UNCHANGED <<uiQueue, dbQueue, ui_requests_, walletVars, db_wallet_first_address_,
                   dbOpen, files, reloading, page>>

\* A block, with some of the transactions that are in none.
NewBlock(S) ==
    /\ \A t \in S : height[t] = 0
    /\ NewChain([t \in Txs |-> IF t \in S THEN top + 1 ELSE height[t]], top)
    /\ UNCHANGED used

\* A longer branch replaces the blocks above k.  Transactions that are CONFIRMATIONS
\* deep stay; the others may move, or vanish.
Reorganize(k, h) ==
    /\ used.reorgs < MaxReorgs /\ Spend("reorgs")
    /\ k < top /\ top - (k + 1) < CONFIRMATIONS
    /\ \A t \in Txs : IF height[t] > k THEN h[t] = 0 \/ h[t] \in (k + 1) .. (top + 1)
                                       ELSE h[t] = height[t]
    /\ NewChain(h, k)

\* The explorer answers.  What it says about a txid that it does not know is open: an
\* error, or the list from its beginning.
Serve(c) ==
    /\ ui_requests_[c] # NoCall /\ ui_requests_[c].status = "asked"
    /\ LET call  == ui_requests_[c]
           known == call.from = NoTx \/ call.from \in Listed(call.address)
           start == IF known THEN call.from ELSE NoTx
       IN  \/ ui_requests_' = [ui_requests_ EXCEPT ![c] =
                 [call EXCEPT !.status = "listed", !.data = FirstOf(After(call.address, start))]]
              /\ UNCHANGED used
           \/ /\ known => used.faults < MaxFaults
              /\ ui_requests_' = [ui_requests_ EXCEPT ![c] = [call EXCEPT !.status = "failed"]]
              /\ IF known THEN Spend("faults") ELSE UNCHANGED used
    /\ UNCHANGED <<uiQueue, dbQueue, walletVars, dbVars, page, chainVars>>

-----------------------------------------------------------------------------
(* WalletManager, on the UI thread: called by the page *)

\* reload_wallet, here on the UI thread: is_qa_ and java as they are after the step.
reload_wallet ==
    /\ first_address_' = java'[is_qa_']
    /\ PostDb([op |-> "set_first_address", address |-> first_address_'])
    /\ raced' = (raced \/ reloading # NoReload)

\* What every call of the page that changes the wallet has in common.
WalletChange ==
    /\ page.state # "closed"
    /\ used.changes < MaxChanges /\ Spend("changes")
    /\ UNCHANGED <<uiQueue, ui_requests_, dbVars, page, chainVars>>

\* store_wallet.  With a wallet there already, its database is removed first.
local_set_wallet(a) ==
    /\ a \in OfNetwork(is_qa_)
    /\ java' = [java EXCEPT ![is_qa_] = a]
    /\ UNCHANGED is_qa_
    /\ IF first_address_ # NoAddress
       THEN PostDb([op |-> "remove"]) /\ UNCHANGED <<first_address_, raced>>
       ELSE reload_wallet
    /\ WalletChange

local_reset_wallet ==
    /\ java' = [qa \in BOOLEAN |-> NoAddress]
    /\ UNCHANGED is_qa_
    /\ reload_wallet
    /\ WalletChange

\* The session is restarted as well, which is not part of this module.
local_toggle ==
    /\ is_qa_' = ~is_qa_
    /\ UNCHANGED java
    /\ reload_wallet
    /\ WalletChange

local_desync ==
    /\ PostDb([op |-> "desync"])
    /\ UNCHANGED walletVars
    /\ WalletChange

-----------------------------------------------------------------------------
(* The page *)

\* chrome://wallet is opened, or loaded again, as after each change of the wallet; is_wallet
\* is answered at once.  A new page has a new handler.
PageLoad ==
    /\ page.handler < MaxLoads
    /\ LET handler == page.handler + 1
       IN  IF first_address_ = NoAddress
           THEN /\ page' = NewPage(handler, "loading", NoAddress)
                /\ UNCHANGED dbQueue
           ELSE /\ page' = NewPage(handler, "loading", first_address_)
                /\ PostDb([op |-> "last_block_hash", to |-> handler])
    /\ UNCHANGED <<uiQueue, ui_requests_, walletVars, dbVars, chainVars, used>>

\* The explorer's answer to w/balance.  A new hash means an import, an old one sometimes a
\* check (not while the mempool has a transaction of the wallet, which is as if there were
\* no answer).  The first answer shows the list, unless an import is about to.  That the
\* answer is old when it is looked at is in the time its task waits in dbQueue.
process_balance ==
    /\ page.state = "ready" /\ Len(dbQueue) + Len(uiQueue) < MaxQueue
    /\ LET new      == page.last_block_hash # top
           import   == [op |-> "import", to |-> page.handler, hash |-> top, height |-> top]
           check    == [op |-> "check", address |-> page.firstAddress,
                        balance |-> Cardinality(Listed(page.firstAddress))]
           received == page.balance_received \/ (new /\ page.last_block_hash = Missing)
       IN  /\ dbQueue' = dbQueue
                \o (IF new THEN <<import>> ELSE IF page.counter = 0 THEN <<check>> ELSE <<>>)
                \o (IF received THEN <<>>
                                ELSE <<[op |-> "transactions", to |-> page.handler]>>)
           /\ page' = [page EXCEPT !.last_block_hash = top, !.balance_received = TRUE,
                                   !.counter = IF new THEN @ ELSE (@ + 1) % CHECK_EVERY]
    /\ UNCHANGED <<uiQueue, ui_requests_, walletVars, dbVars, chainVars, used>>

-----------------------------------------------------------------------------
(* The UI thread: its tasks, and the replies *)

UiTurn(op) == uiQueue # <<>> /\ Head(uiQueue).op = op /\ uiQueue' = Tail(uiQueue)

ui_transaction_request(c) ==
    /\ UiTurn("request")
    /\ ui_requests_[c] = NoCall
    /\ ui_requests_' = [ui_requests_ EXCEPT ![c] = Head(uiQueue).call]
    /\ UNCHANGED <<dbQueue, walletVars, dbVars, page, chainVars, used>>

ui_transactions_response(c) ==
    /\ ui_requests_[c] # NoCall /\ ui_requests_[c].status # "asked"
    /\ ui_requests_' = [ui_requests_ EXCEPT ![c] = NoCall]
    /\ PostDb([op |-> "response", call |-> ui_requests_[c]])
    /\ UNCHANGED <<uiQueue, walletVars, dbVars, page, chainVars, used>>

\* An event reaches the page only while its handler is registered.
process_results_to_js ==
    /\ \/ /\ UiTurn("last_block_hash")
          /\ UNCHANGED dbQueue
          /\ page' = IF Head(uiQueue).to # page.handler THEN page
                     ELSE [page EXCEPT !.last_block_hash = Head(uiQueue).hash, !.state = "ready"]
       \/ /\ UiTurn("imported")
          /\ UNCHANGED page
          /\ IF Head(uiQueue).to = page.handler /\ Head(uiQueue).reload
             THEN PostDb([op |-> "transactions", to |-> page.handler])
             ELSE UNCHANGED dbQueue
       \/ /\ UiTurn("transactions")
          /\ UNCHANGED dbQueue
          /\ page' = IF Head(uiQueue).to # page.handler THEN page
                     ELSE [page EXCEPT !.shown = Head(uiQueue).shown]
    /\ UNCHANGED <<ui_requests_, walletVars, dbVars, chainVars, used>>

\* Mutant: the page is not told that its last_block_hash is void.
process_results_to_js_broadcast_Lost ==
    /\ UiTurn("reset_last_block_hash")
    /\ UNCHANGED <<page, dbQueue, ui_requests_, walletVars, dbVars, chainVars, used>>

process_results_to_js_broadcast ==
    /\ UiTurn("reset_last_block_hash")
    /\ page' = [page EXCEPT !.last_block_hash = Unknown]
    /\ UNCHANGED <<dbQueue, ui_requests_, walletVars, dbVars, chainVars, used>>

-----------------------------------------------------------------------------
(* The database sequence *)

DbTurn(op) == reloading = NoReload /\ dbQueue # <<>> /\ Head(dbQueue).op = op
Done == dbQueue' = Tail(dbQueue)

OpenRows == IF dbOpen = NoAddress THEN NoRows ELSE files[dbOpen].rows
OpenHash == IF dbOpen = NoAddress THEN Missing ELSE files[dbOpen].hash

\* What a database task may leave as the open file, and whether that used up a fault.
Opened(a) == IF a = NoAddress THEN {<<NoAddress, 0>>}
             ELSE {<<a, 0>>} \cup (IF DiskFaults /\ used.faults < MaxFaults
                                   THEN {<<NoAddress, 1>>} ELSE {})

create_database_if_not_exists(a) ==
    \E open \in Opened(a) :
        dbOpen' = open[1] /\ used' = [used EXCEPT !.faults = @ + open[2]]

\* The file goes, with what was missing from it, but replies may be on their way.
Removed(a) ==
    /\ files' = [files EXCEPT ![a] = NewFile]
    /\ gaps' = [gaps EXCEPT ![a] = IF ImportUnderWay(a) THEN {"disturbed"} ELSE {}]

\* base::DeleteFile may fail.
remove_database(a) ==
    \/ Removed(a)
    \/ DiskFaults /\ UNCHANGED <<files, gaps>>

db_set_first_address ==
    /\ DbTurn("set_first_address") /\ Done
    /\ db_wallet_first_address_' = Head(dbQueue).address
    /\ create_database_if_not_exists(Head(dbQueue).address)
    /\ UNCHANGED <<uiQueue, ui_requests_, walletVars, files, reloading, gaps, page, chainVars>>

db_get_last_block_hash ==
    /\ DbTurn("last_block_hash") /\ Done
    /\ PostUi([op |-> "last_block_hash", to |-> Head(dbQueue).to, hash |-> OpenHash])
    /\ UNCHANGED <<ui_requests_, walletVars, dbVars, page, chainVars, used>>

db_get_transactions ==
    /\ DbTurn("transactions") /\ Done
    /\ PostUi([op |-> "transactions", to |-> Head(dbQueue).to, shown |-> DOMAIN OpenRows])
    /\ UNCHANGED <<ui_requests_, walletVars, dbVars, page, chainVars, used>>

\* Mutant: the highest transaction, confirmed or not.
get_last_confirmed_txid_Any(current_height) ==
    LET known == DOMAIN OpenRows
    IN  IF known = {} THEN {NoTx}
        ELSE {t \in known : \A s \in known : OpenRows[s] <= OpenRows[t]}

\* The highest of the transactions that are confirmed at this height.  Those of one block
\* have the time of the block, so which of them comes first is open.
get_last_confirmed_txid(current_height) ==
    LET confirmed == {t \in DOMAIN OpenRows : current_height - OpenRows[t] >= CONFIRMATIONS}
    IN  IF confirmed = {} THEN {NoTx}
        ELSE {t \in confirmed : \A s \in confirmed : OpenRows[s] <= OpenRows[t]}

Ask(from, to, hash) ==
    [op |-> "request",
     call |-> [address |-> db_wallet_first_address_, from |-> from, to |-> to, hash |-> hash,
               status |-> "asked", data |-> NoRows]]

\* check_block_hash, and db_request for a hash that is not the stored one; with no wallet
\* the tab gets no answer.
check_block_hash ==
    /\ DbTurn("import") /\ Done
    /\ LET task == Head(dbQueue)
       IN  IF OpenHash = task.hash
           THEN PostUi([op |-> "imported", to |-> task.to, reload |-> FALSE])
           ELSE IF db_wallet_first_address_ = NoAddress
           THEN UNCHANGED uiQueue
           ELSE \E from \in get_last_confirmed_txid(task.height) :
                    PostUi(Ask(from, task.to, task.hash))
    /\ UNCHANGED <<ui_requests_, walletVars, dbVars, page, chainVars, used>>

\* Mutant: a transaction is taken twice, its heights added up.
Merged_Added(rows, data) ==
    [t \in DOMAIN rows \cup DOMAIN data |->
        IF t \notin DOMAIN data THEN rows[t]
        ELSE IF t \in DOMAIN rows THEN rows[t] + data[t] ELSE data[t]]

Merged(rows, data) ==
    [t \in DOMAIN rows \cup DOMAIN data |-> IF t \in DOMAIN data THEN data[t] ELSE rows[t]]
LastOf(data) == {t \in DOMAIN data : \A s \in DOMAIN data \ {t} : Before(data, s, t)}

\* Mutant: every page stores the block hash.
AfterReply_EveryPage(file, call, full) ==
    [rows |-> Merged(file.rows, call.data), hash |-> call.hash]

\* What the reply to call leaves in the open file: a full page asks for the next one; the
\* last, or an error, stores the block hash.
AfterReply(file, call, full) ==
    [rows |-> Merged(file.rows, call.data), hash |-> IF full THEN file.hash ELSE call.hash]

\* Mutant: no comparison with the wallet that the call was for.
db_transactions_response_NoCompare ==
    /\ DbTurn("response") /\ Done
    /\ LET call == Head(dbQueue).call
           full == Cardinality(DOMAIN call.data) = MAX_TRANSACTIONS
       IN  /\ IF dbOpen = NoAddress THEN UNCHANGED files
              ELSE files' = [files EXCEPT ![dbOpen] = AfterReply(@, call, full)]
           /\ IF full
              THEN \E last \in LastOf(call.data) : PostUi(Ask(last, call.to, call.hash))
              ELSE PostUi([op |-> "imported", to |-> call.to, reload |-> TRUE])
    /\ UNCHANGED <<gaps, ui_requests_, walletVars, db_wallet_first_address_, dbOpen, reloading,
                   page, chainVars, used>>

\* With no file open a full page is lost, but the next one is asked for: a file that opens
\* by then gets what comes behind it.
db_transactions_response ==
    /\ DbTurn("response") /\ Done
    /\ LET call == Head(dbQueue).call
           full == Cardinality(DOMAIN call.data) = MAX_TRANSACTIONS
           a    == db_wallet_first_address_
       IN  IF call.address # a
           THEN UNCHANGED <<uiQueue, files, gaps>>
           ELSE /\ IF dbOpen = NoAddress
                   THEN /\ gaps' = [gaps EXCEPT ![a] = IF full THEN @ \cup {"disturbed"} ELSE @]
                        /\ UNCHANGED files
                   ELSE /\ files' = [files EXCEPT ![dbOpen] = AfterReply(@, call, full)]
                        /\ gaps' = [gaps EXCEPT ![dbOpen] =
                               IF full THEN @
                               ELSE IF call.status = "failed" THEN @ \cup {"failed"}
                               ELSE @ \ {"failed", "moved"}]
                /\ IF full
                   THEN \E last \in LastOf(call.data) : PostUi(Ask(last, call.to, call.hash))
                   ELSE PostUi([op |-> "imported", to |-> call.to, reload |-> TRUE])
    /\ UNCHANGED <<ui_requests_, walletVars, db_wallet_first_address_, dbOpen, reloading,
                   page, chainVars, used>>

\* is_resync_allowed wants a database without transactions of the last 30 minutes, so
\* whether a file that has any may be recreated is open.
differs(task) ==
    /\ dbOpen # NoAddress
    /\ task.address = db_wallet_first_address_
    /\ task.balance # Cardinality(DOMAIN OpenRows)

Recreate ==
    /\ DbTurn("check") /\ differs(Head(dbQueue)) /\ Done
    /\ remove_database(db_wallet_first_address_)
    /\ create_database_if_not_exists(db_wallet_first_address_)
    /\ PostUi([op |-> "reset_last_block_hash"])
    /\ UNCHANGED <<ui_requests_, walletVars, db_wallet_first_address_, reloading, page, chainVars>>

db_check_transactions ==
    \/ Recreate
    \/ /\ DbTurn("check") /\ (differs(Head(dbQueue)) => OpenRows # NoRows) /\ Done
       /\ UNCHANGED <<uiQueue, ui_requests_, walletVars, dbVars, page, chainVars, used>>

\* db_remove_database: it goes on with on_remove_database, here up to what reload_wallet
\* reads of the Java side.
db_remove_database ==
    /\ DbTurn("remove")
    /\ IF db_wallet_first_address_ = NoAddress
       THEN UNCHANGED <<files, gaps, dbOpen>>
       ELSE remove_database(db_wallet_first_address_) /\ dbOpen' = NoAddress
    /\ reloading' = <<java[is_qa_]>>
    /\ UNCHANGED <<uiQueue, dbQueue, ui_requests_, walletVars, db_wallet_first_address_,
                   page, chainVars, used>>

\* Mutant: the tab is answered, the wallet not reloaded.
on_remove_database_NoReload ==
    /\ reloading # NoReload /\ reloading' = NoReload
    /\ Done
    /\ UNCHANGED <<uiQueue, ui_requests_, walletVars, db_wallet_first_address_,
                   dbOpen, files, gaps, page, chainVars, used>>

\* The rest of reload_wallet, and with it of the task, still on the database sequence.
on_remove_database ==
    /\ reloading # NoReload /\ reloading' = NoReload
    /\ first_address_' = reloading[1]
    /\ dbQueue' = Append(Tail(dbQueue),
                         [op |-> "set_first_address", address |-> reloading[1]])
    /\ UNCHANGED <<uiQueue, ui_requests_, is_qa_, java, raced, db_wallet_first_address_,
                   dbOpen, files, gaps, page, chainVars, used>>

\* The amounts decide which transactions are deleted.
db_desync ==
    /\ DbTurn("desync") /\ Done
    /\ IF dbOpen = NoAddress THEN UNCHANGED <<files, gaps>>
       ELSE \E kept \in SUBSET DOMAIN OpenRows :
              /\ files' = [files EXCEPT ![dbOpen].rows = [t \in kept |-> OpenRows[t]]]
              /\ gaps' = [gaps EXCEPT ![dbOpen] = @ \cup {"disturbed"}]
    /\ UNCHANGED <<uiQueue, ui_requests_, walletVars, db_wallet_first_address_, dbOpen,
                   reloading, page, chainVars, used>>

\* The browser ends, by ui_stop or because the system ends it, and starts again: files, the
\* Java side and the explorer are what is left.  It may end in db_transactions_response, when
\* the transactions are committed and the hash is not.
Restart ==
    /\ used.restarts < MaxRestarts /\ Spend("restarts")
    /\ \/ UNCHANGED files
       \/ /\ DbTurn("response") /\ dbOpen # NoAddress
          /\ LET call == Head(dbQueue).call
             IN  /\ call.address = db_wallet_first_address_
                 /\ files' = [files EXCEPT ![dbOpen].rows = Merged(@, call.data)]
    /\ first_address_' = java[is_qa_]
    /\ uiQueue' = <<>>
    /\ dbQueue' = <<[op |-> "set_first_address", address |-> java[is_qa_]]>>
    /\ ui_requests_' = [c \in Calls |-> NoCall]
    /\ db_wallet_first_address_' = NoAddress /\ dbOpen' = NoAddress
    /\ reloading' = NoReload
    /\ page' = NewPage(0, "closed", NoAddress)
    /\ raced' = FALSE
    /\ UNCHANGED <<is_qa_, java, chainVars, gaps>>

-----------------------------------------------------------------------------
(* The specification *)

Explorer ==
    \/ \E S \in SUBSET Txs : NewBlock(S)
    \/ \E k \in Heights : \E h \in [Txs -> Heights] : Reorganize(k, h)

WalletCalls ==
    \/ \E a \in Addresses : local_set_wallet(a)
    \/ local_reset_wallet
    \/ local_toggle
    \/ local_desync

UiStep ==
    \/ \E c \in Calls : ui_transaction_request(c) \/ ui_transactions_response(c)
    \/ process_results_to_js
    \/ process_results_to_js_broadcast

DbStep ==
    \/ db_set_first_address
    \/ db_get_last_block_hash
    \/ db_get_transactions
    \/ check_block_hash
    \/ db_transactions_response
    \/ db_check_transactions
    \/ db_remove_database \/ on_remove_database
    \/ db_desync

Next ==
    \/ Explorer \/ (\E c \in Calls : Serve(c))
    \/ WalletCalls \/ PageLoad \/ process_balance
    \/ UiStep \/ DbStep
    \/ Restart

Spec == Init /\ [][Next]_vars

\* Both sequences run their tasks, a page that is open polls, calls are answered.
\* Of checks that find a difference one comes when 30 minutes have passed.  Nothing is
\* assumed of the user or of the chain.
FairSpec ==
    /\ Spec
    /\ WF_vars(UiStep) /\ WF_vars(DbStep)
    /\ WF_vars(process_balance)
    /\ \A c \in Calls : WF_vars(Serve(c))
    /\ SF_vars(Recreate)

-----------------------------------------------------------------------------
(* Properties *)

\* A late reply never ends up in the database of another wallet: each file holds
\* transactions of its own wallet only, whatever was changed while a call was on its way
\* (the comparison of wallet_first_address in db_transactions_response).
RowsAreOwn == \A a \in Addresses : \A t \in DOMAIN files[a].rows : t[1] = a

\* An import never begins behind a transaction that is not stored: whatever
\* get_last_confirmed_txid may pick in a file, all that the explorer lists before it is
\* there.  A reorganisation is made good by the next import, one that fails is resumed.
\* What may break this is a database that is recreated or cannot be opened during an import,
\* desync, and a branch during an import or one that is not imported before it is
\* CONFIRMATIONS deep.
ResumePointSound ==
    \A a \in Addresses : "disturbed" \notin gaps[a] =>
        LET rows      == files[a].rows
            confirmed == {t \in DOMAIN rows : top - rows[t] >= CONFIRMATIONS}
        IN  \A t \in confirmed : \A u \in Listed(a) : height[t] > 0 /\ Before(height, u, t)
                                                        => u \in DOMAIN rows

\* The stored hash means what the page takes it for: when it is that of the last block,
\* nothing is left to import.  Except, that is, after one of the events above, or when an
\* import failed, which stores the hash all the same.
HashMeansImported ==
    \A a \in Addresses :
        files[a].hash = top /\ gaps[a] = {} => Listed(a) \subseteq DOMAIN files[a].rows

\* The database after imports: an import resumes behind nothing that is missing, and a stored
\* hash means that all is imported (db_transactions_response).
ImportIsSound == ResumePointSound /\ HashMeansImported

\* Once changes have been worked off, both threads are at the wallet that the Java side has
\* for the network: as long as the UI thread reloads nothing while the database sequence is
\* in on_remove_database.
Settling == \E i \in DOMAIN dbQueue : dbQueue[i].op \in {"set_first_address", "remove"}
TheRightWallet ==
    ~Settling /\ ~raced =>
        db_wallet_first_address_ = java[is_qa_] /\ first_address_ = java[is_qa_]

\* The page shows, in the end, as many coins as the explorer has, however often replies
\* failed, imports were overtaken or transactions were lost: the check finds it and has
\* everything imported again.  If, that is, polls are far enough apart for an import to end
\* between two of them, and the database can be opened.
Idle == /\ uiQueue = <<>> /\ dbQueue = <<>> /\ reloading = NoReload
        /\ \A c \in Calls : ui_requests_[c] = NoCall
PatientPoll == process_balance => Idle
Right == /\ Cardinality(DOMAIN OpenRows) = Cardinality(Listed(dbOpen))
         /\ page.shown = DOMAIN OpenRows
EventuallyRight ==
    <>[][PatientPoll]_vars
        => <>[](page.state = "ready" /\ page.firstAddress = dbOpen => Right)

=============================================================================
