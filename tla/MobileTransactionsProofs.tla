---------------------- MODULE MobileTransactionsProofs ----------------------
(***************************************************************************)
(* Proofs about MobileTransactions, for any number of wallets, transactions *)
(* and calls, any number of confirmations and any bounds.                   *)
(***************************************************************************)
EXTENDS MobileTransactions, FiniteSetTheorems, SequenceTheorems, TLAPS

-----------------------------------------------------------------------------
(* The task queues *)

Tasks(queue) == {queue[i] : i \in DOMAIN queue}

\* Posting a task adds it, running the one at the head takes it away.
LEMMA TasksAppend ==
    ASSUME NEW S, NEW s \in Seq(S), NEW e \in S
    PROVE  Append(s, e) \in Seq(S) /\ Tasks(Append(s, e)) = Tasks(s) \cup {e}
<1> DEFINE t == Append(s, e)
<1>1. /\ t \in Seq(S)
      /\ DOMAIN s = 1 .. Len(s) /\ DOMAIN t = 1 .. Len(s) + 1 /\ Len(s) \in Nat
      /\ \A i \in 1 .. Len(s) : t[i] = s[i]
      /\ t[Len(s) + 1] = e
  OBVIOUS
<1> HIDE DEF t
<1>2. Tasks(t) \subseteq Tasks(s) \cup {e}
  BY <1>1 DEF Tasks
<1>3. Tasks(s) \subseteq Tasks(t) /\ e \in Tasks(t)
  <2>1. 1 .. Len(s) \subseteq 1 .. Len(s) + 1 /\ Len(s) + 1 \in 1 .. Len(s) + 1
    BY <1>1
  <2> QED  BY <1>1, <2>1 DEF Tasks
<1> QED  BY <1>1, <1>2, <1>3 DEF t

LEMMA TasksTail ==
    ASSUME NEW S, NEW s \in Seq(S), s # <<>>
    PROVE  /\ Head(s) \in S /\ Head(s) \in Tasks(s)
           /\ Tail(s) \in Seq(S) /\ Tasks(Tail(s)) \subseteq Tasks(s)
<1> DEFINE t == Tail(s)
<1>1. /\ Head(s) \in S /\ t \in Seq(S)
      /\ Len(s) \in Nat \ {0}
      /\ DOMAIN s = 1 .. Len(s) /\ DOMAIN t = 1 .. Len(s) - 1
      /\ \A i \in 1 .. Len(s) - 1 : t[i] = s[i + 1]
      /\ Head(s) = s[1]
  BY HeadTailProperties, EmptySeq
<1> HIDE DEF t
<1>2. 1 \in 1 .. Len(s) /\ \A i \in 1 .. Len(s) - 1 : i + 1 \in 1 .. Len(s)
  BY <1>1
<1>3. Head(s) \in Tasks(s)
  BY <1>1, <1>2 DEF Tasks
<1>4. Tasks(t) \subseteq Tasks(s)
  BY <1>1, <1>2 DEF Tasks
<1> QED  BY <1>1, <1>3, <1>4 DEF t

\* What the tasks carry.
LEMMA DbTaskTyped ==
    ASSUME NEW task \in DbTask
    PROVE  /\ task.op = "set_first_address" => task.address \in AnyAddress
           /\ task.op \in {"last_block_hash", "transactions", "import"} => task.to \in Nat
           /\ task.op = "import" => task.hash \in AnyHash /\ task.height \in Heights
           /\ task.op = "response" => task.call \in Call
           /\ task.op = "check" => task.address \in AnyAddress /\ task.balance \in Nat
BY DEF DbTask

LEMMA UiTaskTyped ==
    ASSUME NEW task \in UiTask
    PROVE  /\ task.op = "request" => task.call \in Call
           /\ task.op = "last_block_hash" => task.to \in Nat /\ task.hash \in AnyHash
           /\ task.op = "imported" => task.to \in Nat /\ task.reload \in BOOLEAN
           /\ task.op = "transactions" => task.to \in Nat /\ task.shown \in SUBSET Txs
BY DEF UiTask

\* The task at the head of a queue, and what running it leaves.
LEMMA DbHead ==
    ASSUME TypeOK, NEW op, DbTurn(op)
    PROVE  /\ Head(dbQueue) \in DbTask /\ Head(dbQueue) \in Tasks(dbQueue)
           /\ Head(dbQueue).op = op
           /\ Tail(dbQueue) \in Seq(DbTask) /\ Tasks(Tail(dbQueue)) \subseteq Tasks(dbQueue)
BY TasksTail DEF TypeOK, DbTurn

LEMMA UiHead ==
    ASSUME TypeOK, NEW op, UiTurn(op)
    PROVE  /\ Head(uiQueue) \in UiTask /\ Head(uiQueue) \in Tasks(uiQueue)
           /\ Head(uiQueue).op = op
           /\ uiQueue' \in Seq(UiTask) /\ Tasks(uiQueue') \subseteq Tasks(uiQueue)
BY TasksTail DEF TypeOK, UiTurn

LEMMA PostUiTyped ==
    ASSUME TypeOK, NEW task \in UiTask, PostUi(task)
    PROVE  uiQueue' \in Seq(UiTask) /\ Tasks(uiQueue') = Tasks(uiQueue) \cup {task}
BY TasksAppend DEF TypeOK, PostUi

LEMMA PostDbTyped ==
    ASSUME TypeOK, NEW task \in DbTask, PostDb(task)
    PROVE  dbQueue' \in Seq(DbTask) /\ Tasks(dbQueue') = Tasks(dbQueue) \cup {task}
BY TasksAppend DEF TypeOK, PostDb

-----------------------------------------------------------------------------
(* Rows and files *)

LEMMA RowSetsIntro ==
    ASSUME NEW S \in SUBSET Txs, NEW r \in [S -> Heights]
    PROVE  r \in RowSets
BY DEF RowSets

LEMMA RowSetsElim ==
    ASSUME NEW r \in RowSets
    PROVE  DOMAIN r \in SUBSET Txs /\ r \in [DOMAIN r -> Heights]
BY DEF RowSets

LEMMA NoRowsTyped == NoRows \in RowSets /\ DOMAIN NoRows = {}
<1>1. NoRows \in [{} -> Heights] /\ {} \in SUBSET Txs
  BY DEF NoRows
<1> QED  BY <1>1, RowSetsIntro DEF NoRows

LEMMA NewFileTyped == NewFile \in Files
BY NoRowsTyped DEF NewFile, Files, AnyHash

LEMMA MergedTyped ==
    ASSUME NEW rows \in RowSets, NEW data \in RowSets
    PROVE  /\ Merged(rows, data) \in RowSets
           /\ DOMAIN Merged(rows, data) = DOMAIN rows \cup DOMAIN data
<1> DEFINE S == DOMAIN rows \cup DOMAIN data
<1>1. S \in SUBSET Txs
  BY RowSetsElim
<1>2. \A t \in S : IF t \in DOMAIN data THEN data[t] \in Heights ELSE rows[t] \in Heights
  BY RowSetsElim
<1>3. Merged(rows, data) \in [S -> Heights]
  BY <1>2 DEF Merged
<1> QED  BY <1>1, <1>3, RowSetsIntro

LEMMA AfterReplyTyped ==
    ASSUME NEW file \in Files, NEW call \in Call, NEW full \in BOOLEAN
    PROVE  /\ AfterReply(file, call, full) \in Files
           /\ DOMAIN AfterReply(file, call, full).rows = DOMAIN file.rows \cup DOMAIN call.data
BY MergedTyped DEF AfterReply, Files, Call

LEMMA OpenTyped ==
    ASSUME TypeOK
    PROVE  OpenRows \in RowSets /\ OpenHash \in AnyHash
<1>1. CASE dbOpen = NoAddress
  BY <1>1, NoRowsTyped DEF OpenRows, OpenHash, AnyHash
<1>2. CASE dbOpen # NoAddress
  BY <1>2 DEF TypeOK, AnyAddress, Files, OpenRows, OpenHash
<1> QED  BY <1>1, <1>2

\* Finitely many transactions are in the chain.
LEMMA ListedFinite ==
    ASSUME NEW a
    PROVE  Listed(a) \subseteq Txs /\ Cardinality(Listed(a)) \in Nat
<1>1. IsFiniteSet(1 .. TxCount)
  BY FS_Interval, ConstantsAssumption
<1>2. IsFiniteSet(Txs)
  BY <1>1, FS_Product, ConstantsAssumption DEF Txs
<1>3. Listed(a) \subseteq Txs
  BY DEF Listed
<1> QED  BY <1>2, <1>3, FS_Subset, FS_CardinalityType

-----------------------------------------------------------------------------
(* What the steps have in common *)

LEMMA SpendTyped ==
    ASSUME TypeOK, NEW what \in {"reorgs", "changes", "faults", "restarts"}, Spend(what)
    PROVE  used' \in [reorgs : Nat, changes : Nat, faults : Nat, restarts : Nat]
<1>1. used[what] + 1 \in Nat
  BY DEF TypeOK
<1> QED  BY <1>1 DEF TypeOK, Spend

\* Opening a database opens that one or none.
LEMMA CreateTyped ==
    ASSUME TypeOK, NEW a \in AnyAddress, create_database_if_not_exists(a)
    PROVE  /\ dbOpen' \in {NoAddress, a} /\ dbOpen' \in AnyAddress
           /\ used' \in [reorgs : Nat, changes : Nat, faults : Nat, restarts : Nat]
<1>1. PICK open \in Opened(a) : dbOpen' = open[1] /\ used' = [used EXCEPT !.faults = @ + open[2]]
  BY DEF create_database_if_not_exists
<1>2. open[1] \in {NoAddress, a} /\ open[2] \in {0, 1}
  BY DEF Opened
<1>3. used.faults + open[2] \in Nat
  BY <1>2 DEF TypeOK
<1> QED  BY <1>1, <1>2, <1>3 DEF TypeOK, AnyAddress

\* Deleting a database adds no transactions to any.
LEMMA RemoveTyped ==
    ASSUME TypeOK, NEW a, remove_database(a)
    PROVE  /\ files' \in [Addresses -> Files] /\ gaps' \in [Addresses -> Gap]
           /\ \A b \in Addresses : DOMAIN files'[b].rows \subseteq DOMAIN files[b].rows
<1>1. CASE UNCHANGED <<files, gaps>>
  BY <1>1 DEF TypeOK
<1>2. CASE Removed(a)
  <2>1. files' \in [Addresses -> Files]
    BY <1>2, NewFileTyped DEF Removed, TypeOK
  <2>2. gaps' \in [Addresses -> Gap]
    BY <1>2 DEF Removed, TypeOK, Gap
  <2>3. \A b \in Addresses : files'[b] = files[b] \/ files'[b] = NewFile
    BY <1>2 DEF Removed, TypeOK
  <2>4. DOMAIN NewFile.rows = {}
    BY NoRowsTyped DEF NewFile
  <2> QED  BY <2>1, <2>2, <2>3, <2>4
<1> QED  BY <1>1, <1>2 DEF remove_database

LEMMA NewChainTyped ==
    ASSUME TypeOK, NEW h \in [Txs -> Heights], NEW k, NewChain(h, k)
    PROVE  height' \in [Txs -> Heights] /\ top' \in Heights /\ gaps' \in [Addresses -> Gap]
<1>1. \A a \in Addresses : GapsAfter(a, h, k) \in Gap
  BY DEF GapsAfter, TypeOK, Gap
<1>2. top' \in Heights
  BY ConstantsAssumption DEF NewChain, TypeOK, Heights
<1> QED  BY <1>1, <1>2 DEF NewChain

\* A page of the explorer: listed transactions of the wallet that was asked for.
LEMMA FirstOfTyped ==
    ASSUME TypeOK, NEW a, NEW from
    PROVE  /\ FirstOf(After(a, from)) \in RowSets
           /\ \A t \in DOMAIN FirstOf(After(a, from)) : t[1] = a
<1> DEFINE S == After(a, from)
           R == {u \in S : Cardinality({s \in S : Before(height, s, u)}) < MAX_TRANSACTIONS}
<1>1. S \subseteq Txs /\ \A t \in S : t[1] = a
  BY DEF After, Listed
<1>2. R \in SUBSET Txs /\ \A t \in R : t[1] = a
  BY <1>1
<1>3. FirstOf(S) = [t \in R |-> height[t]]
  BY DEF FirstOf
<1> HIDE DEF S, R
<1>4. [t \in R |-> height[t]] \in [R -> Heights] /\ DOMAIN [t \in R |-> height[t]] = R
  BY <1>2 DEF TypeOK
<1>5. FirstOf(S) \in RowSets
  BY <1>2, <1>3, <1>4, RowSetsIntro
<1> QED  BY <1>2, <1>3, <1>4, <1>5 DEF S

LEMMA NewPageTyped ==
    ASSUME NEW handler \in Nat, NEW state \in {"closed", "loading", "ready"},
           NEW address \in AnyAddress
    PROVE  NewPage(handler, state, address) \in Page
BY DEF NewPage, Page, AnyHash

\* Only calls of a wallet are made.
LEMMA AskTyped ==
    ASSUME TypeOK, db_wallet_first_address_ # NoAddress, NEW from \in Txs \cup {NoTx},
           NEW to \in Nat, NEW hash \in AnyHash
    PROVE  /\ Ask(from, to, hash) \in UiTask /\ Ask(from, to, hash).op = "request"
           /\ DOMAIN Ask(from, to, hash).call.data = {}
<1>1. db_wallet_first_address_ \in Addresses
  BY DEF TypeOK, AnyAddress
<1>2. Ask(from, to, hash).call \in Call
  BY <1>1, NoRowsTyped DEF Ask, Call
<1> QED  BY <1>2, NoRowsTyped DEF Ask, UiTask

\* reload_wallet sets first_address_ to an address that the Java side may have.
LEMMA ReloadTyped ==
    ASSUME TypeOK, java' \in [BOOLEAN -> AnyAddress], is_qa_' \in BOOLEAN, reload_wallet
    PROVE  first_address_' \in AnyAddress /\ raced' \in BOOLEAN /\ dbQueue' \in Seq(DbTask)
           /\ dbQueue' = Append(dbQueue, [op |-> "set_first_address", address |-> java'[is_qa_']])
<1> DEFINE e == [op |-> "set_first_address", address |-> java'[is_qa_']]
<1>1. first_address_' = java'[is_qa_'] /\ java'[is_qa_'] \in AnyAddress
  BY DEF reload_wallet
<1>2. e \in DbTask
  BY <1>1 DEF DbTask
<1>3. PostDb(e)
  BY <1>1 DEF reload_wallet
<1>4. dbQueue' \in Seq(DbTask)
  BY <1>2, <1>3, PostDbTyped
<1> QED  BY <1>1, <1>3, <1>4 DEF reload_wallet, PostDb, TypeOK

-----------------------------------------------------------------------------
(* Types *)

\* While on_remove_database runs, the task it belongs to is the head of the queue.
HeadRuns == reloading # NoReload => dbQueue # <<>> /\ Head(dbQueue).op = "remove"

LEMMA TypeInit == Init => TypeOK
<1> SUFFICES ASSUME Init PROVE TypeOK
  OBVIOUS
<1>1. java \in [BOOLEAN -> AnyAddress] /\ first_address_ \in AnyAddress
  BY DEF Init
<1>2. dbQueue \in Seq(DbTask) /\ uiQueue \in Seq(UiTask)
  <2> DEFINE e == [op |-> "set_first_address", address |-> first_address_]
  <2>1. e \in DbTask
    BY <1>1 DEF DbTask
  <2>2. dbQueue = <<e>>
    BY DEF Init
  <2> HIDE DEF e
  <2> QED  BY <2>1, <2>2 DEF Init
<1>3. page \in Page
  BY NewPageTyped DEF Init, AnyAddress
<1>4. files \in [Addresses -> Files] /\ gaps \in [Addresses -> Gap]
  BY NewFileTyped DEF Init, Gap
<1>5. height \in [Txs -> Heights] /\ top \in Heights
  BY ConstantsAssumption DEF Init, Heights
<1>6. ui_requests_ \in [Calls -> Call \cup {NoCall}]
  BY DEF Init
<1>7. reloading \in {NoReload} \cup {<<a>> : a \in AnyAddress}
  BY DEF Init
<1> QED  BY <1>1, <1>2, <1>3, <1>4, <1>5, <1>6, <1>7 DEF Init, TypeOK, AnyAddress

\* The explorer, and its answers.
LEMMA TypeExplorer ==
    ASSUME TypeOK, Explorer \/ \E c \in Calls : Serve(c)
    PROVE  TypeOK'
<1>1. ASSUME NEW S \in SUBSET Txs, NewBlock(S)  PROVE TypeOK'
  <2> DEFINE h == [t \in Txs |-> IF t \in S THEN top + 1 ELSE height[t]]
  <2>1. NewChain(h, top) /\ UNCHANGED used
    BY <1>1 DEF NewBlock
  <2>2. top + 1 \in Heights
    BY <2>1, ConstantsAssumption DEF NewChain, TypeOK, Heights
  <2>3. h \in [Txs -> Heights]
    BY <2>2 DEF TypeOK
  <2> HIDE DEF h
  <2> QED  BY <2>1, <2>3, NewChainTyped DEF NewChain, TypeOK, walletVars
<1>2. ASSUME NEW k \in Heights, NEW h \in [Txs -> Heights], Reorganize(k, h)  PROVE TypeOK'
  <2>1. NewChain(h, k) /\ used' \in [reorgs : Nat, changes : Nat, faults : Nat, restarts : Nat]
    BY <1>2, SpendTyped DEF Reorganize
  <2> QED  BY <2>1, NewChainTyped DEF NewChain, TypeOK, walletVars
<1>3. ASSUME NEW c \in Calls, Serve(c)  PROVE TypeOK'
  <2> DEFINE call == ui_requests_[c]
  <2>1. call \in Call
    BY <1>3 DEF Serve, TypeOK
  <2>2. ASSUME NEW from
        PROVE  [call EXCEPT !.status = "listed", !.data = FirstOf(After(call.address, from))] \in Call
    BY <2>1, FirstOfTyped DEF Call
  <2>3. [call EXCEPT !.status = "failed"] \in Call
    BY <2>1 DEF Call
  <2>4. \E reply \in Call : ui_requests_' = [ui_requests_ EXCEPT ![c] = reply]
    BY <1>3, <2>2, <2>3 DEF Serve
  <2>5. ui_requests_' \in [Calls -> Call \cup {NoCall}]
    BY <2>4 DEF TypeOK
  <2>6. used' \in [reorgs : Nat, changes : Nat, faults : Nat, restarts : Nat]
    BY <1>3, SpendTyped DEF Serve, TypeOK
  <2> QED  BY <1>3, <2>5, <2>6 DEF Serve, TypeOK, walletVars, dbVars, chainVars
<1> QED  BY <1>1, <1>2, <1>3 DEF Explorer

\* The calls of the page that change the wallet.
LEMMA TypeWallet ==
    ASSUME TypeOK, WalletCalls
    PROVE  TypeOK'
<1>1. WalletChange /\ used' \in [reorgs : Nat, changes : Nat, faults : Nat, restarts : Nat]
  BY SpendTyped DEF WalletCalls, WalletChange, local_set_wallet, local_reset_wallet, local_toggle,
                    local_desync
<1>2. /\ java' \in [BOOLEAN -> AnyAddress] /\ is_qa_' \in BOOLEAN
      /\ \/ reload_wallet
         \/ PostDb([op |-> "remove"]) /\ UNCHANGED <<first_address_, raced>>
         \/ PostDb([op |-> "desync"]) /\ UNCHANGED <<first_address_, raced>>
  <2>1. ASSUME NEW a \in Addresses, local_set_wallet(a)
        PROVE  /\ java' \in [BOOLEAN -> AnyAddress] /\ is_qa_' \in BOOLEAN
               /\ reload_wallet \/ (PostDb([op |-> "remove"]) /\ UNCHANGED <<first_address_, raced>>)
    BY <2>1 DEF local_set_wallet, TypeOK, AnyAddress
  <2>2. ASSUME local_reset_wallet
        PROVE  java' \in [BOOLEAN -> AnyAddress] /\ is_qa_' \in BOOLEAN /\ reload_wallet
    BY <2>2 DEF local_reset_wallet, TypeOK, AnyAddress
  <2>3. ASSUME local_toggle
        PROVE  java' \in [BOOLEAN -> AnyAddress] /\ is_qa_' \in BOOLEAN /\ reload_wallet
    BY <2>3 DEF local_toggle, TypeOK
  <2>4. ASSUME local_desync
        PROVE  /\ java' \in [BOOLEAN -> AnyAddress] /\ is_qa_' \in BOOLEAN
               /\ PostDb([op |-> "desync"]) /\ UNCHANGED <<first_address_, raced>>
    BY <2>4 DEF local_desync, TypeOK, walletVars
  <2> QED  BY <2>1, <2>2, <2>3, <2>4 DEF WalletCalls
<1>3. first_address_' \in AnyAddress /\ raced' \in BOOLEAN /\ dbQueue' \in Seq(DbTask)
  <2>1. [op |-> "remove"] \in DbTask /\ [op |-> "desync"] \in DbTask
    BY DEF DbTask
  <2> QED  BY <1>2, <2>1, ReloadTyped, PostDbTyped DEF TypeOK
<1> QED  BY <1>1, <1>2, <1>3 DEF WalletChange, TypeOK, dbVars, chainVars

\* The page.
LEMMA TypePage ==
    ASSUME TypeOK, PageLoad \/ process_balance
    PROVE  TypeOK'
<1>1. ASSUME PageLoad  PROVE TypeOK'
  <2> DEFINE handler == page.handler + 1
             e == [op |-> "last_block_hash", to |-> handler]
  <2>1. handler \in Nat
    BY DEF TypeOK, Page
  <2>2. e \in DbTask
    BY <2>1 DEF DbTask
  <2>3. page' \in Page
    BY <1>1, <2>1, NewPageTyped DEF PageLoad, TypeOK, AnyAddress
  <2>4. UNCHANGED dbQueue \/ PostDb(e)
    BY <1>1 DEF PageLoad
  <2>5. dbQueue' \in Seq(DbTask)
    BY <2>2, <2>4, PostDbTyped DEF TypeOK
  <2> QED  BY <1>1, <2>3, <2>5 DEF PageLoad, TypeOK, walletVars, dbVars, chainVars
<1>2. ASSUME process_balance  PROVE TypeOK'
  <2>1. page.handler \in Nat /\ page.counter \in Nat /\ page.firstAddress \in AnyAddress
    BY DEF TypeOK, Page
  <2>2. top \in Heights /\ top \in AnyHash
    BY DEF TypeOK, AnyHash
  <2>3. /\ [op |-> "import", to |-> page.handler, hash |-> top, height |-> top] \in DbTask
        /\ [op |-> "check", address |-> page.firstAddress,
            balance |-> Cardinality(Listed(page.firstAddress))] \in DbTask
        /\ [op |-> "transactions", to |-> page.handler] \in DbTask
    BY <2>1, <2>2, ListedFinite DEF DbTask
  <2>4. \E first, second \in Seq(DbTask) : dbQueue' = dbQueue \o first \o second
    <3>1. <<>> \in Seq(DbTask) /\ \A task \in DbTask : <<task>> \in Seq(DbTask)
      OBVIOUS
    <3> QED  BY <1>2, <2>3, <3>1 DEF process_balance
  <2>5. dbQueue' \in Seq(DbTask)
    BY <2>4, ConcatProperties DEF TypeOK
  <2>6. (page.counter + 1) % CHECK_EVERY \in Nat
    BY <2>1, ConstantsAssumption
  <2>7. page' \in Page
    BY <1>2, <2>1, <2>2, <2>6 DEF process_balance, TypeOK, Page
  <2> QED  BY <1>2, <2>5, <2>7 DEF process_balance, TypeOK, walletVars, dbVars, chainVars
<1> QED  BY <1>1, <1>2

\* The UI thread.
LEMMA TypeUi ==
    ASSUME TypeOK, UiStep
    PROVE  TypeOK'
<1>1. ASSUME NEW c \in Calls, ui_transaction_request(c)  PROVE TypeOK'
  <2>1. UiTurn("request")
    BY <1>1 DEF ui_transaction_request
  <2>2. uiQueue' \in Seq(UiTask) /\ Head(uiQueue).call \in Call
    BY <2>1, UiHead, UiTaskTyped
  <2> QED  BY <1>1, <2>2 DEF ui_transaction_request, TypeOK, walletVars, dbVars, chainVars
<1>2. ASSUME NEW c \in Calls, ui_transactions_response(c)  PROVE TypeOK'
  <2> DEFINE e == [op |-> "response", call |-> ui_requests_[c]]
  <2>1. e \in DbTask /\ PostDb(e)
    BY <1>2 DEF ui_transactions_response, TypeOK, DbTask
  <2>2. dbQueue' \in Seq(DbTask)
    BY <2>1, PostDbTyped
  <2>3. ui_requests_' \in [Calls -> Call \cup {NoCall}]
    BY <1>2 DEF ui_transactions_response, TypeOK
  <2> QED  BY <1>2, <2>2, <2>3 DEF ui_transactions_response, TypeOK, walletVars, dbVars, chainVars
<1>3. ASSUME process_results_to_js  PROVE TypeOK'
  <2> DEFINE e == [op |-> "transactions", to |-> page.handler]
  <2>1. uiQueue' \in Seq(UiTask)
    BY <1>3, UiHead DEF process_results_to_js
  <2>2. dbQueue' \in Seq(DbTask)
    <3>1. e \in DbTask
      BY DEF DbTask, TypeOK, Page
    <3>2. UNCHANGED dbQueue \/ PostDb(e)
      BY <1>3 DEF process_results_to_js
    <3> QED  BY <3>1, <3>2, PostDbTyped DEF TypeOK
  <2>3. page' \in Page
    <3>1. CASE UiTurn("last_block_hash")
      <4>1. Head(uiQueue).hash \in AnyHash /\ Head(uiQueue).op = "last_block_hash"
        BY <3>1, UiHead, UiTaskTyped
      <4> QED  BY <1>3, <3>1, <4>1 DEF process_results_to_js, UiTurn, TypeOK, Page
    <3>2. CASE UiTurn("imported")
      BY <1>3, <3>2 DEF process_results_to_js, UiTurn, TypeOK
    <3>3. CASE UiTurn("transactions")
      <4>1. Head(uiQueue).shown \in SUBSET Txs /\ Head(uiQueue).op = "transactions"
        BY <3>3, UiHead, UiTaskTyped
      <4> QED  BY <1>3, <3>3, <4>1 DEF process_results_to_js, UiTurn, TypeOK, Page
    <3> QED  BY <1>3, <3>1, <3>2, <3>3 DEF process_results_to_js
  <2> QED  BY <1>3, <2>1, <2>2, <2>3 DEF process_results_to_js, TypeOK, walletVars, dbVars, chainVars
<1>4. ASSUME process_results_to_js_broadcast  PROVE TypeOK'
  <2>1. uiQueue' \in Seq(UiTask)
    BY <1>4, UiHead DEF process_results_to_js_broadcast
  <2>2. page' \in Page
    BY <1>4 DEF process_results_to_js_broadcast, TypeOK, Page, AnyHash
  <2> QED  BY <1>4, <2>1, <2>2 DEF process_results_to_js_broadcast, TypeOK, walletVars, dbVars,
                                   chainVars
<1> QED  BY <1>1, <1>2, <1>3, <1>4 DEF UiStep

\* The reply to a call: the file it changes and what it posts.
LEMMA ResponseTyped ==
    ASSUME TypeOK, db_transactions_response
    PROVE  /\ uiQueue' \in Seq(UiTask)
           /\ files' \in [Addresses -> Files] /\ gaps' \in [Addresses -> Gap]
<1> DEFINE call == Head(dbQueue).call
           full == Cardinality(DOMAIN call.data) = MAX_TRANSACTIONS
           Imported == [op |-> "imported", to |-> call.to, reload |-> TRUE]
<1>1. call \in Call
  BY DbHead, DbTaskTyped DEF db_transactions_response
<1>2. DOMAIN call.data \in SUBSET Txs /\ call.to \in Nat /\ call.hash \in AnyHash
      /\ call.address \in Addresses
  BY <1>1, RowSetsElim DEF Call
<1>3. full \in BOOLEAN
  OBVIOUS
<1> HIDE DEF call, full
<1>4. CASE call.address # db_wallet_first_address_
  BY <1>4 DEF db_transactions_response, TypeOK, call, full
<1>5. CASE call.address = db_wallet_first_address_
  <2>1. db_wallet_first_address_ # NoAddress
    BY <1>2, <1>5, ConstantsAssumption
  <2>2. \/ /\ UNCHANGED files
           /\ gaps' = [gaps EXCEPT ![db_wallet_first_address_] = IF full THEN @ \cup {"disturbed"} ELSE @]
        \/ /\ dbOpen # NoAddress
           /\ files' = [files EXCEPT ![dbOpen] = AfterReply(@, call, full)]
           /\ gaps' = [gaps EXCEPT ![dbOpen] =
                 IF full THEN @
                 ELSE IF call.status = "failed" THEN @ \cup {"failed"}
                 ELSE @ \ {"failed", "moved"}]
    BY <1>5 DEF db_transactions_response, call, full
  <2>3. dbOpen # NoAddress => AfterReply(files[dbOpen], call, full) \in Files
    BY <1>1, <1>3, AfterReplyTyped DEF TypeOK, AnyAddress
  <2>4. files' \in [Addresses -> Files]
    BY <2>2, <2>3 DEF TypeOK
  <2>5. gaps' \in [Addresses -> Gap]
    BY <2>2 DEF TypeOK, Gap
  <2>6. \/ \E last \in DOMAIN call.data : PostUi(Ask(last, call.to, call.hash))
        \/ PostUi(Imported)
    BY <1>5 DEF db_transactions_response, call, full, LastOf
  <2>7. Imported \in UiTask
    BY <1>2 DEF UiTask
  <2>8. \A last \in DOMAIN call.data : Ask(last, call.to, call.hash) \in UiTask
    BY <1>2, <2>1, AskTyped
  <2> HIDE DEF Imported
  <2>9. uiQueue' \in Seq(UiTask)
    BY <2>6, <2>7, <2>8, PostUiTyped
  <2> QED  BY <2>4, <2>5, <2>9
<1> QED  BY <1>4, <1>5

\* A check that recreates the database.
LEMMA RecreateTyped ==
    ASSUME TypeOK, Recreate
    PROVE  /\ uiQueue' \in Seq(UiTask)
           /\ Tasks(uiQueue') = Tasks(uiQueue) \cup {[op |-> "reset_last_block_hash"]}
           /\ dbQueue' \in Seq(DbTask) /\ Tasks(dbQueue') \subseteq Tasks(dbQueue)
           /\ dbOpen' \in {NoAddress, db_wallet_first_address_} /\ dbOpen' \in AnyAddress
           /\ files' \in [Addresses -> Files] /\ gaps' \in [Addresses -> Gap]
           /\ used' \in [reorgs : Nat, changes : Nat, faults : Nat, restarts : Nat]
           /\ \A b \in Addresses : DOMAIN files'[b].rows \subseteq DOMAIN files[b].rows
<1> DEFINE e == [op |-> "reset_last_block_hash"]
<1>1. e \in UiTask /\ PostUi(e)
  BY DEF UiTask, Recreate
<1>2. uiQueue' \in Seq(UiTask) /\ Tasks(uiQueue') = Tasks(uiQueue) \cup {e}
  BY <1>1, PostUiTyped
<1>3. dbQueue' \in Seq(DbTask) /\ Tasks(dbQueue') \subseteq Tasks(dbQueue)
  BY DbHead DEF Recreate, Done
<1>4. /\ db_wallet_first_address_ \in AnyAddress
      /\ remove_database(db_wallet_first_address_)
      /\ create_database_if_not_exists(db_wallet_first_address_)
  BY DEF Recreate, TypeOK
<1> QED  BY <1>2, <1>3, <1>4, RemoveTyped, CreateTyped

\* The database thread.
LEMMA TypeDb ==
    ASSUME TypeOK, HeadRuns, DbStep
    PROVE  TypeOK'
<1>0. Done /\ (\E op : DbTurn(op)) => dbQueue' \in Seq(DbTask)
  BY DbHead DEF Done
<1>1. ASSUME db_set_first_address  PROVE TypeOK'
  <2>1. Head(dbQueue).address \in AnyAddress
    BY <1>1, DbHead, DbTaskTyped DEF db_set_first_address
  <2>2. /\ dbOpen' \in AnyAddress
        /\ used' \in [reorgs : Nat, changes : Nat, faults : Nat, restarts : Nat]
    BY <1>1, <2>1, CreateTyped DEF db_set_first_address
  <2> QED  BY <1>0, <1>1, <2>1, <2>2 DEF db_set_first_address, TypeOK, walletVars, chainVars
<1>2. ASSUME db_get_last_block_hash  PROVE TypeOK'
  <2> DEFINE e == [op |-> "last_block_hash", to |-> Head(dbQueue).to, hash |-> OpenHash]
  <2>1. Head(dbQueue).to \in Nat
    BY <1>2, DbHead, DbTaskTyped DEF db_get_last_block_hash
  <2>2. e \in UiTask /\ PostUi(e)
    BY <1>2, <2>1, OpenTyped DEF UiTask, db_get_last_block_hash
  <2>3. uiQueue' \in Seq(UiTask)
    BY <2>2, PostUiTyped
  <2> QED  BY <1>0, <1>2, <2>3 DEF db_get_last_block_hash, TypeOK, walletVars, dbVars, chainVars
<1>3. ASSUME db_get_transactions  PROVE TypeOK'
  <2> DEFINE e == [op |-> "transactions", to |-> Head(dbQueue).to, shown |-> DOMAIN OpenRows]
  <2>1. Head(dbQueue).to \in Nat
    BY <1>3, DbHead, DbTaskTyped DEF db_get_transactions
  <2>2. DOMAIN OpenRows \in SUBSET Txs
    BY OpenTyped, RowSetsElim
  <2>3. e \in UiTask /\ PostUi(e)
    BY <1>3, <2>1, <2>2 DEF UiTask, db_get_transactions
  <2>4. uiQueue' \in Seq(UiTask)
    BY <2>3, PostUiTyped
  <2> QED  BY <1>0, <1>3, <2>4 DEF db_get_transactions, TypeOK, walletVars, dbVars, chainVars
<1>4. ASSUME check_block_hash  PROVE TypeOK'
  <2> DEFINE task == Head(dbQueue)
             Same == [op |-> "imported", to |-> task.to, reload |-> FALSE]
  <2>1. task.to \in Nat /\ task.hash \in AnyHash
    BY <1>4, DbHead, DbTaskTyped DEF check_block_hash
  <2>2. Same \in UiTask
    BY <2>1 DEF UiTask
  <2>3. get_last_confirmed_txid(task.height) \subseteq Txs \cup {NoTx}
    BY OpenTyped, RowSetsElim DEF get_last_confirmed_txid
  <2>4. \/ PostUi(Same)
        \/ UNCHANGED uiQueue
        \/ /\ db_wallet_first_address_ # NoAddress
           /\ \E from \in Txs \cup {NoTx} : PostUi(Ask(from, task.to, task.hash))
    BY <1>4, <2>3 DEF check_block_hash
  <2>5. uiQueue' \in Seq(UiTask)
    <3> HIDE DEF Same
    <3> QED  BY <2>1, <2>2, <2>4, PostUiTyped, AskTyped DEF TypeOK
  <2> QED  BY <1>0, <1>4, <2>5 DEF check_block_hash, TypeOK, walletVars, dbVars, chainVars
<1>5. ASSUME db_transactions_response  PROVE TypeOK'
  BY <1>0, <1>5, ResponseTyped DEF db_transactions_response, TypeOK, walletVars, chainVars
<1>6. ASSUME db_check_transactions  PROVE TypeOK'
  <2>1. CASE Recreate
    BY <2>1, RecreateTyped DEF Recreate, TypeOK, walletVars, chainVars
  <2>2. CASE ~Recreate
    BY <1>0, <1>6, <2>2 DEF db_check_transactions, TypeOK, walletVars, dbVars, chainVars
  <2> QED  BY <2>1, <2>2
<1>7. ASSUME db_remove_database  PROVE TypeOK'
  <2>1. files' \in [Addresses -> Files] /\ gaps' \in [Addresses -> Gap] /\ dbOpen' \in AnyAddress
    BY <1>7, RemoveTyped DEF db_remove_database, TypeOK, AnyAddress
  <2>2. java[is_qa_] \in AnyAddress
    BY DEF TypeOK
  <2>3. reloading' \in {NoReload} \cup {<<a>> : a \in AnyAddress}
    BY <1>7, <2>2 DEF db_remove_database
  <2> QED  BY <1>7, <2>1, <2>3 DEF db_remove_database, TypeOK, walletVars, chainVars
<1>8. ASSUME on_remove_database, dbQueue # <<>>  PROVE TypeOK'
  <2>1. reloading[1] \in AnyAddress
    BY <1>8 DEF on_remove_database, TypeOK
  <2> DEFINE e == [op |-> "set_first_address", address |-> reloading[1]]
  <2>2. e \in DbTask
    BY <2>1 DEF DbTask
  <2>3. dbQueue' = Append(Tail(dbQueue), e)
    BY <1>8 DEF on_remove_database
  <2> HIDE DEF e
  <2>4. Tail(dbQueue) \in Seq(DbTask)
    BY <1>8, TasksTail DEF TypeOK
  <2>5. dbQueue' \in Seq(DbTask)
    BY <2>2, <2>3, <2>4, TasksAppend
  <2> QED  BY <1>8, <2>1, <2>5 DEF on_remove_database, TypeOK, chainVars
<1>9. ASSUME db_desync  PROVE TypeOK'
  <2>1. CASE dbOpen = NoAddress
    BY <1>0, <1>9, <2>1 DEF db_desync, TypeOK, walletVars, chainVars
  <2>2. CASE dbOpen # NoAddress
    <3>1. PICK kept \in SUBSET DOMAIN OpenRows :
            files' = [files EXCEPT ![dbOpen].rows = [t \in kept |-> OpenRows[t]]]
      BY <1>9, <2>2 DEF db_desync
    <3>2. [t \in kept |-> OpenRows[t]] \in RowSets
      <4>1. kept \in SUBSET Txs /\ \A t \in kept : OpenRows[t] \in Heights
        BY OpenTyped, RowSetsElim
      <4> QED  BY <4>1, RowSetsIntro
    <3>3. files' \in [Addresses -> Files]
      <4>1. files[dbOpen] \in Files
        BY <2>2 DEF TypeOK, AnyAddress
      <4>2. [files[dbOpen] EXCEPT !.rows = [t \in kept |-> OpenRows[t]]] \in Files
        BY <3>2, <4>1 DEF Files
      <4>3. files' = [files EXCEPT ![dbOpen] = [files[dbOpen] EXCEPT !.rows = [t \in kept |-> OpenRows[t]]]]
        BY <2>2, <3>1 DEF TypeOK, AnyAddress
      <4> QED  BY <4>2, <4>3 DEF TypeOK
    <3>4. gaps' \in [Addresses -> Gap]
      BY <1>9, <2>2 DEF db_desync, TypeOK, Gap
    <3> QED  BY <1>0, <1>9, <3>3, <3>4 DEF db_desync, TypeOK, walletVars, chainVars
  <2> QED  BY <2>1, <2>2
<1> QED  BY <1>1, <1>2, <1>3, <1>4, <1>5, <1>6, <1>7, <1>8, <1>9 DEF DbStep, HeadRuns, on_remove_database

\* The end of the browser.
LEMMA TypeRestart ==
    ASSUME TypeOK, Restart
    PROVE  TypeOK' /\ \A b \in Addresses : \A t \in DOMAIN files'[b].rows :
                        \/ t \in DOMAIN files[b].rows
                        \/ /\ b = dbOpen /\ DbTurn("response")
                           /\ Head(dbQueue).call.address = db_wallet_first_address_
                           /\ t \in DOMAIN Head(dbQueue).call.data
<1> DEFINE call == Head(dbQueue).call
           e == [op |-> "set_first_address", address |-> java[is_qa_]]
<1>1. java[is_qa_] \in AnyAddress
  BY DEF TypeOK
<1>2. e \in DbTask
  BY <1>1 DEF DbTask
<1>3. dbQueue' \in Seq(DbTask)
  <2>1. dbQueue' = <<e>>
    BY DEF Restart
  <2> HIDE DEF e
  <2> QED  BY <1>2, <2>1
<1>4. uiQueue' \in Seq(UiTask)
  BY DEF Restart
<1>5. page' \in Page
  BY NewPageTyped DEF Restart, AnyAddress
<1>6. used' \in [reorgs : Nat, changes : Nat, faults : Nat, restarts : Nat]
  BY SpendTyped DEF Restart
<1>7. /\ files' \in [Addresses -> Files]
      /\ \A b \in Addresses : \A t \in DOMAIN files'[b].rows :
            \/ t \in DOMAIN files[b].rows
            \/ /\ b = dbOpen /\ DbTurn("response")
               /\ call.address = db_wallet_first_address_
               /\ t \in DOMAIN call.data
  <2>1. CASE UNCHANGED files
    BY <2>1 DEF TypeOK
  <2>2. CASE ~UNCHANGED files
    <3>1. /\ DbTurn("response") /\ dbOpen # NoAddress
          /\ call.address = db_wallet_first_address_
          /\ files' = [files EXCEPT ![dbOpen].rows = Merged(@, call.data)]
      BY <2>2 DEF Restart
    <3>2. call \in Call
      BY <3>1, DbHead, DbTaskTyped
    <3>3. dbOpen \in Addresses /\ files[dbOpen] \in Files
      BY <3>1 DEF TypeOK, AnyAddress
    <3> DEFINE rows == Merged(files[dbOpen].rows, call.data)
    <3>4. rows \in RowSets /\ DOMAIN rows = DOMAIN files[dbOpen].rows \cup DOMAIN call.data
      BY <3>2, <3>3, MergedTyped DEF Files, Call
    <3>5. files' = [files EXCEPT ![dbOpen] = [files[dbOpen] EXCEPT !.rows = rows]]
      BY <3>1, <3>3 DEF TypeOK
    <3> HIDE DEF rows, call
    <3>6. [files[dbOpen] EXCEPT !.rows = rows] \in Files
      BY <3>3, <3>4 DEF Files
    <3>7. files' \in [Addresses -> Files]
      BY <3>5, <3>6 DEF TypeOK
    <3>8. [files[dbOpen] EXCEPT !.rows = rows].rows = rows
      BY <3>3 DEF Files
    <3>9. \A b \in Addresses : IF b = dbOpen THEN files'[b].rows = rows ELSE files'[b] = files[b]
      BY <3>5, <3>8 DEF TypeOK
    <3> QED  BY <3>1, <3>4, <3>7, <3>9
  <2> QED  BY <2>1, <2>2
<1>8. TypeOK'
  BY <1>1, <1>3, <1>4, <1>5, <1>6, <1>7 DEF Restart, TypeOK, chainVars, AnyAddress
<1> QED  BY <1>7, <1>8

-----------------------------------------------------------------------------
(* What the steps do to the database queue and to the wallet *)

WalletOps == {"set_first_address", "remove"}
WalletSame == UNCHANGED <<walletVars, reloading, db_wallet_first_address_>>

\* Tasks that do not concern the wallet are posted, or one is run.
Posts(s) == /\ WalletSame /\ s \in Seq(DbTask) /\ dbQueue' = dbQueue \o s
            /\ \A i \in DOMAIN s : s[i].op \notin WalletOps
Runs == /\ WalletSame /\ reloading = NoReload
        /\ dbQueue # <<>> /\ Head(dbQueue).op \notin WalletOps
        /\ dbQueue' = Tail(dbQueue)

\* The wallet is reloaded on the UI thread, or removal of its database asked for.
Reloads == reload_wallet /\ UNCHANGED <<reloading, db_wallet_first_address_>>
Replaces == /\ PostDb([op |-> "remove"])
            /\ UNCHANGED <<first_address_, raced, reloading, db_wallet_first_address_>>

LEMMA PostsOne ==
    ASSUME TypeOK, WalletSame, NEW task \in DbTask, task.op \notin WalletOps,
           dbQueue' = Append(dbQueue, task)
    PROVE  Posts(<<task>>)
<1>1. <<task>> \in Seq(DbTask) /\ dbQueue' = dbQueue \o <<task>>
  BY DEF TypeOK
<1>2. DOMAIN <<task>> = {1} /\ <<task>>[1] = task
  OBVIOUS
<1> QED  BY <1>1, <1>2 DEF Posts

LEMMA PostsNone ==
    ASSUME TypeOK, WalletSame, UNCHANGED dbQueue
    PROVE  Posts(<<>>)
<1>1. <<>> \in Seq(DbTask) /\ dbQueue' = dbQueue \o <<>> /\ DOMAIN <<>> = {}
  BY DEF TypeOK
<1> QED  BY <1>1 DEF Posts

LEMMA Kinds ==
    ASSUME TypeOK, [Next]_vars
    PROVE  \/ \E s \in Seq(DbTask) : Posts(s)
           \/ Runs
           \/ db_set_first_address \/ db_remove_database \/ on_remove_database
           \/ Reloads \/ Replaces
           \/ Restart
<1>0. <<>> \in Seq(DbTask) /\ \A task \in DbTask : <<task>> \in Seq(DbTask)
  OBVIOUS
<1>1. CASE UNCHANGED vars
  BY <1>0, <1>1, PostsNone DEF vars, walletVars, dbVars, WalletSame
<1>2. CASE Explorer \/ \E c \in Calls : Serve(c)
  <2>1. WalletSame /\ UNCHANGED dbQueue
    BY <1>2 DEF Explorer, NewBlock, Reorganize, NewChain, Serve, dbVars, WalletSame
  <2> QED  BY <1>0, <2>1, PostsNone
<1>3. CASE WalletCalls
  <2>1. CASE local_desync
    <3>1. /\ WalletSame /\ dbQueue' = Append(dbQueue, [op |-> "desync"])
          /\ [op |-> "desync"] \in DbTask
      BY <2>1 DEF local_desync, WalletChange, PostDb, dbVars, DbTask, WalletSame
    <3> QED  BY <1>0, <3>1, PostsOne DEF WalletOps
  <2>2. CASE ~local_desync
    BY <1>3, <2>2 DEF WalletCalls, local_set_wallet, local_reset_wallet, local_toggle,
                      WalletChange, dbVars, Reloads, Replaces
  <2> QED  BY <2>1, <2>2
<1>4. CASE PageLoad
  <2> DEFINE e == [op |-> "last_block_hash", to |-> page.handler + 1]
  <2>1. WalletSame
    BY <1>4 DEF PageLoad, dbVars, WalletSame
  <2>2. e \in DbTask /\ e.op \notin WalletOps
    BY DEF DbTask, TypeOK, Page, WalletOps
  <2>3. UNCHANGED dbQueue \/ dbQueue' = Append(dbQueue, e)
    BY <1>4 DEF PageLoad, PostDb
  <2> HIDE DEF e
  <2> QED  BY <1>0, <2>1, <2>2, <2>3, PostsOne, PostsNone
<1>5. CASE process_balance
  <2> DEFINE Quiet(s) == s \in Seq(DbTask) /\ \A i \in DOMAIN s : s[i].op \notin WalletOps
  <2>1. /\ [op |-> "import", to |-> page.handler, hash |-> top, height |-> top] \in DbTask
        /\ [op |-> "check", address |-> page.firstAddress,
            balance |-> Cardinality(Listed(page.firstAddress))] \in DbTask
        /\ [op |-> "transactions", to |-> page.handler] \in DbTask
    BY ListedFinite DEF DbTask, TypeOK, Page, AnyHash
  <2>2. Quiet(<<>>)
    OBVIOUS
  <2>3. ASSUME NEW task \in DbTask, task.op \notin WalletOps  PROVE Quiet(<<task>>)
    <3>1. <<task>> \in Seq(DbTask) /\ DOMAIN <<task>> = {1} /\ <<task>>[1] = task
      OBVIOUS
    <3> QED  BY <2>3, <3>1
  <2> HIDE DEF Quiet
  <2>4. PICK first, second : /\ Quiet(first) /\ Quiet(second)
                             /\ dbQueue' = dbQueue \o first \o second
    BY <1>5, <2>1, <2>2, <2>3 DEF process_balance, WalletOps
  <2>5. first \in Seq(DbTask) /\ second \in Seq(DbTask)
    BY <2>4 DEF Quiet
  <2>6. first \o second \in Seq(DbTask) /\ dbQueue' = dbQueue \o (first \o second)
    <3>1. dbQueue \in Seq(DbTask)
      BY DEF TypeOK
    <3>2. first \o second \in Seq(DbTask)
      BY <2>5, ConcatProperties
    <3>3. (dbQueue \o first) \o second = dbQueue \o (first \o second)
      BY <2>5, <3>1, ConcatAssociative
    <3> QED  BY <2>4, <3>2, <3>3
  <2>7. \A i \in DOMAIN (first \o second) : (first \o second)[i].op \notin WalletOps
    <3> SUFFICES ASSUME NEW i \in DOMAIN (first \o second)
                 PROVE  (first \o second)[i].op \notin WalletOps
      OBVIOUS
    <3>1. /\ Len(first) \in Nat /\ Len(second) \in Nat
          /\ DOMAIN first = 1 .. Len(first) /\ DOMAIN second = 1 .. Len(second)
          /\ i \in 1 .. Len(first) + Len(second)
          /\ (first \o second)[i] = IF i <= Len(first) THEN first[i] ELSE second[i - Len(first)]
      BY <2>5
    <3>2. i \in 1 .. Len(first) \/ (i > Len(first) /\ i - Len(first) \in 1 .. Len(second))
      BY <3>1
    <3> QED  BY <2>4, <3>1, <3>2 DEF Quiet
  <2>8. WalletSame
    BY <1>5 DEF process_balance, dbVars, WalletSame
  <2> QED  BY <2>6, <2>7, <2>8 DEF Posts
<1>6. CASE UiStep
  <2>1. WalletSame
    BY <1>6 DEF UiStep, ui_transaction_request, ui_transactions_response, process_results_to_js,
                process_results_to_js_broadcast, dbVars, WalletSame
  <2>2. \/ UNCHANGED dbQueue
        \/ \E task \in DbTask : task.op \notin WalletOps /\ dbQueue' = Append(dbQueue, task)
    <3>1. [op |-> "transactions", to |-> page.handler] \in DbTask
      BY DEF DbTask, TypeOK, Page
    <3>2. ASSUME NEW c \in Calls, ui_transactions_response(c)
          PROVE  \E task \in DbTask : task.op \notin WalletOps /\ dbQueue' = Append(dbQueue, task)
      <4>1. [op |-> "response", call |-> ui_requests_[c]] \in DbTask
        BY <3>2 DEF ui_transactions_response, DbTask, TypeOK
      <4> QED  BY <3>2, <4>1 DEF ui_transactions_response, PostDb, WalletOps
    <3> QED  BY <1>6, <3>1, <3>2 DEF UiStep, ui_transaction_request, process_results_to_js,
                process_results_to_js_broadcast, PostDb, WalletOps
  <2> QED  BY <1>0, <2>1, <2>2, PostsOne, PostsNone
<1>7. CASE DbStep /\ ~db_set_first_address /\ ~db_remove_database /\ ~on_remove_database
  BY <1>7 DEF DbStep, db_get_last_block_hash, db_get_transactions, check_block_hash,
              db_transactions_response, db_check_transactions, Recreate, db_desync,
              DbTurn, Done, dbVars, WalletSame, WalletOps, Runs
<1> QED  BY <1>1, <1>2, <1>3, <1>4, <1>5, <1>6, <1>7 DEF Next, DbStep

-----------------------------------------------------------------------------
(* Types, and the head of the queue, in every state *)

LEMMA HeadRunsStep ==
    ASSUME TypeOK, HeadRuns, [Next]_vars
    PROVE  HeadRuns'
<1>1. ASSUME NEW s \in Seq(DbTask), Posts(s)  PROVE HeadRuns'
  <2>1. dbQueue # <<>> => dbQueue \o s # <<>> /\ Head(dbQueue \o s) = Head(dbQueue)
    BY DEF TypeOK
  <2> QED  BY <1>1, <2>1 DEF Posts, WalletSame, HeadRuns
<1>2. ASSUME Reloads \/ Replaces  PROVE HeadRuns'
  <2>1. ASSUME NEW task \in DbTask, PostDb(task), UNCHANGED reloading  PROVE HeadRuns'
    <3>1. dbQueue # <<>> => /\ Append(dbQueue, task) # <<>>
                            /\ Head(Append(dbQueue, task)) = Head(dbQueue)
      BY DEF TypeOK
    <3> QED  BY <2>1, <3>1 DEF PostDb, HeadRuns
  <2>2. CASE Reloads
    <3> DEFINE e == [op |-> "set_first_address", address |-> first_address_']
    <3>1. PostDb(e) /\ UNCHANGED reloading
      BY <2>2 DEF Reloads, reload_wallet
    <3>2. dbQueue # <<>> => /\ Append(dbQueue, e) # <<>>
                            /\ Head(Append(dbQueue, e)) = Head(dbQueue)
      <4> HIDE DEF e
      <4> QED  BY DEF TypeOK
    <3> QED  BY <3>1, <3>2 DEF PostDb, HeadRuns
  <2>3. CASE Replaces
    <3>1. [op |-> "remove"] \in DbTask
      BY DEF DbTask
    <3> QED  BY <2>1, <2>3, <3>1 DEF Replaces
  <2> QED  BY <1>2, <2>2, <2>3
<1>3. ASSUME Runs \/ db_set_first_address \/ on_remove_database \/ Restart  PROVE HeadRuns'
  BY <1>3 DEF Runs, WalletSame, db_set_first_address, DbTurn, on_remove_database, Restart, HeadRuns
<1>4. ASSUME db_remove_database  PROVE HeadRuns'
  BY <1>4 DEF db_remove_database, DbTurn, HeadRuns
<1> QED  BY <1>1, <1>2, <1>3, <1>4, Kinds

LEMMA TypeNext ==
    ASSUME TypeOK, HeadRuns, [Next]_vars
    PROVE  TypeOK'
<1>1. CASE UNCHANGED vars
  BY <1>1 DEF vars, walletVars, dbVars, chainVars, TypeOK
<1> QED  BY <1>1, TypeExplorer, TypeWallet, TypePage, TypeUi, TypeDb, TypeRestart DEF Next

\* Each variable keeps its type: the heights in the files are those of the chain, tasks and
\* calls carry what the code reads from them (the methods of TransactionMobileService, and
\* those of the mobile WalletManager that concern the wallet).
THEOREM MobileTypeCorrect == Spec => []TypeOK
<1> DEFINE TInv == TypeOK /\ HeadRuns
<1>1. Init => TInv
  BY TypeInit DEF Init, HeadRuns
<1>2. TInv /\ [Next]_vars => TInv'
  BY TypeNext, HeadRunsStep
<1> QED  BY <1>1, <1>2, PTL DEF Spec

\* The same as one invariant, for the proofs below.
LEMMA TypeAndHead == Spec => [](TypeOK /\ HeadRuns)
<1> DEFINE TInv == TypeOK /\ HeadRuns
<1>1. Init => TInv
  BY TypeInit DEF Init, HeadRuns
<1>2. TInv /\ [Next]_vars => HeadRuns'
  BY HeadRunsStep
<1> QED  BY <1>1, <1>2, MobileTypeCorrect, PTL DEF Spec

-----------------------------------------------------------------------------
(* The wallet of both threads *)

\* The database queue, run to its end, leaves the database thread at wallet w.
Sets(queue) == {i \in DOMAIN queue : queue[i].op = "set_first_address"}
Settles(queue, address, w) ==
    /\ Sets(queue) = {} => address = w
    /\ \A i \in Sets(queue) : (\A j \in Sets(queue) : j <= i) => queue[i].address = w

LEMMA SettlesAppend ==
    ASSUME NEW s \in Seq(DbTask), NEW e \in DbTask, NEW a, NEW w
    PROVE  /\ e.op # "set_first_address" /\ Settles(s, a, w) => Settles(Append(s, e), a, w)
           /\ e.op = "set_first_address" /\ e.address = w => Settles(Append(s, e), a, w)
<1> DEFINE t == Append(s, e)
<1>1. /\ DOMAIN s = 1 .. Len(s) /\ DOMAIN t = 1 .. Len(s) + 1 /\ Len(s) \in Nat
      /\ \A i \in 1 .. Len(s) : t[i] = s[i]
      /\ t[Len(s) + 1] = e
  OBVIOUS
<1> HIDE DEF t
<1>2. ASSUME e.op # "set_first_address", Settles(s, a, w)  PROVE Settles(t, a, w)
  <2>1. Sets(t) = Sets(s) /\ \A i \in Sets(s) : t[i] = s[i]
    BY <1>1, <1>2 DEF Sets
  <2> QED  BY <1>2, <2>1 DEF Settles
<1>3. ASSUME e.op = "set_first_address", e.address = w  PROVE Settles(t, a, w)
  <2>1. Len(s) + 1 \in Sets(t) /\ \A i \in Sets(t) : i \in 1 .. Len(s) + 1
    BY <1>1, <1>3 DEF Sets
  <2>2. ASSUME NEW i \in Sets(t), \A j \in Sets(t) : j <= i  PROVE t[i].address = w
    <3>1. i = Len(s) + 1
      BY <1>1, <2>1, <2>2
    <3> QED  BY <1>1, <1>3, <3>1
  <2> QED  BY <2>1, <2>2 DEF Settles
<1> QED  BY <1>2, <1>3 DEF t

LEMMA SettlesConcat ==
    ASSUME NEW s \in Seq(DbTask), NEW u \in Seq(DbTask), NEW a, NEW w,
           \A i \in DOMAIN u : u[i].op # "set_first_address", Settles(s, a, w)
    PROVE  Settles(s \o u, a, w)
<1> DEFINE t == s \o u
<1>1. /\ Len(s) \in Nat /\ Len(u) \in Nat
      /\ DOMAIN s = 1 .. Len(s) /\ DOMAIN u = 1 .. Len(u) /\ DOMAIN t = 1 .. Len(s) + Len(u)
      /\ \A i \in 1 .. Len(s) + Len(u) : t[i] = IF i <= Len(s) THEN s[i] ELSE u[i - Len(s)]
  OBVIOUS
<1> HIDE DEF t
<1>2. ASSUME NEW i \in 1 .. Len(s) + Len(u)
      PROVE  \/ i \in 1 .. Len(s) /\ t[i] = s[i]
             \/ i \notin 1 .. Len(s) /\ t[i].op # "set_first_address"
  <2>1. i \in 1 .. Len(s) \/ (i > Len(s) /\ i - Len(s) \in 1 .. Len(u))
    BY <1>1
  <2> QED  BY <1>1, <2>1
<1>3. Sets(t) = Sets(s) /\ \A i \in Sets(s) : t[i] = s[i]
  <2>1. 1 .. Len(s) \subseteq 1 .. Len(s) + Len(u)
    BY <1>1
  <2> QED  BY <1>1, <1>2, <2>1 DEF Sets
<1>4. Settles(t, a, w)
  BY <1>3 DEF Settles
<1> QED  BY <1>4 DEF t

\* Running the task at the head.
LEMMA SettlesTail ==
    ASSUME NEW s \in Seq(DbTask), s # <<>>, NEW a, NEW w, Settles(s, a, w)
    PROVE  /\ Head(s).op # "set_first_address" => Settles(Tail(s), a, w)
           /\ Head(s).op = "set_first_address" => Settles(Tail(s), Head(s).address, w)
<1> DEFINE t == Tail(s)
<1>1. /\ Len(s) \in Nat \ {0}
      /\ DOMAIN s = 1 .. Len(s) /\ DOMAIN t = 1 .. Len(s) - 1
      /\ \A i \in 1 .. Len(s) - 1 : t[i] = s[i + 1]
      /\ Head(s) = s[1]
  BY HeadTailProperties, EmptySeq
<1> HIDE DEF t
<1>2. \A i \in Sets(t) : i \in 1 .. Len(s) - 1 /\ i + 1 \in Sets(s)
  <2>1. \A i \in 1 .. Len(s) - 1 : i + 1 \in 1 .. Len(s)
    BY <1>1
  <2> QED  BY <1>1, <2>1 DEF Sets
<1>3. \A j \in Sets(s) : j = 1 \/ (j \in 2 .. Len(s) /\ j - 1 \in Sets(t))
  <2> SUFFICES ASSUME NEW j \in Sets(s), j # 1  PROVE j \in 2 .. Len(s) /\ j - 1 \in Sets(t)
    OBVIOUS
  <2>1. j \in 1 .. Len(s) /\ s[j].op = "set_first_address"
    BY <1>1 DEF Sets
  <2>2. j \in 2 .. Len(s) /\ j - 1 \in 1 .. Len(s) - 1 /\ t[j - 1] = s[j]
    <3>1. j - 1 \in 1 .. Len(s) - 1 /\ (j - 1) + 1 = j
      BY <1>1, <2>1
    <3> QED  BY <1>1, <2>1, <3>1
  <2> QED  BY <1>1, <2>1, <2>2 DEF Sets
\* The last change of the wallet in the tail is the last one.
<1>4. ASSUME NEW i \in Sets(t), \A j \in Sets(t) : j <= i
      PROVE  t[i].address = w
  <2>1. i \in 1 .. Len(s) - 1 /\ i + 1 \in Sets(s) /\ t[i] = s[i + 1]
    BY <1>1, <1>2
  <2>2. \A j \in Sets(s) : j <= i + 1
    <3> SUFFICES ASSUME NEW j \in Sets(s)  PROVE j <= i + 1
      OBVIOUS
    <3>1. j = 1 \/ (j \in 2 .. Len(s) /\ j - 1 <= i)
      BY <1>3, <1>4
    <3> QED  BY <1>1, <2>1, <3>1
  <2> QED  BY <2>1, <2>2 DEF Settles
<1>5. ASSUME Sets(t) = {}
      PROVE  /\ Head(s).op # "set_first_address" => a = w
             /\ Head(s).op = "set_first_address" => Head(s).address = w
  <2>1. \A j \in Sets(s) : j = 1
    BY <1>3, <1>5
  <2>2. 1 \in Sets(s) <=> Head(s).op = "set_first_address"
    BY <1>1 DEF Sets
  <2>3. Head(s).op # "set_first_address" => Sets(s) = {}
    BY <2>1, <2>2
  <2>4. 1 \in Sets(s) => s[1].address = w
    <3>1. 1 \in Sets(s) => \A j \in Sets(s) : j <= 1
      BY <2>1
    <3> QED  BY <3>1 DEF Settles
  <2> QED  BY <1>1, <2>2, <2>3, <2>4 DEF Settles
<1> QED  BY <1>4, <1>5 DEF Settles, t

\* Either a removal is still to come, which reads the wallet again; or the one that runs has
\* read the present wallet; or the UI thread is at it and the queue leads to it.
RemoveAhead == \E i \in DOMAIN dbQueue :
                   dbQueue[i].op = "remove" /\ (reloading # NoReload => i # 1)
HasRead == reloading = <<java[is_qa_]>>
AtWallet == /\ reloading = NoReload
            /\ first_address_ = java[is_qa_]
            /\ Settles(dbQueue, db_wallet_first_address_, java[is_qa_])
WalletInv == raced \/ RemoveAhead \/ HasRead \/ AtWallet

LEMMA WalletInit == Init => WalletInv
<1> SUFFICES ASSUME Init  PROVE AtWallet
  BY DEF WalletInv
<1> DEFINE e == [op |-> "set_first_address", address |-> first_address_]
<1>1. dbQueue = <<e>> /\ DOMAIN <<e>> = {1} /\ <<e>>[1] = e
  BY DEF Init
<1>2. Sets(dbQueue) = {1} /\ dbQueue[1].address = java[is_qa_]
  BY <1>1 DEF Sets, Init
<1>3. Settles(dbQueue, db_wallet_first_address_, java[is_qa_])
  BY <1>2 DEF Settles
<1> QED  BY <1>3 DEF Init, AtWallet

\* What is added to the queue leaves a removal in it where it is.
LEMMA RemoveKept ==
    ASSUME TypeOK, RemoveAhead, UNCHANGED reloading, NEW s \in Seq(DbTask), dbQueue' = dbQueue \o s
    PROVE  RemoveAhead'
<1>1. \A i \in DOMAIN dbQueue : i \in DOMAIN (dbQueue \o s) /\ (dbQueue \o s)[i] = dbQueue[i]
  BY DEF TypeOK
<1> QED  BY <1>1 DEF RemoveAhead

\* Running a task that is no removal, or the one that is done, leaves the others.
LEMMA RemoveKeptByTail ==
    ASSUME TypeOK, RemoveAhead, dbQueue # <<>>,
           reloading # NoReload \/ Head(dbQueue).op # "remove"
    PROVE  \E i \in DOMAIN Tail(dbQueue) : Tail(dbQueue)[i].op = "remove"
<1> DEFINE t == Tail(dbQueue)
<1>1. /\ Len(dbQueue) \in Nat \ {0}
      /\ DOMAIN dbQueue = 1 .. Len(dbQueue) /\ DOMAIN t = 1 .. Len(dbQueue) - 1
      /\ \A i \in 1 .. Len(dbQueue) - 1 : t[i] = dbQueue[i + 1]
      /\ Head(dbQueue) = dbQueue[1]
  BY HeadTailProperties, EmptySeq DEF TypeOK
<1> HIDE DEF t
<1>2. PICK i \in 1 .. Len(dbQueue) : dbQueue[i].op = "remove" /\ i # 1
  BY <1>1 DEF RemoveAhead
<1>3. i - 1 \in 1 .. Len(dbQueue) - 1 /\ (i - 1) + 1 = i
  BY <1>1, <1>2
<1>4. i - 1 \in DOMAIN t /\ t[i - 1].op = "remove"
  BY <1>1, <1>2, <1>3
<1> QED  BY <1>4 DEF t

LEMMA WalletStep ==
    ASSUME TypeOK, HeadRuns, WalletInv, [Next]_vars
    PROVE  WalletInv'
<1>1. ASSUME NEW s \in Seq(DbTask), Posts(s)  PROVE WalletInv'
  <2>1. UNCHANGED <<is_qa_, first_address_, java, raced, reloading, db_wallet_first_address_>>
    BY <1>1 DEF Posts, WalletSame, walletVars
  <2>2. RemoveAhead => RemoveAhead'
    BY <1>1, <2>1, RemoveKept DEF Posts
  <2>3. AtWallet => AtWallet'
    <3>1. Settles(dbQueue, db_wallet_first_address_, java[is_qa_])
            => Settles(dbQueue \o s, db_wallet_first_address_, java[is_qa_])
      BY <1>1, SettlesConcat DEF Posts, WalletOps, TypeOK
    <3> QED  BY <1>1, <2>1, <3>1 DEF Posts, AtWallet
  <2> QED  BY <2>1, <2>2, <2>3 DEF WalletInv, HasRead
<1>2. ASSUME Runs  PROVE WalletInv'
  <2>1. /\ UNCHANGED <<is_qa_, first_address_, java, raced, reloading, db_wallet_first_address_>>
        /\ dbQueue # <<>> /\ Head(dbQueue).op # "remove" /\ Head(dbQueue).op # "set_first_address"
        /\ dbQueue' = Tail(dbQueue) /\ reloading = NoReload
    BY <1>2 DEF Runs, WalletSame, walletVars, WalletOps
  <2>2. RemoveAhead => RemoveAhead'
    BY <2>1, RemoveKeptByTail DEF RemoveAhead
  <2>3. AtWallet => AtWallet'
    <3>1. Settles(dbQueue, db_wallet_first_address_, java[is_qa_])
            => Settles(Tail(dbQueue), db_wallet_first_address_, java[is_qa_])
      BY <2>1, SettlesTail DEF TypeOK
    <3> QED  BY <2>1, <3>1 DEF AtWallet
  <2> QED  BY <2>1, <2>2, <2>3 DEF WalletInv, HasRead
<1>3. ASSUME db_set_first_address  PROVE WalletInv'
  <2>1. /\ UNCHANGED <<is_qa_, first_address_, java, raced, reloading>>
        /\ dbQueue # <<>> /\ Head(dbQueue).op = "set_first_address"
        /\ dbQueue' = Tail(dbQueue) /\ reloading = NoReload
        /\ db_wallet_first_address_' = Head(dbQueue).address
    BY <1>3 DEF db_set_first_address, DbTurn, Done, walletVars
  <2>2. RemoveAhead => RemoveAhead'
    BY <2>1, RemoveKeptByTail DEF RemoveAhead
  <2>3. AtWallet => AtWallet'
    <3>1. Settles(dbQueue, db_wallet_first_address_, java[is_qa_])
            => Settles(Tail(dbQueue), Head(dbQueue).address, java[is_qa_])
      BY <2>1, SettlesTail DEF TypeOK
    <3> QED  BY <2>1, <3>1 DEF AtWallet
  <2> QED  BY <2>1, <2>2, <2>3 DEF WalletInv, HasRead
<1>4. ASSUME db_remove_database  PROVE WalletInv'
  BY <1>4 DEF db_remove_database, walletVars, WalletInv, HasRead
<1>5. ASSUME on_remove_database  PROVE WalletInv'
  <2> DEFINE e == [op |-> "set_first_address", address |-> reloading[1]]
             t == Tail(dbQueue)
  <2>1. /\ UNCHANGED <<is_qa_, java, raced, db_wallet_first_address_>>
        /\ reloading # NoReload /\ reloading' = NoReload
        /\ first_address_' = reloading[1] /\ dbQueue' = Append(t, e)
    BY <1>5 DEF on_remove_database
  <2>2. dbQueue # <<>> /\ t \in Seq(DbTask)
    BY <2>1, TasksTail DEF HeadRuns, TypeOK
  <2>3. e \in DbTask /\ e.op = "set_first_address"
    <3>1. reloading[1] \in AnyAddress
      BY <2>1 DEF TypeOK
    <3> QED  BY <3>1 DEF DbTask
  <2>4. CASE RemoveAhead
    <3>1. \E i \in DOMAIN t : t[i].op = "remove"
      BY <2>1, <2>2, <2>4, RemoveKeptByTail
    <3> HIDE DEF e, t
    <3>2. \A i \in DOMAIN t : i \in DOMAIN Append(t, e) /\ Append(t, e)[i] = t[i]
      BY <2>2
    <3>3. RemoveAhead'
      BY <2>1, <3>1, <3>2 DEF RemoveAhead
    <3> QED  BY <3>3 DEF WalletInv
  <2>5. CASE HasRead
    <3>1. e.address = java[is_qa_]
      BY <2>5 DEF HasRead
    <3> HIDE DEF e, t
    <3>2. Settles(Append(t, e), db_wallet_first_address_, java[is_qa_])
      BY <2>2, <2>3, <3>1, SettlesAppend
    <3>3. reloading[1] = java[is_qa_]
      BY <2>5 DEF HasRead
    <3> QED  BY <2>1, <3>2, <3>3 DEF AtWallet, WalletInv
  <2>6. CASE raced
    BY <2>1, <2>6 DEF WalletInv
  <2>7. ~AtWallet
    BY <2>1 DEF AtWallet
  <2> QED  BY <2>4, <2>5, <2>6, <2>7 DEF WalletInv
<1>6. ASSUME Reloads  PROVE WalletInv'
  <2>1. CASE reloading # NoReload
    BY <1>6, <2>1 DEF Reloads, reload_wallet, WalletInv
  <2>2. CASE reloading = NoReload
    <3> DEFINE e == [op |-> "set_first_address", address |-> first_address_']
    <3>1. /\ first_address_' = java'[is_qa_'] /\ dbQueue' = Append(dbQueue, e)
          /\ reloading' = NoReload
      BY <1>6, <2>2 DEF Reloads, reload_wallet, PostDb
    <3>2. first_address_' \in AnyAddress
      BY TypeNext DEF TypeOK
    <3>3. e \in DbTask /\ e.op = "set_first_address" /\ e.address = java'[is_qa_']
      BY <3>1, <3>2 DEF DbTask
    <3> HIDE DEF e
    <3>4. Settles(dbQueue', db_wallet_first_address_', java'[is_qa_'])
      BY <3>1, <3>3, SettlesAppend DEF TypeOK
    <3> QED  BY <3>1, <3>4 DEF AtWallet, WalletInv
  <2> QED  BY <2>1, <2>2
<1>7. ASSUME Replaces  PROVE WalletInv'
  <2> DEFINE e == [op |-> "remove"]
  <2>1. dbQueue' = Append(dbQueue, e) /\ UNCHANGED reloading /\ e.op = "remove"
    BY <1>7 DEF Replaces, PostDb
  <2>2. reloading # NoReload => Len(dbQueue) # 0
    BY DEF HeadRuns, TypeOK
  <2> HIDE DEF e
  <2>3. /\ Len(dbQueue) + 1 \in DOMAIN Append(dbQueue, e)
        /\ Append(dbQueue, e)[Len(dbQueue) + 1] = e
        /\ Len(dbQueue) \in Nat
    BY DEF TypeOK
  <2>4. Len(dbQueue) # 0 => Len(dbQueue) + 1 # 1
    BY <2>3
  <2>5. RemoveAhead'
    BY <2>1, <2>2, <2>3, <2>4 DEF RemoveAhead
  <2> QED  BY <2>5 DEF WalletInv
<1>8. ASSUME Restart  PROVE WalletInv'
  <2> DEFINE e == [op |-> "set_first_address", address |-> java[is_qa_]]
  <2>1. /\ dbQueue' = <<e>> /\ DOMAIN <<e>> = {1} /\ <<e>>[1] = e
        /\ first_address_' = java[is_qa_] /\ reloading' = NoReload
        /\ UNCHANGED <<is_qa_, java>>
    BY <1>8 DEF Restart
  <2>2. Sets(<<e>>) = {1} /\ <<e>>[1].address = java[is_qa_]
    BY <2>1 DEF Sets
  <2>3. Settles(<<e>>, db_wallet_first_address_', java[is_qa_])
    BY <2>2 DEF Settles
  <2> HIDE DEF e
  <2> QED  BY <2>1, <2>3 DEF AtWallet, WalletInv
<1> QED  BY <1>1, <1>2, <1>3, <1>4, <1>5, <1>6, <1>7, <1>8, Kinds

\* Whatever wallets are set, reset and toggled, and whatever tasks are waiting: once changes
\* are worked off both threads are at the wallet that the Java side has, unless the UI thread
\* reloaded it while on_remove_database did so on the database thread (reload_wallet,
\* db_set_first_address, db_remove_database).
THEOREM BothAtTheWallet == Spec => []TheRightWallet
<1> DEFINE WInv == TypeOK /\ HeadRuns /\ WalletInv
<1>1. TypeOK /\ HeadRuns /\ WalletInv => TheRightWallet
  <2> SUFFICES ASSUME TypeOK, HeadRuns, WalletInv, ~Settling, ~raced
               PROVE  db_wallet_first_address_ = java[is_qa_] /\ first_address_ = java[is_qa_]
    BY DEF TheRightWallet
  <2>1. \A i \in DOMAIN dbQueue : dbQueue[i].op \notin {"set_first_address", "remove"}
    BY DEF Settling
  <2>2. ~RemoveAhead /\ Sets(dbQueue) = {}
    BY <2>1 DEF RemoveAhead, Sets
  <2>3. reloading = NoReload
    <3>1. dbQueue # <<>> => Head(dbQueue) = dbQueue[1] /\ 1 \in DOMAIN dbQueue
      BY DEF TypeOK
    <3> QED  BY <2>1, <3>1 DEF HeadRuns
  <2>4. AtWallet
    BY <2>2, <2>3 DEF WalletInv, HasRead, NoReload
  <2> QED  BY <2>2, <2>4 DEF AtWallet, Settles
<1>2. Init => WalletInv
  BY WalletInit
<1>3. TypeOK /\ HeadRuns /\ WalletInv /\ [Next]_vars => WalletInv'
  BY WalletStep
<1> QED  BY <1>1, <1>2, <1>3, TypeAndHead, PTL DEF Spec

-----------------------------------------------------------------------------
(* Whose transactions are in a file *)

OwnCall(call) == \A t \in DOMAIN call.data : t[1] = call.address
OwnTasks ==
    /\ \A c \in Calls : ui_requests_[c] # NoCall => OwnCall(ui_requests_[c])
    /\ \A task \in Tasks(uiQueue) : task.op = "request" => OwnCall(task.call)
    /\ \A task \in Tasks(dbQueue) : task.op = "response" => OwnCall(task.call)
OpenIsOwn == dbOpen \in {NoAddress, db_wallet_first_address_}
OwnInv == OpenIsOwn /\ RowsAreOwn /\ OwnTasks

LEMMA TasksConcat ==
    ASSUME NEW S, NEW s \in Seq(S), NEW u \in Seq(S)
    PROVE  Tasks(s \o u) \subseteq Tasks(s) \cup Tasks(u)
<1> DEFINE t == s \o u
<1>1. /\ Len(s) \in Nat /\ Len(u) \in Nat
      /\ DOMAIN s = 1 .. Len(s) /\ DOMAIN u = 1 .. Len(u) /\ DOMAIN t = 1 .. Len(s) + Len(u)
      /\ \A i \in 1 .. Len(s) + Len(u) : t[i] = IF i <= Len(s) THEN s[i] ELSE u[i - Len(s)]
  OBVIOUS
<1> HIDE DEF t
<1>2. ASSUME NEW i \in 1 .. Len(s) + Len(u)  PROVE t[i] \in Tasks(s) \cup Tasks(u)
  <2>1. i \in 1 .. Len(s) \/ (i > Len(s) /\ i - Len(s) \in 1 .. Len(u))
    BY <1>1
  <2> QED  BY <1>1, <2>1 DEF Tasks
<1>3. Tasks(t) \subseteq Tasks(s) \cup Tasks(u)
  BY <1>1, <1>2 DEF Tasks
<1> QED  BY <1>3 DEF t

\* Tasks that are neither a request nor a response may come and go.
LEMMA OwnTasksKept ==
    ASSUME OwnTasks, UNCHANGED ui_requests_,
           \A task \in Tasks(uiQueue') : task \in Tasks(uiQueue) \/ task.op # "request"
                                            \/ DOMAIN task.call.data = {},
           \A task \in Tasks(dbQueue') : task \in Tasks(dbQueue) \/ task.op # "response"
    PROVE  OwnTasks'
BY DEF OwnTasks, OwnCall

\* A step that touches neither files nor the open one.
FilesSame == UNCHANGED <<files, dbOpen, db_wallet_first_address_>>

LEMMA FilesKept ==
    ASSUME OpenIsOwn, RowsAreOwn, FilesSame
    PROVE  OpenIsOwn' /\ RowsAreOwn'
BY DEF FilesSame, OpenIsOwn, RowsAreOwn

LEMMA RowsKept ==
    ASSUME RowsAreOwn, \A b \in Addresses : DOMAIN files'[b].rows \subseteq DOMAIN files[b].rows
    PROVE  RowsAreOwn'
BY DEF RowsAreOwn

\* The explorer, the page, the UI thread.
LEMMA OwnElsewhere ==
    ASSUME TypeOK, OwnInv,
           Explorer \/ (\E c \in Calls : Serve(c)) \/ WalletCalls \/ PageLoad \/ process_balance
             \/ UiStep
    PROVE  OwnInv'
<1>1. FilesSame
  BY DEF Explorer, NewBlock, Reorganize, NewChain, Serve, WalletCalls, local_set_wallet,
         local_reset_wallet, local_toggle, local_desync, WalletChange, PageLoad, process_balance,
         UiStep, ui_transaction_request, ui_transactions_response, process_results_to_js,
         process_results_to_js_broadcast, dbVars, FilesSame
<1>2. OpenIsOwn' /\ RowsAreOwn'
  BY <1>1, FilesKept DEF OwnInv
<1>3. CASE Explorer
  BY <1>2, <1>3, OwnTasksKept DEF Explorer, NewBlock, Reorganize, NewChain, OwnInv
<1>4. ASSUME NEW c \in Calls, Serve(c)  PROVE OwnInv'
  <2> DEFINE call == ui_requests_[c]
  <2>1. call # NoCall /\ call \in Call /\ OwnCall(call) /\ UNCHANGED <<uiQueue, dbQueue>>
    BY <1>4 DEF Serve, TypeOK, OwnInv, OwnTasks
  <2>2. ASSUME NEW from
        PROVE  OwnCall([call EXCEPT !.status = "listed", !.data = FirstOf(After(call.address, from))])
    BY <2>1, FirstOfTyped DEF OwnCall, Call
  <2>3. OwnCall([call EXCEPT !.status = "failed"])
    BY <2>1 DEF OwnCall, Call
  <2>4. \E reply : OwnCall(reply) /\ ui_requests_' = [ui_requests_ EXCEPT ![c] = reply]
    BY <1>4, <2>2, <2>3 DEF Serve
  <2>5. \A d \in Calls : ui_requests_'[d] # NoCall => OwnCall(ui_requests_'[d])
    BY <2>4 DEF TypeOK, OwnInv, OwnTasks
  <2>6. OwnTasks'
    BY <2>1, <2>5 DEF OwnInv, OwnTasks
  <2> QED  BY <1>2, <2>6 DEF OwnInv
<1>5. CASE WalletCalls
  <2>1. \E task \in DbTask : task.op # "response" /\ PostDb(task)
    <3>1. [op |-> "remove"] \in DbTask /\ [op |-> "desync"] \in DbTask
      BY DEF DbTask
    <3>2. ASSUME reload_wallet, java' \in [BOOLEAN -> AnyAddress], is_qa_' \in BOOLEAN
          PROVE  \E task \in DbTask : task.op # "response" /\ PostDb(task)
      <4>1. first_address_' \in AnyAddress
        BY <3>2, ReloadTyped
      <4>2. [op |-> "set_first_address", address |-> first_address_'] \in DbTask
        BY <4>1 DEF DbTask
      <4> QED  BY <3>2, <4>2 DEF reload_wallet
    <3>3. java' \in [BOOLEAN -> AnyAddress] /\ is_qa_' \in BOOLEAN
      BY <1>5, TypeWallet DEF TypeOK
    <3> QED  BY <1>5, <3>1, <3>2, <3>3 DEF WalletCalls, local_set_wallet, local_reset_wallet,
                                           local_toggle, local_desync
  <2>2. UNCHANGED <<uiQueue, ui_requests_>>
    BY <1>5 DEF WalletCalls, local_set_wallet, local_reset_wallet, local_toggle, local_desync,
                WalletChange
  <2>3. OwnTasks'
    BY <2>1, <2>2, PostDbTyped, OwnTasksKept DEF OwnInv
  <2> QED  BY <1>2, <2>3 DEF OwnInv
<1>6. CASE PageLoad
  <2> DEFINE e == [op |-> "last_block_hash", to |-> page.handler + 1]
  <2>1. e \in DbTask /\ e.op # "response"
    BY DEF DbTask, TypeOK, Page
  <2>2. (UNCHANGED dbQueue \/ PostDb(e)) /\ UNCHANGED <<uiQueue, ui_requests_>>
    BY <1>6 DEF PageLoad
  <2> HIDE DEF e
  <2>3. OwnTasks'
    BY <2>1, <2>2, PostDbTyped, OwnTasksKept DEF OwnInv
  <2> QED  BY <1>2, <2>3 DEF OwnInv
<1>7. CASE process_balance
  <2> DEFINE Quiet(s) == s \in Seq(DbTask) /\ \A task \in Tasks(s) : task.op # "response"
  <2>1. /\ [op |-> "import", to |-> page.handler, hash |-> top, height |-> top] \in DbTask
        /\ [op |-> "check", address |-> page.firstAddress,
            balance |-> Cardinality(Listed(page.firstAddress))] \in DbTask
        /\ [op |-> "transactions", to |-> page.handler] \in DbTask
    BY ListedFinite DEF DbTask, TypeOK, Page, AnyHash
  <2>2. Quiet(<<>>)
    BY DEF Tasks
  <2>3. ASSUME NEW task \in DbTask, task.op # "response"  PROVE Quiet(<<task>>)
    <3>1. <<task>> \in Seq(DbTask) /\ DOMAIN <<task>> = {1} /\ <<task>>[1] = task
      OBVIOUS
    <3> QED  BY <2>3, <3>1 DEF Tasks
  <2> HIDE DEF Quiet
  <2>4. PICK first, second : /\ Quiet(first) /\ Quiet(second)
                             /\ dbQueue' = dbQueue \o first \o second
    BY <1>7, <2>1, <2>2, <2>3 DEF process_balance
  <2>5. /\ first \in Seq(DbTask) /\ second \in Seq(DbTask) /\ dbQueue \in Seq(DbTask)
        /\ dbQueue \o first \in Seq(DbTask)
    BY <2>4, ConcatProperties DEF Quiet, TypeOK
  <2>6. Tasks(dbQueue') \subseteq Tasks(dbQueue) \cup Tasks(first) \cup Tasks(second)
    BY <2>4, <2>5, TasksConcat
  <2>7. OwnTasks'
    BY <1>7, <2>4, <2>6, OwnTasksKept DEF process_balance, Quiet, OwnInv
  <2> QED  BY <1>2, <2>7 DEF OwnInv
<1>8. ASSUME NEW c \in Calls, ui_transaction_request(c)  PROVE OwnInv'
  <2>1. /\ Head(uiQueue) \in Tasks(uiQueue) /\ Head(uiQueue).op = "request"
        /\ Tasks(uiQueue') \subseteq Tasks(uiQueue)
    BY <1>8, UiHead DEF ui_transaction_request
  <2>2. OwnCall(Head(uiQueue).call)
    BY <2>1 DEF OwnInv, OwnTasks
  <2>3. \A d \in Calls : ui_requests_'[d] # NoCall => OwnCall(ui_requests_'[d])
    BY <1>8, <2>2 DEF ui_transaction_request, TypeOK, OwnInv, OwnTasks
  <2>4. OwnTasks'
    BY <1>8, <2>1, <2>3 DEF ui_transaction_request, OwnInv, OwnTasks
  <2> QED  BY <1>2, <2>4 DEF OwnInv
<1>9. ASSUME NEW c \in Calls, ui_transactions_response(c)  PROVE OwnInv'
  <2> DEFINE e == [op |-> "response", call |-> ui_requests_[c]]
  <2>1. OwnCall(ui_requests_[c]) /\ ui_requests_[c] \in Call
    BY <1>9 DEF ui_transactions_response, OwnInv, OwnTasks, TypeOK
  <2>2. e \in DbTask /\ OwnCall(e.call)
    BY <2>1 DEF DbTask
  <2>3. PostDb(e) /\ UNCHANGED uiQueue
    BY <1>9 DEF ui_transactions_response
  <2> HIDE DEF e
  <2>4. Tasks(dbQueue') = Tasks(dbQueue) \cup {e}
    BY <2>2, <2>3, PostDbTyped
  <2>5. \A d \in Calls : ui_requests_'[d] # NoCall => OwnCall(ui_requests_'[d])
    BY <1>9 DEF ui_transactions_response, TypeOK, OwnInv, OwnTasks
  <2>6. OwnTasks'
    BY <2>2, <2>3, <2>4, <2>5 DEF OwnInv, OwnTasks
  <2> QED  BY <1>2, <2>6 DEF OwnInv
<1>10. CASE process_results_to_js \/ process_results_to_js_broadcast
  <2> DEFINE e == [op |-> "transactions", to |-> page.handler]
  <2>1. e \in DbTask /\ e.op # "response"
    BY DEF DbTask, TypeOK, Page
  <2>2. (UNCHANGED dbQueue \/ PostDb(e)) /\ UNCHANGED ui_requests_
    BY <1>10 DEF process_results_to_js, process_results_to_js_broadcast
  <2>3. Tasks(uiQueue') \subseteq Tasks(uiQueue)
    BY <1>10, UiHead DEF process_results_to_js, process_results_to_js_broadcast
  <2> HIDE DEF e
  <2>4. OwnTasks'
    BY <2>1, <2>2, <2>3, PostDbTyped, OwnTasksKept DEF OwnInv
  <2> QED  BY <1>2, <2>4 DEF OwnInv
<1> QED  BY <1>3, <1>4, <1>5, <1>6, <1>7, <1>8, <1>9, <1>10 DEF UiStep

\* The reply to a call is merged only when the call was for the present wallet, whose file
\* is the one open, if any is.
LEMMA OwnResponse ==
    ASSUME TypeOK, OwnInv, db_transactions_response
    PROVE  OwnInv'
<1> DEFINE call == Head(dbQueue).call
           full == Cardinality(DOMAIN call.data) = MAX_TRANSACTIONS
           Imported == [op |-> "imported", to |-> call.to, reload |-> TRUE]
<1>1. /\ Head(dbQueue) \in Tasks(dbQueue) /\ Head(dbQueue).op = "response"
      /\ Head(dbQueue) \in DbTask
      /\ dbQueue' = Tail(dbQueue) /\ Tasks(dbQueue') \subseteq Tasks(dbQueue)
      /\ UNCHANGED <<dbOpen, db_wallet_first_address_, ui_requests_>>
  BY DbHead DEF db_transactions_response, Done
<1>2. OwnCall(call) /\ call \in Call
  BY <1>1, DbTaskTyped DEF OwnInv, OwnTasks
<1>3. full \in BOOLEAN
  OBVIOUS
<1>4. DOMAIN call.data \in SUBSET Txs /\ call.to \in Nat /\ call.hash \in AnyHash
      /\ call.address \in Addresses
  BY <1>2, RowSetsElim DEF Call
<1> HIDE DEF call, full
<1>5. OpenIsOwn'
  BY <1>1 DEF OwnInv, OpenIsOwn
<1>6. RowsAreOwn'
  <2>1. CASE UNCHANGED files
    BY <2>1 DEF OwnInv, RowsAreOwn
  <2>2. CASE ~UNCHANGED files
    <3>1. /\ dbOpen # NoAddress /\ call.address = db_wallet_first_address_
          /\ files' = [files EXCEPT ![dbOpen] = AfterReply(@, call, full)]
      BY <2>2 DEF db_transactions_response, call, full
    <3>2. dbOpen \in Addresses /\ files[dbOpen] \in Files /\ dbOpen = call.address
      BY <3>1 DEF TypeOK, AnyAddress, OwnInv, OpenIsOwn
    <3> DEFINE after == AfterReply(files[dbOpen], call, full)
    <3>3. DOMAIN after.rows = DOMAIN files[dbOpen].rows \cup DOMAIN call.data
      BY <1>2, <1>3, <3>2, AfterReplyTyped
    <3>4. files' = [files EXCEPT ![dbOpen] = after]
      BY <3>1
    <3> HIDE DEF after
    <3>5. \A b \in Addresses : files'[b] = IF b = dbOpen THEN after ELSE files[b]
      BY <3>4 DEF TypeOK
    <3>6. \A t \in DOMAIN after.rows : t[1] = dbOpen
      BY <1>2, <3>2, <3>3 DEF OwnCall, OwnInv, RowsAreOwn
    <3> QED  BY <3>5, <3>6 DEF OwnInv, RowsAreOwn
  <2> QED  BY <2>1, <2>2
<1>7. OwnTasks'
  <2>1. \/ UNCHANGED uiQueue
        \/ PostUi(Imported)
        \/ /\ call.address = db_wallet_first_address_
           /\ \E last \in DOMAIN call.data : PostUi(Ask(last, call.to, call.hash))
    BY DEF db_transactions_response, call, full, LastOf
  <2>2. Imported \in UiTask /\ Imported.op # "request"
    BY <1>4 DEF UiTask
  <2>3. call.address = db_wallet_first_address_ =>
          \A last \in DOMAIN call.data :
              /\ Ask(last, call.to, call.hash) \in UiTask
              /\ DOMAIN Ask(last, call.to, call.hash).call.data = {}
    BY <1>4, AskTyped, ConstantsAssumption
  <2> HIDE DEF Imported
  <2>4. \A task \in Tasks(uiQueue') : task \in Tasks(uiQueue) \/ task.op # "request"
                                        \/ DOMAIN task.call.data = {}
    BY <2>1, <2>2, <2>3, PostUiTyped
  <2> QED  BY <1>1, <2>4, OwnTasksKept DEF OwnInv
<1> QED  BY <1>5, <1>6, <1>7 DEF OwnInv

LEMMA OwnDb ==
    ASSUME TypeOK, HeadRuns, OwnInv, DbStep
    PROVE  OwnInv'
<1>1. ASSUME db_set_first_address  PROVE OwnInv'
  <2>1. Head(dbQueue).address \in AnyAddress /\ Tasks(dbQueue') \subseteq Tasks(dbQueue)
    BY <1>1, DbHead, DbTaskTyped DEF db_set_first_address, Done
  <2>2. OpenIsOwn'
    BY <1>1, <2>1, CreateTyped DEF db_set_first_address, OpenIsOwn
  <2>3. RowsAreOwn' /\ OwnTasks'
    BY <1>1, <2>1, OwnTasksKept DEF db_set_first_address, OwnInv, RowsAreOwn
  <2> QED  BY <2>2, <2>3 DEF OwnInv
<1>2. ASSUME db_get_last_block_hash \/ db_get_transactions  PROVE OwnInv'
  <2>1. Tasks(dbQueue') \subseteq Tasks(dbQueue) /\ Head(dbQueue).to \in Nat
    BY <1>2, DbHead, DbTaskTyped DEF db_get_last_block_hash, db_get_transactions, Done
  <2>2. DOMAIN OpenRows \in SUBSET Txs /\ OpenHash \in AnyHash
    BY OpenTyped, RowSetsElim
  <2>3. PICK e \in UiTask : e.op # "request" /\ PostUi(e)
    <3>1. /\ [op |-> "last_block_hash", to |-> Head(dbQueue).to, hash |-> OpenHash] \in UiTask
          /\ [op |-> "transactions", to |-> Head(dbQueue).to, shown |-> DOMAIN OpenRows] \in UiTask
      BY <2>1, <2>2 DEF UiTask
    <3> QED  BY <1>2, <3>1 DEF db_get_last_block_hash, db_get_transactions
  <2>4. FilesSame /\ UNCHANGED ui_requests_
    BY <1>2 DEF db_get_last_block_hash, db_get_transactions, dbVars, FilesSame
  <2> QED  BY <2>1, <2>3, <2>4, PostUiTyped, OwnTasksKept, FilesKept DEF OwnInv
<1>3. ASSUME check_block_hash  PROVE OwnInv'
  <2> DEFINE task == Head(dbQueue)
             Same == [op |-> "imported", to |-> task.to, reload |-> FALSE]
  <2>1. task.to \in Nat /\ task.hash \in AnyHash /\ Tasks(dbQueue') \subseteq Tasks(dbQueue)
    BY <1>3, DbHead, DbTaskTyped DEF check_block_hash, Done
  <2>2. Same \in UiTask /\ Same.op # "request"
    BY <2>1 DEF UiTask
  <2>3. get_last_confirmed_txid(task.height) \subseteq Txs \cup {NoTx}
    BY OpenTyped, RowSetsElim DEF get_last_confirmed_txid
  <2>4. \/ PostUi(Same)
        \/ UNCHANGED uiQueue
        \/ /\ db_wallet_first_address_ # NoAddress
           /\ \E from \in Txs \cup {NoTx} : PostUi(Ask(from, task.to, task.hash))
    BY <1>3, <2>3 DEF check_block_hash
  <2>5. \A t \in Tasks(uiQueue') : t \in Tasks(uiQueue) \/ t.op # "request"
                                     \/ DOMAIN t.call.data = {}
    <3> HIDE DEF Same
    <3> QED  BY <2>1, <2>2, <2>4, PostUiTyped, AskTyped
  <2>6. FilesSame /\ UNCHANGED ui_requests_
    BY <1>3 DEF check_block_hash, dbVars, FilesSame
  <2> QED  BY <2>1, <2>5, <2>6, OwnTasksKept, FilesKept DEF OwnInv
<1>4. ASSUME db_check_transactions  PROVE OwnInv'
  <2>1. CASE Recreate
    <3>1. OpenIsOwn' /\ UNCHANGED ui_requests_
      BY <2>1, RecreateTyped DEF Recreate, OpenIsOwn
    <3>2. RowsAreOwn'
      BY <2>1, RecreateTyped, RowsKept DEF OwnInv
    <3>3. OwnTasks'
      BY <2>1, <3>1, RecreateTyped, OwnTasksKept DEF OwnInv
    <3> QED  BY <3>1, <3>2, <3>3 DEF OwnInv
  <2>2. CASE ~Recreate
    <3>1. /\ FilesSame /\ UNCHANGED <<uiQueue, ui_requests_>>
          /\ Tasks(dbQueue') \subseteq Tasks(dbQueue)
      BY <1>4, <2>2, DbHead DEF db_check_transactions, Done, dbVars, FilesSame
    <3> QED  BY <3>1, OwnTasksKept, FilesKept DEF OwnInv
  <2> QED  BY <2>1, <2>2
<1>5. ASSUME db_remove_database  PROVE OwnInv'
  <2>1. OpenIsOwn' /\ UNCHANGED <<uiQueue, dbQueue, ui_requests_>>
    BY <1>5 DEF db_remove_database, OwnInv, OpenIsOwn
  <2>2. RowsAreOwn'
    BY <1>5, RemoveTyped, RowsKept DEF db_remove_database, OwnInv, RowsAreOwn
  <2> QED  BY <2>1, <2>2, OwnTasksKept DEF OwnInv
<1>6. ASSUME on_remove_database  PROVE OwnInv'
  <2> DEFINE e == [op |-> "set_first_address", address |-> reloading[1]]
  <2>1. /\ FilesSame /\ UNCHANGED <<uiQueue, ui_requests_>>
        /\ dbQueue' = Append(Tail(dbQueue), e) /\ dbQueue # <<>>
    BY <1>6 DEF on_remove_database, FilesSame, HeadRuns
  <2>2. e \in DbTask /\ e.op # "response"
    <3>1. reloading[1] \in AnyAddress
      BY <1>6 DEF on_remove_database, TypeOK
    <3> QED  BY <3>1 DEF DbTask
  <2> HIDE DEF e
  <2> DEFINE t == Tail(dbQueue)
  <2>3. t \in Seq(DbTask) /\ Tasks(t) \subseteq Tasks(dbQueue)
    BY <2>1, TasksTail DEF TypeOK
  <2>4. dbQueue' = Append(t, e)
    BY <2>1
  <2> HIDE DEF t
  <2>5. Tasks(dbQueue') \subseteq Tasks(dbQueue) \cup {e}
    BY <2>2, <2>3, <2>4, TasksAppend
  <2> QED  BY <2>1, <2>2, <2>5, OwnTasksKept, FilesKept DEF OwnInv
<1>7. ASSUME db_desync  PROVE OwnInv'
  <2>1. /\ OpenIsOwn' /\ UNCHANGED <<uiQueue, ui_requests_>>
        /\ Tasks(dbQueue') \subseteq Tasks(dbQueue)
    BY <1>7, DbHead DEF db_desync, Done, OwnInv, OpenIsOwn
  <2>2. \A b \in Addresses : DOMAIN files'[b].rows \subseteq DOMAIN files[b].rows
    <3>1. CASE dbOpen = NoAddress
      BY <1>7, <3>1 DEF db_desync
    <3>2. CASE dbOpen # NoAddress
      <4>1. PICK kept \in SUBSET DOMAIN OpenRows :
              files' = [files EXCEPT ![dbOpen].rows = [t \in kept |-> OpenRows[t]]]
        BY <1>7, <3>2 DEF db_desync
      <4> DEFINE rows == [t \in kept |-> OpenRows[t]]
      <4>2. DOMAIN rows \subseteq DOMAIN files[dbOpen].rows
        BY <3>2 DEF OpenRows
      <4> HIDE DEF rows
      <4>3. files' = [files EXCEPT ![dbOpen].rows = rows]
        BY <4>1 DEF rows
      <4>4. dbOpen \in Addresses
        BY <3>2 DEF TypeOK, AnyAddress
      <4>5. \A b \in Addresses : files'[b].rows = IF b = dbOpen THEN rows ELSE files[b].rows
        BY <4>3, <4>4 DEF TypeOK, Files
      <4> QED  BY <4>2, <4>5
    <3> QED  BY <3>1, <3>2
  <2>3. RowsAreOwn'
    BY <2>2, RowsKept DEF OwnInv
  <2> QED  BY <2>1, <2>3, OwnTasksKept DEF OwnInv
<1> QED  BY <1>1, <1>2, <1>3, <1>4, <1>5, <1>6, <1>7, OwnResponse DEF DbStep

\* The end of the browser, also in the middle of a reply.
LEMMA OwnRestart ==
    ASSUME TypeOK, OwnInv, Restart
    PROVE  OwnInv'
<1>1. OpenIsOwn'
  BY DEF Restart, OpenIsOwn
<1>2. RowsAreOwn'
  <2> SUFFICES ASSUME NEW b \in Addresses, NEW t \in DOMAIN files'[b].rows  PROVE t[1] = b
    BY DEF RowsAreOwn
  <2>1. CASE t \in DOMAIN files[b].rows
    BY <2>1 DEF OwnInv, RowsAreOwn
  <2>2. CASE t \notin DOMAIN files[b].rows
    <3>1. /\ b = dbOpen /\ DbTurn("response")
          /\ Head(dbQueue).call.address = db_wallet_first_address_
          /\ t \in DOMAIN Head(dbQueue).call.data
      BY <2>2, TypeRestart
    <3>2. OwnCall(Head(dbQueue).call)
      BY <3>1, DbHead DEF OwnInv, OwnTasks
    <3>3. b = db_wallet_first_address_
      BY <3>1, ConstantsAssumption DEF OwnInv, OpenIsOwn
    <3> QED  BY <3>1, <3>2, <3>3 DEF OwnCall
  <2> QED  BY <2>1, <2>2
<1>3. OwnTasks'
  <2> DEFINE e == [op |-> "set_first_address", address |-> java[is_qa_]]
  <2>1. /\ dbQueue' = <<e>> /\ DOMAIN <<e>> = {1} /\ <<e>>[1] = e /\ uiQueue' = <<>>
        /\ ui_requests_' = [c \in Calls |-> NoCall]
    BY DEF Restart
  <2>2. Tasks(dbQueue') = {e} /\ Tasks(uiQueue') = {}
    BY <2>1 DEF Tasks
  <2> QED  BY <2>1, <2>2 DEF OwnTasks
<1> QED  BY <1>1, <1>2, <1>3 DEF OwnInv

LEMMA OwnInit == Init => OwnInv
<1> SUFFICES ASSUME Init  PROVE OwnInv
  OBVIOUS
<1> DEFINE e == [op |-> "set_first_address", address |-> first_address_]
<1>1. /\ dbQueue = <<e>> /\ DOMAIN <<e>> = {1} /\ <<e>>[1] = e /\ uiQueue = <<>>
      /\ ui_requests_ = [c \in Calls |-> NoCall]
  BY DEF Init
<1>2. Tasks(dbQueue) = {e} /\ Tasks(uiQueue) = {}
  BY <1>1 DEF Tasks
<1>3. OwnTasks
  BY <1>1, <1>2 DEF OwnTasks
<1>4. RowsAreOwn /\ OpenIsOwn
  <2>1. \A a \in Addresses : DOMAIN files[a].rows = {}
    BY NoRowsTyped DEF Init, NewFile
  <2> QED  BY <2>1 DEF Init, RowsAreOwn, OpenIsOwn
<1> QED  BY <1>3, <1>4 DEF OwnInv

LEMMA OwnStep ==
    ASSUME TypeOK, HeadRuns, OwnInv, [Next]_vars
    PROVE  OwnInv'
<1>1. CASE UNCHANGED vars
  BY <1>1, OwnTasksKept, FilesKept DEF vars, dbVars, FilesSame, OwnInv
<1> QED  BY <1>1, OwnElsewhere, OwnDb, OwnRestart DEF Next

\* Whatever becomes of the wallets while calls are under way, a file holds transactions of
\* its own wallet only: the call carries the wallet it was made for, and
\* db_transactions_response compares it with that of the file that is open.
THEOREM EachFileIsOwn == Spec => []RowsAreOwn
<1>1. Init => OwnInv
  BY OwnInit
<1>2. TypeOK /\ HeadRuns /\ OwnInv /\ [Next]_vars => OwnInv'
  BY OwnStep
<1>3. OwnInv => RowsAreOwn
  BY DEF OwnInv
<1> QED  BY <1>1, <1>2, <1>3, TypeAndHead, PTL DEF Spec

-----------------------------------------------------------------------------
(* Pages of the explorer *)

\* A function into the naturals is smallest somewhere.
LEMMA LeastAt ==
    ASSUME NEW T, T # {}, NEW f \in [T -> Nat]
    PROVE  \E x \in T : \A y \in T : f[x] <= f[y]
<1> DEFINE R == {ss \in Nat \X Nat : ss[1] < ss[2]}
           V == {f[x] : x \in T}
<1>1. IsWellFoundedOn(R, Nat)
  BY NatLessThanWellFounded DEF OpToRel
<1>2. V \subseteq Nat /\ V # {}
  OBVIOUS
<1> HIDE DEF R, V
<1>3. PICK m \in V : \A v \in V : <<v, m>> \notin R
  BY <1>1, <1>2, WFMin
<1>4. ASSUME NEW v \in V  PROVE m <= v
  <2>1. m \in Nat /\ v \in Nat /\ <<v, m>> \notin R
    BY <1>2, <1>3
  <2>2. ~(v < m)
    BY <2>1 DEF R
  <2> QED  BY <2>1, <2>2
<1> QED  BY <1>3, <1>4 DEF V

\* The transactions of one wallet are in a total order.
LEMMA BeforeOrder ==
    ASSUME TypeOK, NEW a, NEW s \in Txs, NEW t \in Txs, NEW u \in Txs,
           s[1] = a, t[1] = a, u[1] = a
    PROVE  /\ ~Before(height, s, s)
           /\ Before(height, s, t) /\ Before(height, t, u) => Before(height, s, u)
           /\ s = t \/ Before(height, s, t) \/ Before(height, t, s)
<1>1. /\ height[s] \in Int /\ height[t] \in Int /\ height[u] \in Int
      /\ s[2] \in Int /\ t[2] \in Int /\ u[2] \in Int
  BY ConstantsAssumption DEF TypeOK, Heights, Txs
<1>2. s = <<s[1], s[2]>> /\ t = <<t[1], t[2]>>
  BY DEF Txs
<1>3. s[2] = t[2] => s = t
  BY <1>2
<1> QED  BY <1>1, <1>3 DEF Before

\* FirstOf takes a beginning of the list, and leaves something out only when the page is full.
LEMMA FirstOfPage ==
    ASSUME TypeOK, NEW a, NEW from, NEW data, data = FirstOf(After(a, from))
    PROVE  /\ DOMAIN data \subseteq After(a, from)
           /\ \A t \in DOMAIN data : data[t] = height[t]
           /\ \A t \in DOMAIN data, u \in After(a, from) :
                  Before(height, u, t) => u \in DOMAIN data
           /\ Cardinality(DOMAIN data) = MAX_TRANSACTIONS \/ DOMAIN data = After(a, from)
<1> DEFINE S == After(a, from)
           Ahead(u) == {s \in S : Before(height, s, u)}
           rank == [u \in S |-> Cardinality(Ahead(u))]
           D == {u \in S : rank[u] < MAX_TRANSACTIONS}
<1>1. S \subseteq Txs /\ IsFiniteSet(S) /\ \A t \in S : t[1] = a
  <2>1. IsFiniteSet(1 .. TxCount)
    BY FS_Interval, ConstantsAssumption
  <2>2. IsFiniteSet(Txs)
    BY <2>1, FS_Product, ConstantsAssumption DEF Txs
  <2>3. S \subseteq Txs /\ \A t \in S : t[1] = a
    BY DEF After, Listed
  <2> QED  BY <2>2, <2>3, FS_Subset
<1>2. \A s, t \in S : ~Before(height, s, s) /\ (s = t \/ Before(height, s, t) \/ Before(height, t, s))
  BY <1>1, BeforeOrder
<1>3. \A s, t, u \in S : Before(height, s, t) /\ Before(height, t, u) => Before(height, s, u)
  BY <1>1, BeforeOrder
<1>4. data = [t \in D |-> height[t]]
  <2>1. D = {u \in S : Cardinality(Ahead(u)) < MAX_TRANSACTIONS}
    OBVIOUS
  <2> QED  BY <2>1 DEF FirstOf
<1>5. MAX_TRANSACTIONS \in Nat \ {0}
  BY ConstantsAssumption
<1> HIDE DEF S
<1>6. ASSUME NEW u \in S  PROVE IsFiniteSet(Ahead(u)) /\ rank[u] \in Nat
  <2>1. Ahead(u) \in SUBSET S
    OBVIOUS
  <2>2. IsFiniteSet(Ahead(u))
    BY <1>1, <2>1, FS_Subset
  <2> QED  BY <2>2, FS_CardinalityType
<1>7. rank \in [S -> Nat]
  BY <1>6
<1>8. ASSUME NEW s \in S, NEW u \in S, Before(height, s, u)  PROVE rank[s] < rank[u]
  <2>1. Ahead(s) \subseteq Ahead(u) /\ s \in Ahead(u) /\ s \notin Ahead(s)
    BY <1>2, <1>3, <1>8
  <2>2. IsFiniteSet(Ahead(u)) /\ Ahead(s) # Ahead(u)
    BY <1>6, <2>1
  <2> HIDE DEF Ahead
  <2>3. Cardinality(Ahead(s)) <= Cardinality(Ahead(u)) /\ Cardinality(Ahead(s)) # Cardinality(Ahead(u))
    BY <2>1, <2>2, FS_Subset
  <2> QED  BY <1>6, <2>3
<1> HIDE DEF rank
<1>9. ASSUME NEW t \in D, NEW u \in S, Before(height, u, t)  PROVE u \in D
  BY <1>5, <1>7, <1>8, <1>9
<1>10. ASSUME D # S  PROVE Cardinality(D) = MAX_TRANSACTIONS
  <2>1. PICK u \in S \ D : \A s \in S \ D : rank[u] <= rank[s]
    <3> DEFINE f == [s \in S \ D |-> rank[s]]
    <3>1. S \ D # {} /\ f \in [S \ D -> Nat]
      BY <1>7, <1>10
    <3> HIDE DEF D
    <3>2. \E x \in S \ D : \A y \in S \ D : f[x] <= f[y]
      BY <3>1, LeastAt
    <3> QED  BY <3>2
  <2>2. Ahead(u) = D
    <3>1. ASSUME NEW s \in S, Before(height, s, u)  PROVE s \in D
      <4>1. rank[s] < rank[u] /\ rank[s] \in Nat /\ rank[u] \in Nat
        BY <1>7, <1>8, <3>1
      <4> QED  BY <2>1, <4>1
    <3>2. ASSUME NEW s \in D  PROVE Before(height, s, u)
      <4>1. ~Before(height, u, s)
        BY <1>9, <2>1
      <4> QED  BY <1>2, <2>1, <4>1
    <3> QED  BY <3>1, <3>2
  <2>3. IsFiniteSet(D) /\ Cardinality(D) = rank[u] /\ Cardinality(D) \in Nat
    BY <1>6, <2>2 DEF rank
  <2>4. Cardinality(D) >= MAX_TRANSACTIONS
    BY <1>5, <2>1, <2>3
  <2>5. D # {}
    BY <1>5, <2>4, FS_EmptySet
  <2>6. PICK t \in D : \A s \in D : rank[s] <= rank[t]
    <3> DEFINE f == [s \in D |-> MAX_TRANSACTIONS - rank[s]]
    <3>1. f \in [D -> Nat]
      BY <1>5, <1>7
    <3>2. \A s \in D : rank[s] \in Nat /\ f[s] = MAX_TRANSACTIONS - rank[s]
      BY <1>7
    <3> HIDE DEF D, f
    <3>3. PICK x \in D : \A y \in D : f[x] <= f[y]
      BY <2>5, <3>1, LeastAt
    <3> QED  BY <1>5, <3>2, <3>3
  <2>7. Ahead(t) = D \ {t}
    <3>1. ASSUME NEW s \in S, Before(height, s, t)  PROVE s \in D \ {t}
      BY <1>2, <1>9, <3>1
    <3>2. ASSUME NEW s \in D, s # t  PROVE Before(height, s, t)
      <4>1. rank[s] <= rank[t] /\ rank[s] \in Nat /\ rank[t] \in Nat
        BY <1>7, <2>6
      <4>2. ~Before(height, t, s)
        BY <1>8, <4>1
      <4> QED  BY <1>2, <3>2, <4>2
    <3> QED  BY <3>1, <3>2
  <2>8. Cardinality(D) - 1 = rank[t] /\ rank[t] < MAX_TRANSACTIONS /\ rank[t] \in Nat
    <3>1. Cardinality(D \ {t}) = Cardinality(D) - 1
      BY <2>3, FS_RemoveElement
    <3>2. rank[t] = Cardinality(Ahead(t))
      BY DEF rank
    <3>3. rank[t] < MAX_TRANSACTIONS /\ rank[t] \in Nat
      BY <1>7
    <3> QED  BY <2>7, <3>1, <3>2, <3>3
  <2> QED  BY <1>5, <2>3, <2>4, <2>8
<1>11. DOMAIN data = D /\ \A t \in D : data[t] = height[t]
  BY <1>4
<1>12. D \subseteq S
  OBVIOUS
<1> HIDE DEF D
<1> QED  BY <1>9, <1>10, <1>11, <1>12 DEF S

-----------------------------------------------------------------------------
(* Whether an import may rely on what is stored *)

\* The calls of imports under way, wherever they are.
AllCalls ==
    {ui_requests_[c] : c \in {d \in Calls : ui_requests_[d] # NoCall}}
      \cup {task.call : task \in {t \in Tasks(uiQueue) : t.op = "request"}}
      \cup {task.call : task \in {t \in Tasks(dbQueue) : t.op = "response"}}

\* A transaction is stored where the explorer has it.
Stored(a, u) == u \in DOMAIN files[a].rows /\ files[a].rows[u] = height[u]

\* An import may begin behind t: it and all before it are stored, or the explorer no longer
\* knows it and lists everything.
Solid(a, t) ==
    \/ height[t] = 0
    \/ Stored(a, t) /\ \A u \in Listed(a) : Before(height, u, t) => Stored(a, u)

\* Confirmed transactions are solid; so are the others, unless a branch has moved them since
\* the last import.
ConfirmedSolid(a) == \A t \in DOMAIN files[a].rows :
                         top - files[a].rows[t] >= CONFIRMATIONS => Solid(a, t)
UnmovedSolid(a) == "moved" \notin gaps[a] => \A t \in DOMAIN files[a].rows : Solid(a, t)
HashSound(a) == (gaps[a] = {} /\ files[a].hash = top) => Listed(a) \subseteq DOMAIN files[a].rows
FileSound(a) == ConfirmedSolid(a) /\ UnmovedSolid(a) /\ HashSound(a)

\* A call asks behind a solid transaction; what a page lists, together with what is stored,
\* misses nothing before it; with the last page, all that was stored will be solid again.
AskSound(call) ==
    call.status = "asked" => \/ call.from = NoTx
                             \/ /\ call.from \in DOMAIN files[call.address].rows
                                /\ Solid(call.address, call.from)
PageSound(call) ==
    \A d \in DOMAIN call.data :
        /\ call.data[d] = height[d] /\ height[d] > 0
        /\ \A u \in Listed(call.address) :
               Before(height, u, d) => u \in DOMAIN call.data \/ Stored(call.address, u)
LastSound(call) ==
    LET rows == files[call.address].rows
    IN  (call.status = "listed" /\ Cardinality(DOMAIN call.data) # MAX_TRANSACTIONS) =>
            /\ \A t \in DOMAIN rows : t \in DOMAIN call.data \/ Solid(call.address, t)
            /\ call.hash = top =>
                   Listed(call.address) \subseteq DOMAIN call.data \cup DOMAIN rows
EmptySound(call) == call.status # "listed" => DOMAIN call.data = {}
CallSound(call) == EmptySound(call) /\ AskSound(call) /\ PageSound(call) /\ LastSound(call)

\* Nobody knows of blocks that are still to come, and replies are answers.
Past ==
    /\ \A t \in Txs : height[t] <= top
    /\ \A a \in Addresses : files[a].hash <= top
    /\ \A call \in AllCalls : call.hash <= top
    /\ \A task \in Tasks(dbQueue) :
           /\ task.op = "import" => task.hash <= top /\ task.height <= top
           /\ task.op = "response" => task.call.status # "asked"

ImportInv ==
    /\ Past
    /\ \A a \in Addresses : "disturbed" \notin gaps[a] => FileSound(a)
    /\ \A call \in AllCalls : "disturbed" \notin gaps[call.address] => CallSound(call)

LEMMA AllCallsTyped ==
    ASSUME TypeOK, OwnInv, NEW call \in AllCalls
    PROVE  call \in Call /\ OwnCall(call) /\ ImportUnderWay(call.address)
<1>1. CASE \E c \in Calls : ui_requests_[c] # NoCall /\ call = ui_requests_[c]
  BY <1>1 DEF TypeOK, OwnInv, OwnTasks, ImportUnderWay
<1>2. CASE \E task \in Tasks(uiQueue) : task.op = "request" /\ call = task.call
  <2>1. PICK i \in DOMAIN uiQueue : uiQueue[i].op = "request" /\ call = uiQueue[i].call
    BY <1>2 DEF Tasks
  <2>2. uiQueue[i] \in UiTask
    BY DEF TypeOK
  <2> QED  BY <1>2, <2>1, <2>2, UiTaskTyped DEF OwnInv, OwnTasks, ImportUnderWay
<1>3. CASE \E task \in Tasks(dbQueue) : task.op = "response" /\ call = task.call
  <2>1. PICK i \in DOMAIN dbQueue : dbQueue[i].op = "response" /\ call = dbQueue[i].call
    BY <1>3 DEF Tasks
  <2>2. dbQueue[i] \in DbTask
    BY DEF TypeOK
  <2> QED  BY <1>3, <2>1, <2>2, DbTaskTyped DEF OwnInv, OwnTasks, ImportUnderWay
<1> QED  BY <1>1, <1>2, <1>3 DEF AllCalls

\* Which calls are under way after a step.
LEMMA CallsKept ==
    ASSUME NEW X,
           \A c \in Calls : ui_requests_'[c] = NoCall \/ ui_requests_'[c] \in AllCalls \cup X,
           \A task \in Tasks(uiQueue') : \/ task \in Tasks(uiQueue) \/ task.op # "request"
                                         \/ task.call \in AllCalls \cup X,
           \A task \in Tasks(dbQueue') : \/ task \in Tasks(dbQueue) \/ task.op # "response"
                                         \/ task.call \in AllCalls \cup X
    PROVE  AllCalls' \subseteq AllCalls \cup X
<1> SUFFICES ASSUME NEW call \in AllCalls'  PROVE call \in AllCalls \cup X
  OBVIOUS
<1>1. CASE \E c \in Calls : ui_requests_'[c] # NoCall /\ call = ui_requests_'[c]
  BY <1>1
<1>2. CASE \E task \in Tasks(uiQueue') : task.op = "request" /\ call = task.call
  BY <1>2 DEF AllCalls
<1>3. CASE \E task \in Tasks(dbQueue') : task.op = "response" /\ call = task.call
  BY <1>3 DEF AllCalls
<1> QED  BY <1>1, <1>2, <1>3 DEF AllCalls

LEMMA RequestsListed ==
    ASSUME NEW c \in Calls, ui_requests_[c] # NoCall
    PROVE  ui_requests_[c] \in AllCalls
BY DEF AllCalls

LEMMA TasksListed ==
    /\ \A task \in Tasks(uiQueue) : task.op = "request" => task.call \in AllCalls
    /\ \A task \in Tasks(dbQueue) : task.op = "response" => task.call \in AllCalls
BY DEF AllCalls

\* A step that changes neither the chain nor a file, and adds the calls X.
LEMMA QuietStep ==
    ASSUME ImportInv, UNCHANGED <<files, gaps, chainVars>>,
           NEW X, AllCalls' \subseteq AllCalls \cup X,
           \A call \in X : call.hash <= top
                             /\ ("disturbed" \notin gaps[call.address] => CallSound(call)),
           \A task \in Tasks(dbQueue') :
               \/ task \in Tasks(dbQueue)
               \/ /\ task.op = "import" => task.hash <= top /\ task.height <= top
                  /\ task.op = "response" => task.call.status # "asked"
    PROVE  ImportInv'
<1>1. \A a, t : Solid(a, t)' <=> Solid(a, t)
  BY DEF Solid, Stored, Listed, Before, chainVars
<1>2. \A a \in Addresses : "disturbed" \notin gaps'[a] => FileSound(a)'
  BY <1>1 DEF ImportInv, FileSound, ConfirmedSolid, UnmovedSolid, HashSound, Listed, chainVars
<1>3. ASSUME NEW call, CallSound(call)  PROVE CallSound(call)'
  <2>1. EmptySound(call)' /\ AskSound(call)'
    BY <1>1, <1>3 DEF CallSound, EmptySound, AskSound
  <2>2. PageSound(call)'
    BY <1>3 DEF CallSound, PageSound, Stored, Listed, Before, chainVars
  <2>3. LastSound(call)'
    BY <1>1, <1>3 DEF CallSound, LastSound, Listed, chainVars
  <2> QED  BY <2>1, <2>2, <2>3 DEF CallSound
<1>4. \A call \in AllCalls' : call.hash <= top
                                /\ ("disturbed" \notin gaps[call.address] => CallSound(call))
  BY DEF ImportInv, Past
<1>5. Past'
  BY <1>4 DEF ImportInv, Past, chainVars
<1> QED  BY <1>2, <1>3, <1>4, <1>5 DEF ImportInv

LEMMA QuietNone ==
    ASSUME ImportInv, UNCHANGED <<files, gaps, chainVars>>, AllCalls' \subseteq AllCalls,
           \A task \in Tasks(dbQueue') :
               task \in Tasks(dbQueue) \/ task.op \notin {"import", "response"}
    PROVE  ImportInv'
<1> DEFINE X == {}
<1>1. AllCalls' \subseteq AllCalls \cup X
      /\ \A call \in X : call.hash <= top
                         /\ ("disturbed" \notin gaps[call.address] => CallSound(call))
  OBVIOUS
<1>2. \A task \in Tasks(dbQueue') :
          \/ task \in Tasks(dbQueue)
          \/ /\ task.op = "import" => task.hash <= top /\ task.height <= top
             /\ task.op = "response" => task.call.status # "asked"
  OBVIOUS
<1> HIDE DEF X
<1> QED  BY <1>1, <1>2, QuietStep

-----------------------------------------------------------------------------
(* Imports and the chain *)

\* What the next chain does to a stored transaction.
Touched(a, h, k, t) == files[a].rows[t] > k \/ height[t] > k \/ h[t] # height[t]

\* While nothing is disturbed, no confirmed transaction is touched, none becomes confirmed
\* after one has moved, and an import under way sees a chain that only grows.
LEMMA GapsCalm ==
    ASSUME NEW a, NEW h, NEW k, gaps'[a] = GapsAfter(a, h, k), "disturbed" \notin gaps'[a]
    PROVE  LET rows == files[a].rows
               Still == "moved" \notin gaps[a] /\ \A t \in DOMAIN rows : ~Touched(a, h, k, t)
           IN  /\ "disturbed" \notin gaps[a]
               /\ "moved" \notin gaps'[a] => Still
               /\ gaps'[a] = {} => gaps[a] = {}
               /\ \A t \in DOMAIN rows : top + 1 - rows[t] >= CONFIRMATIONS =>
                      ~Touched(a, h, k, t) /\ (~(top - rows[t] < CONFIRMATIONS) \/ Still)
               /\ ImportUnderWay(a) =>
                      ~(k < top) /\ \A t \in DOMAIN rows : ~Touched(a, h, k, t)
<1> DEFINE rows      == files[a].rows
           touched   == {t \in DOMAIN rows : Touched(a, h, k, t)}
           confirmed == {t \in DOMAIN rows : top + 1 - rows[t] >= CONFIRMATIONS}
           settling  == {t \in confirmed : top - rows[t] < CONFIRMATIONS}
           moved     == touched # {} \/ "moved" \in gaps[a]
           tooLate   == \/ ImportUnderWay(a) /\ (k < top \/ touched # {})
                        \/ touched \cap confirmed # {}
                        \/ moved /\ settling # {}
<1>1. gaps'[a] = gaps[a] \cup (IF moved THEN {"moved"} ELSE {})
                         \cup (IF tooLate THEN {"disturbed"} ELSE {})
  BY DEF GapsAfter, Touched
<1> HIDE DEF touched, confirmed, settling
<1>2. ~tooLate /\ "disturbed" \notin gaps[a] /\ ("moved" \notin gaps'[a] => ~moved)
      /\ (gaps'[a] = {} => gaps[a] = {})
  BY <1>1
<1>3. ~moved => "moved" \notin gaps[a] /\ \A t \in DOMAIN rows : ~Touched(a, h, k, t)
  BY DEF touched
<1>4. ASSUME NEW t \in DOMAIN rows, top + 1 - rows[t] >= CONFIRMATIONS
      PROVE  ~Touched(a, h, k, t) /\ (~(top - rows[t] < CONFIRMATIONS) \/ ~moved)
  BY <1>2, <1>4 DEF touched, confirmed, settling
<1>5. ImportUnderWay(a) => ~(k < top) /\ \A t \in DOMAIN rows : ~Touched(a, h, k, t)
  BY <1>2 DEF touched
<1> QED  BY <1>2, <1>3, <1>4, <1>5

\* The next chain has the blocks up to k of the present one.
SameUpTo(h, k) ==
    \A u \in Txs : ((h[u] > 0 /\ h[u] <= k) \/ (height[u] > 0 /\ height[u] <= k))
                        => h[u] = height[u]

\* What is solid and not touched stays solid.
LEMMA SolidChain ==
    ASSUME TypeOK, NEW h \in [Txs -> Heights], NEW k \in Heights, NewChain(h, k),
           SameUpTo(h, k),
           NEW a \in Addresses, NEW t \in Txs, h[t] = height[t], height[t] <= k, Solid(a, t)
    PROVE  Solid(a, t)'
<1>1. height' = h /\ UNCHANGED files
  BY DEF NewChain
<1>2. CASE height[t] = 0
  BY <1>1, <1>2 DEF Solid
<1>3. CASE height[t] # 0
  <2>1. Stored(a, t)'
    BY <1>1, <1>3 DEF Solid, Stored
  <2>2. ASSUME NEW u \in Listed(a)', Before(h, u, t)  PROVE Stored(a, u)'
    <3>1. u \in Txs /\ u[1] = a /\ h[u] > 0
      BY <1>1, <2>2 DEF Listed
    <3>2. h[u] <= h[t] /\ h[u] \in Int /\ h[t] \in Int /\ k \in Int
      BY <2>2, <3>1 DEF Before, Heights
    <3>3. height[u] = h[u]
      BY <3>1, <3>2 DEF SameUpTo
    <3>4. u \in Listed(a) /\ Before(height, u, t)
      BY <2>2, <3>1, <3>3 DEF Listed, Before
    <3> QED  BY <1>1, <1>3, <3>3, <3>4 DEF Solid, Stored
  <2> QED  BY <1>1, <2>1, <2>2 DEF Solid
<1> QED  BY <1>2, <1>3

LEMMA ImportChain ==
    ASSUME TypeOK, OwnInv, ImportInv, NEW h \in [Txs -> Heights], NEW k \in Heights,
           NewChain(h, k), k <= top, SameUpTo(h, k), \A t \in Txs : h[t] <= top + 1
    PROVE  ImportInv'
<1>1. /\ height' = h /\ top' = top + 1 /\ top \in Nat
      /\ UNCHANGED <<files, uiQueue, dbQueue, ui_requests_>>
      /\ \A a \in Addresses : gaps'[a] = GapsAfter(a, h, k)
  BY DEF NewChain, TypeOK, Heights
<1>2. AllCalls' = AllCalls
  BY <1>1 DEF AllCalls
<1>3. \A a \in Addresses : /\ DOMAIN files[a].rows \subseteq Txs
                           /\ \A t \in DOMAIN files[a].rows : files[a].rows[t] \in Int
                           /\ files[a].hash \in Int
  <2>1. \A a \in Addresses : files[a].rows \in RowSets /\ files[a].hash \in AnyHash
    BY DEF TypeOK, Files
  <2> QED  BY <2>1, RowSetsElim DEF AnyHash, Heights, Unknown, Missing
<1>4. Past'
  <2>1. \A call \in AllCalls : call.hash <= top + 1
    <3>1. \A call \in AllCalls : call.hash <= top /\ call.hash \in Int
      BY AllCallsTyped DEF Call, AnyHash, Heights, Unknown, Missing, ImportInv, Past
    <3> QED  BY <1>1, <3>1
  <2>2. ASSUME NEW task \in Tasks(dbQueue), task.op = "import"
        PROVE  task.hash <= top + 1 /\ task.height <= top + 1
    <3>1. task \in DbTask
      BY DEF Tasks, TypeOK
    <3>2. task.hash \in Int /\ task.height \in Int
      BY <2>2, <3>1, DbTaskTyped DEF AnyHash, Heights, Unknown, Missing
    <3> QED  BY <1>1, <2>2, <3>2 DEF ImportInv, Past
  <2>3. \A a \in Addresses : files[a].hash <= top + 1
    BY <1>1, <1>3 DEF ImportInv, Past
  <2>4. \A task \in Tasks(dbQueue) : task.op = "response" => task.call.status # "asked"
    BY DEF ImportInv, Past
  <2> QED  BY <1>1, <1>2, <2>1, <2>2, <2>3, <2>4 DEF Past
<1>5. ASSUME NEW a \in Addresses, NEW t \in DOMAIN files[a].rows, ~Touched(a, h, k, t), Solid(a, t)
      PROVE  Solid(a, t)'
  <2>1. t \in Txs /\ h[t] = height[t] /\ height[t] <= k
    BY <1>3, <1>5 DEF Touched, TypeOK, Heights
  <2> QED  BY <1>5, <2>1, SolidChain
<1>6. ASSUME NEW a \in Addresses, "disturbed" \notin gaps'[a]  PROVE FileSound(a)'
  <2> DEFINE rows == files[a].rows
             Still == "moved" \notin gaps[a] /\ \A t \in DOMAIN rows : ~Touched(a, h, k, t)
  <2>1. /\ "disturbed" \notin gaps[a]
        /\ "moved" \notin gaps'[a] => Still
        /\ \A t \in DOMAIN rows : top + 1 - rows[t] >= CONFIRMATIONS =>
               ~Touched(a, h, k, t) /\ (~(top - rows[t] < CONFIRMATIONS) \/ Still)
    BY <1>1, <1>6, GapsCalm
  <2>2. FileSound(a)
    BY <2>1 DEF ImportInv
  <2>3. ConfirmedSolid(a)'
    <3> SUFFICES ASSUME NEW t \in DOMAIN rows, top' - rows[t] >= CONFIRMATIONS
                 PROVE  Solid(a, t)'
      BY <1>1 DEF ConfirmedSolid
    <3>1. rows[t] \in Int /\ CONFIRMATIONS \in Int /\ top + 1 - rows[t] >= CONFIRMATIONS
      BY <1>1, <1>3, ConstantsAssumption
    <3>2. ~Touched(a, h, k, t) /\ (~(top - rows[t] < CONFIRMATIONS) \/ Still)
      BY <2>1, <3>1
    <3>3. top - rows[t] >= CONFIRMATIONS \/ Still
      BY <1>1, <3>1, <3>2
    <3>4. Solid(a, t)
      BY <2>2, <3>3 DEF FileSound, ConfirmedSolid, UnmovedSolid
    <3> QED  BY <1>5, <3>2, <3>4
  <2>4. UnmovedSolid(a)'
    BY <1>1, <1>5, <2>1, <2>2 DEF FileSound, UnmovedSolid
  <2>5. HashSound(a)'
    <3>1. files[a].hash # top + 1
      BY <1>1, <1>3 DEF ImportInv, Past
    <3> QED  BY <1>1, <3>1 DEF HashSound
  <2> QED  BY <2>3, <2>4, <2>5 DEF FileSound
<1>7. ASSUME NEW call \in AllCalls, "disturbed" \notin gaps'[call.address]  PROVE CallSound(call)'
  <2> DEFINE a == call.address
             rows == files[a].rows
  <2>1. call \in Call /\ a \in Addresses /\ OwnCall(call) /\ ImportUnderWay(a)
    BY AllCallsTyped DEF Call
  <2>2. /\ "disturbed" \notin gaps[a] /\ ~(k < top)
        /\ \A t \in DOMAIN rows : ~Touched(a, h, k, t)
    BY <1>1, <1>7, <2>1, GapsCalm
  <2>3. k = top
    BY <1>1, <2>2 DEF Heights
  <2>4. CallSound(call)
    BY <2>2 DEF ImportInv
  <2>5. \A t \in DOMAIN rows : Solid(a, t) => Solid(a, t)'
    BY <1>5, <2>1, <2>2
  <2>6. DOMAIN call.data \subseteq Txs /\ call.hash \in Int
    BY <2>1, RowSetsElim DEF Call, AnyHash, Heights, Unknown, Missing
  <2>7. EmptySound(call)' /\ AskSound(call)'
    BY <1>1, <2>4, <2>5 DEF CallSound, EmptySound, AskSound
  <2>8. PageSound(call)'
    <3> SUFFICES ASSUME NEW d \in DOMAIN call.data
                 PROVE  /\ call.data[d] = h[d] /\ h[d] > 0
                        /\ \A u \in Listed(a)' : Before(h, u, d) =>
                               u \in DOMAIN call.data \/ Stored(a, u)'
      BY <1>1 DEF PageSound
    <3>1. call.data[d] = height[d] /\ height[d] > 0 /\ height[d] <= top /\ d \in Txs
      BY <2>4, <2>6 DEF CallSound, PageSound, ImportInv, Past
    <3>2. h[d] = height[d]
      BY <2>3, <3>1 DEF SameUpTo
    <3>3. ASSUME NEW u \in Listed(a)', Before(h, u, d)
          PROVE  u \in DOMAIN call.data \/ Stored(a, u)'
      <4>1. u \in Txs /\ u[1] = a /\ h[u] > 0
        BY <1>1, <3>3 DEF Listed
      <4>2. h[u] <= h[d] /\ h[u] \in Int /\ h[d] \in Int
        BY <3>1, <3>3, <4>1 DEF Before, Heights
      <4>3. height[u] = h[u]
        BY <1>1, <2>3, <3>1, <3>2, <4>1, <4>2 DEF SameUpTo
      <4>4. u \in Listed(a) /\ Before(height, u, d)
        BY <3>2, <3>3, <4>1, <4>3 DEF Listed, Before
      <4>5. u \in DOMAIN call.data \/ Stored(a, u)
        BY <2>4, <4>4 DEF CallSound, PageSound
      <4> QED  BY <1>1, <4>3, <4>5 DEF Stored
    <3> QED  BY <3>1, <3>2, <3>3
  <2>9. LastSound(call)'
    <3>1. call.hash # top + 1
      BY <1>1, <2>6 DEF ImportInv, Past
    <3> QED  BY <1>1, <2>4, <2>5, <3>1 DEF CallSound, LastSound
  <2> QED  BY <2>7, <2>8, <2>9 DEF CallSound
<1> QED  BY <1>2, <1>4, <1>6, <1>7 DEF ImportInv

-----------------------------------------------------------------------------
(* Imports and the files *)

\* A step that changes the file of one wallet, or what it may be missing.
LEMMA FileStep ==
    ASSUME ImportInv, UNCHANGED chainVars, NEW a \in Addresses,
           \A b \in Addresses \ {a} : files'[b] = files[b] /\ gaps'[b] = gaps[b],
           files'[a].hash <= top,
           NEW X, AllCalls' \subseteq AllCalls \cup X,
           \A call \in X : call.hash <= top /\ call.address = a,
           \A call \in AllCalls : call.address \in Addresses,
           \A task \in Tasks(dbQueue') :
               task \in Tasks(dbQueue) \/ task.op \notin {"import", "response"},
           "disturbed" \notin gaps'[a] =>
               FileSound(a)' /\ \A call \in AllCalls' : call.address = a => CallSound(call)'
    PROVE  ImportInv'
<1>1. ASSUME NEW b \in Addresses \ {a}
      PROVE  /\ \A t : Solid(b, t)' <=> Solid(b, t)
             /\ \A t : Stored(b, t)' <=> Stored(b, t)
             /\ Listed(b)' = Listed(b)
  BY DEF Solid, Stored, Listed, Before, chainVars
<1>2. \A b \in Addresses \ {a} : "disturbed" \notin gaps'[b] => FileSound(b)'
  BY <1>1 DEF ImportInv, FileSound, ConfirmedSolid, UnmovedSolid, HashSound, chainVars
<1>3. ASSUME NEW call, call.address \in Addresses \ {a}, CallSound(call)  PROVE CallSound(call)'
  <2>1. EmptySound(call)' /\ AskSound(call)'
    BY <1>1, <1>3 DEF CallSound, EmptySound, AskSound
  <2>2. PageSound(call)'
    BY <1>1, <1>3 DEF CallSound, PageSound, Before, chainVars
  <2>3. LastSound(call)'
    BY <1>1, <1>3 DEF CallSound, LastSound, chainVars
  <2> QED  BY <2>1, <2>2, <2>3 DEF CallSound
<1>4. Past'
  <2>1. \A b \in Addresses : files'[b].hash <= top
    BY DEF ImportInv, Past
  <2>2. \A call \in AllCalls' : call.hash <= top
    BY DEF ImportInv, Past
  <2> QED  BY <2>1, <2>2 DEF ImportInv, Past, chainVars
<1>5. ASSUME NEW call \in AllCalls', "disturbed" \notin gaps'[call.address]  PROVE CallSound(call)'
  <2>1. CASE call.address = a
    BY <1>5, <2>1
  <2>2. CASE call.address # a
    <3>1. call \in AllCalls /\ call.address \in Addresses \ {a}
      BY <2>2
    <3>2. CallSound(call)
      BY <1>5, <3>1 DEF ImportInv
    <3> QED  BY <1>3, <3>1, <3>2
  <2> QED  BY <2>1, <2>2
<1> QED  BY <1>2, <1>4, <1>5 DEF ImportInv

\* What a sound page adds to a file is solid there, and what was solid stays so.
LEMMA MergeSolid ==
    ASSUME UNCHANGED chainVars, NEW a \in Addresses, NEW data,
           files'[a].rows = Merged(files[a].rows, data),
           \A d \in DOMAIN data :
               /\ data[d] = height[d] /\ height[d] > 0
               /\ \A u \in Listed(a) : Before(height, u, d) => u \in DOMAIN data \/ Stored(a, u)
    PROVE  /\ DOMAIN files'[a].rows = DOMAIN files[a].rows \cup DOMAIN data
           /\ \A t \in DOMAIN files[a].rows \ DOMAIN data : files'[a].rows[t] = files[a].rows[t]
           /\ \A t : Stored(a, t) => Stored(a, t)'
           /\ \A t : Solid(a, t) => Solid(a, t)'
           /\ \A t \in DOMAIN data : Solid(a, t)'
<1> DEFINE rows == files[a].rows
           after == files'[a].rows
<1>1. /\ DOMAIN after = DOMAIN rows \cup DOMAIN data
      /\ \A t \in DOMAIN rows \cup DOMAIN data :
             after[t] = IF t \in DOMAIN data THEN data[t] ELSE rows[t]
  BY DEF Merged
<1>2. height' = height /\ Listed(a)' = Listed(a)
  BY DEF chainVars, Listed
<1>3. \A t : t \in DOMAIN data \/ Stored(a, t) => Stored(a, t)'
  BY <1>1, <1>2 DEF Stored
<1>4. \A t : Solid(a, t) => Solid(a, t)'
  BY <1>2, <1>3 DEF Solid
<1>5. \A t \in DOMAIN data : Solid(a, t)'
  BY <1>2, <1>3 DEF Solid
<1> QED  BY <1>1, <1>3, <1>4, <1>5

\* A call that is sound stays so when a sound page is merged into its file.
LEMMA MergeCall ==
    ASSUME UNCHANGED chainVars, NEW call, NEW data, call.address \in Addresses,
           files'[call.address].rows = Merged(files[call.address].rows, data),
           \A d \in DOMAIN data :
               /\ data[d] = height[d] /\ height[d] > 0
               /\ \A u \in Listed(call.address) :
                      Before(height, u, d) => u \in DOMAIN data \/ Stored(call.address, u),
           CallSound(call)
    PROVE  CallSound(call)'
<1> DEFINE a == call.address
<1>1. /\ DOMAIN files'[a].rows = DOMAIN files[a].rows \cup DOMAIN data
      /\ \A t : Stored(a, t) => Stored(a, t)'
      /\ \A t : Solid(a, t) => Solid(a, t)'
      /\ \A t \in DOMAIN data : Solid(a, t)'
  BY MergeSolid
<1>2. height' = height /\ top' = top /\ Listed(a)' = Listed(a)
  BY DEF chainVars, Listed
<1>3. EmptySound(call)' /\ AskSound(call)'
  BY <1>1 DEF CallSound, EmptySound, AskSound
<1>4. PageSound(call)'
  BY <1>1, <1>2 DEF CallSound, PageSound
<1>5. LastSound(call)'
  BY <1>1, <1>2 DEF CallSound, LastSound
<1> QED  BY <1>3, <1>4, <1>5 DEF CallSound

\* Removing a file leaves nothing to be missed, unless an import is under way.
LEMMA ImportRemoved ==
    ASSUME TypeOK, OwnInv, ImportInv, NEW a \in Addresses, Removed(a), UNCHANGED chainVars,
           AllCalls' \subseteq AllCalls,
           \A task \in Tasks(dbQueue') :
               task \in Tasks(dbQueue) \/ task.op \notin {"import", "response"}
    PROVE  ImportInv'
<1>1. /\ files'[a] = NewFile
      /\ gaps'[a] = IF ImportUnderWay(a) THEN {"disturbed"} ELSE {}
      /\ \A b \in Addresses \ {a} : files'[b] = files[b] /\ gaps'[b] = gaps[b]
  BY DEF Removed, TypeOK
<1>2. DOMAIN files'[a].rows = {} /\ files'[a].hash = -2 /\ top \in Nat
  BY <1>1, NoRowsTyped DEF NewFile, Missing, TypeOK, Heights
<1>3. FileSound(a)'
  <2>1. top' = top
    BY DEF chainVars
  <2> QED  BY <1>2, <2>1 DEF FileSound, ConfirmedSolid, UnmovedSolid, HashSound
<1>4. "disturbed" \notin gaps'[a] => \A call \in AllCalls' : call.address # a
  BY <1>1, AllCallsTyped
<1>5. \A call \in AllCalls : call.address \in Addresses
  BY AllCallsTyped DEF Call
<1>6. files'[a].hash <= top
  BY <1>2
<1>7. AllCalls' \subseteq AllCalls \cup {}
  OBVIOUS
<1>8. \A call \in {} : call.hash <= top /\ call.address = a
  OBVIOUS
<1> QED  BY <1>1, <1>3, <1>4, <1>5, <1>6, <1>7, <1>8, FileStep

\* A reply: what it adds is solid, the next call begins behind the last of it, and after the
\* last page everything stored is solid.
LEMMA ImportResponse ==
    ASSUME TypeOK, OwnInv, ImportInv, db_transactions_response
    PROVE  ImportInv'
<1>0. PICK call, a : call = Head(dbQueue).call /\ a = db_wallet_first_address_
  OBVIOUS
<1> DEFINE full == Cardinality(DOMAIN call.data) = MAX_TRANSACTIONS
           Imported == [op |-> "imported", to |-> call.to, reload |-> TRUE]
           Further(last) == Ask(last, call.to, call.hash)
<1>1. /\ Head(dbQueue) \in Tasks(dbQueue) /\ Head(dbQueue).op = "response"
      /\ Head(dbQueue) \in DbTask
      /\ Tasks(dbQueue') \subseteq Tasks(dbQueue)
      /\ UNCHANGED <<ui_requests_, db_wallet_first_address_>> /\ UNCHANGED chainVars
  BY DbHead DEF db_transactions_response, Done
<1>2. call \in AllCalls /\ call.status # "asked"
  BY <1>0, <1>1, TasksListed DEF ImportInv, Past
<1>3. call \in Call /\ call.address \in Addresses /\ call.to \in Nat /\ call.hash \in AnyHash
      /\ DOMAIN call.data \in SUBSET Txs /\ call.hash <= top
  BY <1>2, AllCallsTyped, RowSetsElim DEF Call, ImportInv, Past
<1>4. \A other \in AllCalls : other.address \in Addresses
  BY AllCallsTyped DEF Call
<1> DEFINE data == call.data
<1> HIDE DEF full
<1>5. ASSUME NEW X, X = {} \/ \E last \in DOMAIN data : X = {Further(last).call},
             \A task \in Tasks(uiQueue') : \/ task \in Tasks(uiQueue) \/ task.op # "request"
                                           \/ task.call \in X
      PROVE  AllCalls' \subseteq AllCalls \cup X
  <2>1. \A c \in Calls : ui_requests_'[c] = NoCall \/ ui_requests_'[c] \in AllCalls \cup X
    BY <1>1, RequestsListed
  <2> QED  BY <1>1, <1>5, <2>1, CallsKept
<1>6. CASE call.address # a
  <2>1. UNCHANGED <<uiQueue, files, gaps>>
    BY <1>0, <1>6 DEF db_transactions_response
  <2>2. AllCalls' \subseteq AllCalls \cup {}
    BY <1>5, <2>1
  <2> QED  BY <1>1, <2>1, <2>2, QuietNone
<1>7. CASE call.address = a
  <2>1. Imported \in UiTask /\ Imported.op = "imported"
    BY <1>3 DEF UiTask
  <2>2. ASSUME NEW last \in DOMAIN data
        PROVE  /\ Further(last) \in UiTask
               /\ Further(last).call.address = a /\ Further(last).call.hash = call.hash
               /\ Further(last).call.from = last /\ Further(last).call.status = "asked"
               /\ DOMAIN Further(last).call.data = {}
    <3>1. a # NoAddress /\ last \in Txs \cup {NoTx}
      BY <1>0, <1>3, <1>7, ConstantsAssumption
    <3>2. Further(last) \in UiTask /\ DOMAIN Further(last).call.data = {}
      BY <1>0, <1>3, <3>1, AskTyped
    <3> QED  BY <1>0, <3>2 DEF Ask
  <2>3. PICK X : /\ AllCalls' \subseteq AllCalls \cup X
                 /\ X = {} \/ (full /\ \E last \in DOMAIN data : X = {Further(last).call})
    <3>1. CASE full
      <4>1. PICK last \in DOMAIN data : PostUi(Further(last))
        BY <1>0, <1>7, <3>1 DEF db_transactions_response, full, LastOf
      <4>2. Tasks(uiQueue') = Tasks(uiQueue) \cup {Further(last)}
        BY <2>2, <4>1, PostUiTyped
      <4>3. AllCalls' \subseteq AllCalls \cup {Further(last).call}
        BY <1>5, <4>2
      <4> QED  BY <3>1, <4>3
    <3>2. CASE ~full
      <4>1. PostUi(Imported)
        BY <1>0, <1>7, <3>2 DEF db_transactions_response, full
      <4> HIDE DEF Imported
      <4>2. Tasks(uiQueue') = Tasks(uiQueue) \cup {Imported}
        BY <2>1, <4>1, PostUiTyped
      <4>3. AllCalls' \subseteq AllCalls \cup {}
        BY <1>5, <2>1, <4>2
      <4> QED  BY <4>3
    <3> QED  BY <3>1, <3>2
  <2>4. \A other \in X : other.hash <= top /\ other.address = a
    BY <1>3, <2>2, <2>3
  <2>5. a \in Addresses
    BY <1>3, <1>7
  <2>6. CASE dbOpen = NoAddress
    <3>1. UNCHANGED files /\ gaps' = [gaps EXCEPT ![a] = IF full THEN @ \cup {"disturbed"} ELSE @]
      BY <1>0, <1>7, <2>6 DEF db_transactions_response, full
    <3>2. CASE full
      <4>1. "disturbed" \in gaps'[a] /\ \A b \in Addresses \ {a} : gaps'[b] = gaps[b]
        BY <2>5, <3>1, <3>2 DEF TypeOK
      <4>2. files'[a].hash <= top
        BY <2>5, <3>1 DEF ImportInv, Past
      <4> QED  BY <1>1, <1>4, <2>3, <2>4, <2>5, <3>1, <4>1, <4>2, FileStep
    <3>3. CASE ~full
      <4>1. UNCHANGED gaps
        BY <3>1, <3>3 DEF TypeOK
      <4>2. X = {}
        BY <2>3, <3>3
      <4> QED  BY <1>1, <2>3, <3>1, <4>1, <4>2, QuietNone
    <3> QED  BY <3>2, <3>3
  <2>7. CASE dbOpen # NoAddress
    <3>1. dbOpen = a
      BY <1>0, <2>7 DEF OwnInv, OpenIsOwn
    <3>2. /\ files' = [files EXCEPT ![a] = AfterReply(@, call, full)]
          /\ gaps' = [gaps EXCEPT ![a] = IF full THEN @
                                         ELSE IF call.status = "failed" THEN @ \cup {"failed"}
                                         ELSE @ \ {"failed", "moved"}]
      BY <1>0, <1>7, <2>7, <3>1 DEF db_transactions_response, full
    <3>3. /\ files'[a] = AfterReply(files[a], call, full)
          /\ gaps'[a] = IF full THEN gaps[a]
                        ELSE IF call.status = "failed" THEN gaps[a] \cup {"failed"}
                        ELSE gaps[a] \ {"failed", "moved"}
          /\ \A b \in Addresses \ {a} : files'[b] = files[b] /\ gaps'[b] = gaps[b]
      BY <2>5, <3>2 DEF TypeOK
    <3>4. /\ files'[a].rows = Merged(files[a].rows, data)
          /\ files'[a].hash = IF full THEN files[a].hash ELSE call.hash
      BY <3>3 DEF AfterReply
    <3>5. files'[a].hash <= top
      BY <1>3, <2>5, <3>4 DEF ImportInv, Past
    <3>6. ASSUME "disturbed" \notin gaps'[a]
          PROVE  FileSound(a)' /\ \A other \in AllCalls' : other.address = a => CallSound(other)'
      <4>1. "disturbed" \notin gaps[a] /\ (gaps'[a] = {} => full \/ call.status # "failed")
        BY <3>3, <3>6
      <4>2. FileSound(a) /\ CallSound(call)
        BY <1>2, <1>7, <2>5, <4>1 DEF ImportInv
      <4>3. \A d \in DOMAIN data :
              /\ data[d] = height[d] /\ height[d] > 0
              /\ \A u \in Listed(a) : Before(height, u, d) => u \in DOMAIN data \/ Stored(a, u)
        BY <1>0, <1>7, <4>2 DEF CallSound, PageSound
      <4>4. /\ DOMAIN files'[a].rows = DOMAIN files[a].rows \cup DOMAIN data
            /\ \A t \in DOMAIN files[a].rows \ DOMAIN data : files'[a].rows[t] = files[a].rows[t]
            /\ \A t : Solid(a, t) => Solid(a, t)'
            /\ \A t \in DOMAIN data : Solid(a, t)'
        BY <1>1, <2>5, <3>4, <4>3, MergeSolid
      <4>5. top' = top /\ Listed(a)' = Listed(a)
        BY <1>1 DEF chainVars, Listed
      <4>6. call.status = "listed" /\ ~full =>
               /\ \A t \in DOMAIN files[a].rows : t \in DOMAIN data \/ Solid(a, t)
               /\ call.hash = top => Listed(a) \subseteq DOMAIN data \cup DOMAIN files[a].rows
        BY <1>0, <1>7, <4>2 DEF CallSound, LastSound, full
      <4>7. call.status = "listed" \/ call.status = "failed"
        BY <1>2, <1>3 DEF Call
      <4>8. ConfirmedSolid(a)'
        BY <4>2, <4>4, <4>5 DEF FileSound, ConfirmedSolid
      <4>9. UnmovedSolid(a)'
        <5> SUFFICES ASSUME "moved" \notin gaps'[a], NEW t \in DOMAIN files'[a].rows
                     PROVE  Solid(a, t)'
          BY DEF UnmovedSolid
        <5>1. CASE "moved" \notin gaps[a]
          BY <4>2, <4>4, <5>1 DEF FileSound, UnmovedSolid
        <5>2. CASE "moved" \in gaps[a]
          <6>1. ~full /\ call.status = "listed"
            BY <3>3, <4>7, <5>2
          <6> QED  BY <4>4, <4>6, <6>1
        <5> QED  BY <5>1, <5>2
      <4>10. HashSound(a)'
        <5> SUFFICES ASSUME gaps'[a] = {}, files'[a].hash = top
                     PROVE  Listed(a) \subseteq DOMAIN files'[a].rows
          BY <4>5 DEF HashSound
        <5>1. CASE full
          BY <3>3, <3>4, <4>2, <4>4, <5>1 DEF FileSound, HashSound
        <5>2. CASE ~full
          BY <3>4, <4>1, <4>4, <4>6, <4>7, <5>2
        <5> QED  BY <5>1, <5>2
      <4>11. ASSUME NEW other \in AllCalls', other.address = a  PROVE CallSound(other)'
        <5>1. CASE other \in AllCalls
          <6>1. CallSound(other)
            BY <4>1, <4>11, <5>1, <2>5 DEF ImportInv
          <6> QED  BY <1>1, <2>5, <3>4, <4>3, <4>11, <6>1, MergeCall
        <5>2. CASE other \notin AllCalls
          <6>1. PICK last \in DOMAIN data : other = Further(last).call
            BY <2>3, <5>2
          <6>2. /\ other.address = a /\ other.from = last /\ other.status = "asked"
                /\ DOMAIN other.data = {}
            BY <2>2, <6>1
          <6>3. Solid(a, last)' /\ last \in DOMAIN files'[a].rows
            BY <4>4
          <6>4. EmptySound(other)' /\ PageSound(other)'
            BY <6>2 DEF EmptySound, PageSound
          <6>5. AskSound(other)' /\ LastSound(other)'
            BY <6>2, <6>3 DEF AskSound, LastSound
          <6> QED  BY <6>4, <6>5 DEF CallSound
        <5> QED  BY <5>1, <5>2
      <4> QED  BY <4>8, <4>9, <4>10, <4>11 DEF FileSound
    <3> QED  BY <1>1, <1>4, <2>3, <2>4, <2>5, <3>3, <3>5, <3>6, FileStep
  <2> QED  BY <2>6, <2>7
<1> QED  BY <1>6, <1>7

-----------------------------------------------------------------------------
(* Imports and everything else *)

\* The explorer lists what follows a solid transaction, or everything.
LEMMA ServedSound ==
    ASSUME TypeOK, NEW call \in Call, AskSound(call), RowsAreOwn, call.status = "asked",
           NEW start, start = IF call.from = NoTx \/ call.from \in Listed(call.address)
                              THEN call.from ELSE NoTx,
           NEW reply, reply = [call EXCEPT !.status = "listed",
                                           !.data = FirstOf(After(call.address, start))]
    PROVE  CallSound(reply)
<1> DEFINE a == call.address
           rows == files[a].rows
           S == After(a, start)
           data == FirstOf(S)
<1>1. reply.address = a /\ reply.status = "listed" /\ reply.data = data /\ reply.hash = call.hash
  BY DEF Call
<1>2. a \in Addresses /\ files[a].rows \in RowSets
  BY DEF Call, TypeOK, Files
<1>3. DOMAIN rows \subseteq Txs /\ (\A t \in DOMAIN rows : t[1] = a)
      /\ Listed(a) \subseteq Txs /\ (\A t \in Listed(a) : t[1] = a /\ height[t] > 0)
  BY <1>2, RowSetsElim DEF RowsAreOwn, Listed
<1>4. /\ DOMAIN data \subseteq S /\ S \subseteq Listed(a)
      /\ \A t \in DOMAIN data : data[t] = height[t]
      /\ \A t \in DOMAIN data, u \in S : Before(height, u, t) => u \in DOMAIN data
      /\ Cardinality(DOMAIN data) = MAX_TRANSACTIONS \/ DOMAIN data = S
  <2>1. S \subseteq Listed(a)
    BY DEF After
  <2> QED  BY <2>1, FirstOfPage
<1> HIDE DEF data
<1>5. start = NoTx \/ (start \in Listed(a) /\ start \in DOMAIN rows /\ Solid(a, start))
  BY DEF AskSound
<1>6. ASSUME NEW u \in Listed(a), u \notin S
      PROVE  start \in Listed(a) /\ (u = start \/ Before(height, u, start)) /\ Solid(a, u)
             /\ Stored(a, u)
  <2>1. start # NoTx /\ ~Before(height, start, u)
    BY <1>6 DEF After
  <2>2. start \in Listed(a) /\ Solid(a, start)
    BY <1>5, <2>1
  <2>3. u = start \/ Before(height, u, start)
    BY <1>3, <2>1, <2>2, BeforeOrder
  <2>4. /\ Stored(a, start)
        /\ \A v \in Listed(a) : Before(height, v, start) => Stored(a, v)
    BY <1>3, <2>2 DEF Solid
  <2>5. \A v \in Listed(a) : Before(height, v, u) => Before(height, v, start)
    BY <1>3, <2>2, <2>3, BeforeOrder
  <2>6. Stored(a, u) /\ Solid(a, u)
    BY <2>3, <2>4, <2>5 DEF Solid
  <2> QED  BY <2>2, <2>3, <2>6
<1>7. PageSound(reply)
  BY <1>1, <1>3, <1>4, <1>6 DEF PageSound
<1>8. LastSound(reply)
  <2> SUFFICES ASSUME Cardinality(DOMAIN data) # MAX_TRANSACTIONS
               PROVE  /\ \A t \in DOMAIN rows : t \in DOMAIN data \/ Solid(a, t)
                      /\ Listed(a) \subseteq DOMAIN data \cup DOMAIN rows
    BY <1>1 DEF LastSound
  <2>1. DOMAIN data = S
    BY <1>4
  <2>2. ASSUME NEW t \in DOMAIN rows, t \notin Listed(a)  PROVE Solid(a, t)
    <3>1. t \in Txs /\ t[1] = a /\ height[t] \in Nat
      BY <1>3 DEF TypeOK, Heights
    <3>2. height[t] = 0
      BY <2>2, <3>1 DEF Listed
    <3> QED  BY <3>2 DEF Solid
  <2> QED  BY <1>6, <2>1, <2>2 DEF Stored
<1>9. EmptySound(reply) /\ AskSound(reply)
  BY <1>1 DEF EmptySound, AskSound
<1> QED  BY <1>7, <1>8, <1>9 DEF CallSound

LEMMA ImportServe ==
    ASSUME TypeOK, OwnInv, ImportInv, NEW c \in Calls, Serve(c)
    PROVE  ImportInv'
<1>0. PICK call : call = ui_requests_[c]
  OBVIOUS
<1>1. /\ call \in AllCalls /\ call # NoCall /\ call.status = "asked"
      /\ UNCHANGED <<uiQueue, dbQueue>> /\ UNCHANGED <<files, gaps, chainVars>>
  BY <1>0, RequestsListed DEF Serve, dbVars
<1>2. call \in Call /\ call.hash <= top
  BY <1>1, AllCallsTyped DEF ImportInv, Past
<1> DEFINE start == IF call.from = NoTx \/ call.from \in Listed(call.address)
                    THEN call.from ELSE NoTx
<1>3. PICK reply : /\ ui_requests_' = [ui_requests_ EXCEPT ![c] = reply]
                   /\ \/ reply = [call EXCEPT !.status = "listed",
                                              !.data = FirstOf(After(call.address, start))]
                      \/ reply = [call EXCEPT !.status = "failed"]
  BY <1>0 DEF Serve
<1>4. reply.hash = call.hash /\ reply.address = call.address
  BY <1>2, <1>3 DEF Call
<1>5. ASSUME CallSound(call)  PROVE CallSound(reply)
  <2>1. CASE reply = [call EXCEPT !.status = "failed"]
    <3>1. reply.status = "failed" /\ reply.data = call.data /\ DOMAIN call.data = {}
      BY <1>1, <1>2, <1>5, <2>1 DEF Call, CallSound, EmptySound
    <3> QED  BY <3>1 DEF CallSound, EmptySound, AskSound, PageSound, LastSound
  <2>2. CASE reply # [call EXCEPT !.status = "failed"]
    <3>1. AskSound(call) /\ RowsAreOwn
      BY <1>5 DEF CallSound, OwnInv
    <3> QED  BY <1>1, <1>2, <1>3, <2>2, <3>1, ServedSound
  <2> QED  BY <2>1, <2>2
<1>6. AllCalls' \subseteq AllCalls \cup {reply}
  <2>1. \A d \in Calls : ui_requests_'[d] = NoCall \/ ui_requests_'[d] \in AllCalls \cup {reply}
    BY <1>3, RequestsListed DEF TypeOK
  <2> QED  BY <1>1, <2>1, CallsKept
<1>7. \A other \in {reply} : other.hash <= top
                               /\ ("disturbed" \notin gaps[other.address] => CallSound(other))
  BY <1>1, <1>2, <1>4, <1>5 DEF ImportInv
<1> QED  BY <1>1, <1>6, <1>7, QuietStep

\* A step that adds no calls, and no import but of the present chain.
LEMMA OtherStep ==
    ASSUME ImportInv, top \in Int, UNCHANGED <<files, gaps, chainVars>>, UNCHANGED ui_requests_,
           \A task \in Tasks(uiQueue') : task \in Tasks(uiQueue) \/ task.op # "request",
           \A task \in Tasks(dbQueue') :
               \/ task \in Tasks(dbQueue)
               \/ task.op = "import" /\ task.hash = top /\ task.height = top
               \/ task.op \notin {"import", "response"}
    PROVE  ImportInv'
<1> DEFINE X == {}
<1>1. AllCalls' \subseteq AllCalls \cup X
  <2>1. \A c \in Calls : ui_requests_'[c] = NoCall \/ ui_requests_'[c] \in AllCalls \cup X
    BY RequestsListed
  <2> HIDE DEF X
  <2> QED  BY <2>1, CallsKept
<1>2. \A call \in X : call.hash <= top
                        /\ ("disturbed" \notin gaps[call.address] => CallSound(call))
  OBVIOUS
<1>3. \A task \in Tasks(dbQueue') :
          \/ task \in Tasks(dbQueue)
          \/ /\ task.op = "import" => task.hash <= top /\ task.height <= top
             /\ task.op = "response" => task.call.status # "asked"
  OBVIOUS
<1> HIDE DEF X
<1> QED  BY <1>1, <1>2, <1>3, QuietStep

\* The chain, the page, the UI thread.
LEMMA ImportElsewhere ==
    ASSUME TypeOK, OwnInv, ImportInv,
           Explorer \/ WalletCalls \/ PageLoad \/ process_balance \/ UiStep
    PROVE  ImportInv'
<1>0. top \in Nat /\ top \in Int /\ top \in Heights
  BY DEF TypeOK, Heights
<1>1. ASSUME NEW S \in SUBSET Txs, NewBlock(S)  PROVE ImportInv'
  <2> DEFINE h == [t \in Txs |-> IF t \in S THEN top + 1 ELSE height[t]]
  <2>1. NewChain(h, top) /\ top + 1 \in Heights /\ \A t \in S : height[t] = 0
    BY <1>1, ConstantsAssumption DEF NewBlock, NewChain, TypeOK, Heights
  <2>2. h \in [Txs -> Heights]
    BY <2>1 DEF TypeOK
  <2>3. \A t \in Txs : height[t] <= top /\ height[t] \in Int
    BY DEF ImportInv, Past, TypeOK, Heights
  <2>4. SameUpTo(h, top) /\ \A t \in Txs : h[t] <= top + 1
    BY <1>0, <2>1, <2>3 DEF SameUpTo
  <2> HIDE DEF h
  <2> QED  BY <1>0, <2>1, <2>2, <2>4, ImportChain
<1>2. ASSUME NEW k \in Heights, NEW h \in [Txs -> Heights], Reorganize(k, h)  PROVE ImportInv'
  <2>1. NewChain(h, k) /\ k < top /\ k \in Int
    BY <1>2 DEF Reorganize, Heights
  <2>2. \A t \in Txs : /\ height[t] <= top /\ height[t] \in Int /\ h[t] \in Int
                       /\ IF height[t] > k THEN h[t] = 0 \/ (h[t] > k /\ h[t] <= top + 1)
                                           ELSE h[t] = height[t]
    BY <1>0, <1>2, <2>1 DEF Reorganize, ImportInv, Past, TypeOK, Heights
  <2>3. SameUpTo(h, k) /\ \A t \in Txs : h[t] <= top + 1
    BY <1>0, <2>1, <2>2 DEF SameUpTo
  <2> QED  BY <1>0, <2>1, <2>3, ImportChain
<1>3. CASE WalletCalls
  <2>1. \E task \in DbTask : task.op \notin {"import", "response"} /\ PostDb(task)
    <3>1. [op |-> "remove"] \in DbTask /\ [op |-> "desync"] \in DbTask
      BY DEF DbTask
    <3>2. ASSUME reload_wallet, java' \in [BOOLEAN -> AnyAddress], is_qa_' \in BOOLEAN
          PROVE  \E task \in DbTask : task.op \notin {"import", "response"} /\ PostDb(task)
      <4>1. first_address_' \in AnyAddress
        BY <3>2, ReloadTyped
      <4>2. [op |-> "set_first_address", address |-> first_address_'] \in DbTask
        BY <4>1 DEF DbTask
      <4> QED  BY <3>2, <4>2 DEF reload_wallet
    <3>3. java' \in [BOOLEAN -> AnyAddress] /\ is_qa_' \in BOOLEAN
      BY <1>3, TypeWallet DEF TypeOK
    <3> QED  BY <1>3, <3>1, <3>2, <3>3 DEF WalletCalls, local_set_wallet, local_reset_wallet,
                                           local_toggle, local_desync
  <2>2. UNCHANGED <<uiQueue, ui_requests_>> /\ UNCHANGED <<files, gaps, chainVars>>
    BY <1>3 DEF WalletCalls, local_set_wallet, local_reset_wallet, local_toggle, local_desync,
                WalletChange, dbVars
  <2> QED  BY <1>0, <2>1, <2>2, PostDbTyped, OtherStep
<1>4. CASE PageLoad
  <2> DEFINE e == [op |-> "last_block_hash", to |-> page.handler + 1]
  <2>1. e \in DbTask /\ e.op \notin {"import", "response"}
    BY DEF DbTask, TypeOK, Page
  <2>2. /\ UNCHANGED dbQueue \/ PostDb(e)
        /\ UNCHANGED <<uiQueue, ui_requests_>> /\ UNCHANGED <<files, gaps, chainVars>>
    BY <1>4 DEF PageLoad, dbVars
  <2> HIDE DEF e
  <2> QED  BY <1>0, <2>1, <2>2, PostDbTyped, OtherStep
<1>5. CASE process_balance
  <2> DEFINE Fit(s) == /\ s \in Seq(DbTask)
                       /\ \A task \in Tasks(s) :
                              \/ task.op = "import" /\ task.hash = top /\ task.height = top
                              \/ task.op \notin {"import", "response"}
             import == [op |-> "import", to |-> page.handler, hash |-> top, height |-> top]
             check == [op |-> "check", address |-> page.firstAddress,
                       balance |-> Cardinality(Listed(page.firstAddress))]
             list == [op |-> "transactions", to |-> page.handler]
  <2>1. import \in DbTask /\ check \in DbTask /\ list \in DbTask
    BY ListedFinite DEF DbTask, TypeOK, Page, AnyHash
  <2>2. Fit(<<>>)
    BY DEF Tasks
  <2>3. Fit(<<import>>) /\ Fit(<<check>>) /\ Fit(<<list>>)
    <3>1. ASSUME NEW task \in DbTask
          PROVE  <<task>> \in Seq(DbTask) /\ Tasks(<<task>>) = {task}
      <4>1. <<task>> \in Seq(DbTask) /\ DOMAIN <<task>> = {1} /\ <<task>>[1] = task
        OBVIOUS
      <4> QED  BY <4>1 DEF Tasks
    <3>2. /\ import.op = "import" /\ import.hash = top /\ import.height = top
          /\ check.op = "check" /\ list.op = "transactions"
      OBVIOUS
    <3> HIDE DEF import, check, list
    <3> QED  BY <2>1, <3>1, <3>2
  <2> HIDE DEF Fit
  <2>4. PICK first, second : /\ Fit(first) /\ Fit(second)
                             /\ dbQueue' = dbQueue \o first \o second
    BY <1>5, <2>2, <2>3 DEF process_balance
  <2>5. /\ first \in Seq(DbTask) /\ second \in Seq(DbTask) /\ dbQueue \in Seq(DbTask)
        /\ dbQueue \o first \in Seq(DbTask)
    BY <2>4, ConcatProperties DEF Fit, TypeOK
  <2>6. Tasks(dbQueue') \subseteq Tasks(dbQueue) \cup Tasks(first) \cup Tasks(second)
    BY <2>4, <2>5, TasksConcat
  <2>7. /\ UNCHANGED <<uiQueue, ui_requests_>> /\ UNCHANGED <<files, gaps, chainVars>>
    BY <1>5 DEF process_balance, dbVars
  <2> QED  BY <1>0, <2>4, <2>6, <2>7, OtherStep DEF Fit
<1>6. ASSUME NEW c \in Calls, ui_transaction_request(c)  PROVE ImportInv'
  <2>1. /\ Head(uiQueue) \in Tasks(uiQueue) /\ Head(uiQueue).op = "request"
        /\ Tasks(uiQueue') \subseteq Tasks(uiQueue)
    BY <1>6, UiHead DEF ui_transaction_request
  <2>2. Head(uiQueue).call \in AllCalls
    BY <2>1, TasksListed
  <2>3. \A d \in Calls : ui_requests_'[d] = NoCall \/ ui_requests_'[d] \in AllCalls \cup AllCalls
    BY <1>6, <2>2, RequestsListed DEF ui_transaction_request, TypeOK
  <2>4. UNCHANGED dbQueue /\ UNCHANGED <<files, gaps, chainVars>>
    BY <1>6 DEF ui_transaction_request, dbVars
  <2>5. AllCalls' \subseteq AllCalls \cup AllCalls
    BY <2>1, <2>3, <2>4, CallsKept
  <2> QED  BY <2>4, <2>5, QuietNone
<1>7. ASSUME NEW c \in Calls, ui_transactions_response(c)  PROVE ImportInv'
  <2> DEFINE e == [op |-> "response", call |-> ui_requests_[c]]
  <2>1. ui_requests_[c] \in AllCalls /\ ui_requests_[c].status # "asked" /\ ui_requests_[c] \in Call
    BY <1>7, RequestsListed, AllCallsTyped DEF ui_transactions_response
  <2>2. e \in DbTask /\ PostDb(e)
    BY <1>7, <2>1 DEF ui_transactions_response, DbTask
  <2>3. Tasks(dbQueue') = Tasks(dbQueue) \cup {e}
    BY <2>2, PostDbTyped
  <2>4. \A d \in Calls : ui_requests_'[d] = NoCall \/ ui_requests_'[d] \in AllCalls \cup AllCalls
    BY <1>7, RequestsListed DEF ui_transactions_response, TypeOK
  <2>5. UNCHANGED uiQueue /\ UNCHANGED <<files, gaps, chainVars>>
    BY <1>7 DEF ui_transactions_response, dbVars
  <2>6. e.call \in AllCalls /\ e.op = "response" /\ e.call.status # "asked"
    BY <2>1
  <2> HIDE DEF e
  <2>7. AllCalls' \subseteq AllCalls \cup AllCalls
    BY <2>3, <2>4, <2>5, <2>6, CallsKept
  <2>8. \A call \in AllCalls : call.hash <= top
                                 /\ ("disturbed" \notin gaps[call.address] => CallSound(call))
    BY DEF ImportInv, Past
  <2> QED  BY <2>3, <2>5, <2>6, <2>7, <2>8, QuietStep
<1>8. CASE process_results_to_js \/ process_results_to_js_broadcast
  <2> DEFINE e == [op |-> "transactions", to |-> page.handler]
  <2>1. e \in DbTask /\ e.op \notin {"import", "response"}
    BY DEF DbTask, TypeOK, Page
  <2>2. /\ UNCHANGED dbQueue \/ PostDb(e)
        /\ UNCHANGED ui_requests_ /\ UNCHANGED <<files, gaps, chainVars>>
    BY <1>8 DEF process_results_to_js, process_results_to_js_broadcast, dbVars
  <2>3. Tasks(uiQueue') \subseteq Tasks(uiQueue)
    BY <1>8, UiHead DEF process_results_to_js, process_results_to_js_broadcast
  <2> HIDE DEF e
  <2> QED  BY <1>0, <2>1, <2>2, <2>3, PostDbTyped, OtherStep
<1> QED  BY <1>1, <1>2, <1>3, <1>4, <1>5, <1>6, <1>7, <1>8 DEF UiStep, Explorer

\* The database sequence, but for replies.
LEMMA ImportDb ==
    ASSUME TypeOK, HeadRuns, OwnInv, ImportInv, DbStep
    PROVE  ImportInv'
<1>0. top \in Int
  BY DEF TypeOK, Heights
<1>1. ASSUME db_set_first_address  PROVE ImportInv'
  <2>1. Tasks(dbQueue') \subseteq Tasks(dbQueue)
    BY <1>1, DbHead DEF db_set_first_address, Done
  <2>2. UNCHANGED <<uiQueue, ui_requests_>> /\ UNCHANGED <<files, gaps, chainVars>>
    BY <1>1 DEF db_set_first_address
  <2> QED  BY <1>0, <2>1, <2>2, OtherStep
<1>2. ASSUME db_get_last_block_hash \/ db_get_transactions  PROVE ImportInv'
  <2>1. Tasks(dbQueue') \subseteq Tasks(dbQueue) /\ Head(dbQueue).to \in Nat
    BY <1>2, DbHead, DbTaskTyped DEF db_get_last_block_hash, db_get_transactions, Done
  <2>2. DOMAIN OpenRows \in SUBSET Txs /\ OpenHash \in AnyHash
    BY OpenTyped, RowSetsElim
  <2>3. PICK e \in UiTask : e.op # "request" /\ PostUi(e)
    <3>1. /\ [op |-> "last_block_hash", to |-> Head(dbQueue).to, hash |-> OpenHash] \in UiTask
          /\ [op |-> "transactions", to |-> Head(dbQueue).to, shown |-> DOMAIN OpenRows] \in UiTask
      BY <2>1, <2>2 DEF UiTask
    <3> QED  BY <1>2, <3>1 DEF db_get_last_block_hash, db_get_transactions
  <2>4. UNCHANGED ui_requests_ /\ UNCHANGED <<files, gaps, chainVars>>
    BY <1>2 DEF db_get_last_block_hash, db_get_transactions, dbVars
  <2> QED  BY <1>0, <2>1, <2>3, <2>4, PostUiTyped, OtherStep
<1>3. ASSUME check_block_hash  PROVE ImportInv'
  <2>0. PICK task, a : task = Head(dbQueue) /\ a = db_wallet_first_address_
    OBVIOUS
  <2> DEFINE Same == [op |-> "imported", to |-> task.to, reload |-> FALSE]
  <2>1. /\ task \in Tasks(dbQueue) /\ task.op = "import"
        /\ task.to \in Nat /\ task.hash \in AnyHash /\ task.height \in Heights
        /\ Tasks(dbQueue') \subseteq Tasks(dbQueue)
    BY <1>3, <2>0, DbHead, DbTaskTyped DEF check_block_hash, Done
  <2>2. task.hash <= top /\ task.height <= top
    BY <2>1 DEF ImportInv, Past
  <2>3. UNCHANGED ui_requests_ /\ UNCHANGED <<files, gaps, chainVars>>
    BY <1>3 DEF check_block_hash, dbVars
  <2>4. Same \in UiTask /\ Same.op # "request"
    BY <2>1 DEF UiTask
  <2>5. CASE PostUi(Same) \/ UNCHANGED uiQueue
    <3> HIDE DEF Same
    <3> QED  BY <1>0, <2>1, <2>3, <2>4, <2>5, PostUiTyped, OtherStep
  <2>6. CASE ~(PostUi(Same) \/ UNCHANGED uiQueue)
    <3>1. a # NoAddress /\ \E from \in get_last_confirmed_txid(task.height) :
              PostUi(Ask(from, task.to, task.hash))
      BY <1>3, <2>0, <2>6 DEF check_block_hash
    <3>2. PICK from \in get_last_confirmed_txid(task.height) :
              PostUi(Ask(from, task.to, task.hash))
      BY <3>1
    <3>3. from = NoTx \/ (from \in DOMAIN OpenRows /\ task.height - OpenRows[from] >= CONFIRMATIONS)
      BY DEF get_last_confirmed_txid
    <3>4. from \in Txs \cup {NoTx} /\ (from \in DOMAIN OpenRows => OpenRows[from] \in Heights)
      BY <3>3, OpenTyped, RowSetsElim
    <3> DEFINE e == Ask(from, task.to, task.hash)
    <3>5. e \in UiTask /\ e.op = "request" /\ DOMAIN e.call.data = {}
      BY <2>0, <2>1, <3>1, <3>4, AskTyped
    <3>6. e.call.address = a /\ e.call.from = from /\ e.call.hash = task.hash
          /\ e.call.status = "asked"
      BY <2>0 DEF Ask
    <3> HIDE DEF e
    <3>7. from # NoTx => from \in DOMAIN files[a].rows /\ top - files[a].rows[from] >= CONFIRMATIONS
      <4> SUFFICES ASSUME from # NoTx
                   PROVE  from \in DOMAIN files[a].rows /\ top - files[a].rows[from] >= CONFIRMATIONS
        OBVIOUS
      <4>1. from \in DOMAIN OpenRows /\ DOMAIN OpenRows # {}
        BY <3>3
      <4>2. dbOpen # NoAddress
        BY <4>1, NoRowsTyped DEF OpenRows
      <4>3. OpenRows = files[a].rows
        BY <2>0, <4>2 DEF OpenRows, OwnInv, OpenIsOwn
      <4>4. /\ task.height \in Int /\ OpenRows[from] \in Int /\ CONFIRMATIONS \in Int
            /\ task.height - OpenRows[from] >= CONFIRMATIONS
        BY <2>1, <3>3, <3>4, <4>1, ConstantsAssumption DEF Heights
      <4> QED  BY <1>0, <2>2, <4>1, <4>3, <4>4
    <3>8. a \in Addresses
      BY <2>0, <3>1 DEF TypeOK, AnyAddress
    <3>9. "disturbed" \notin gaps[a] => CallSound(e.call)
      <4> SUFFICES ASSUME "disturbed" \notin gaps[a]  PROVE CallSound(e.call)
        OBVIOUS
      <4>1. from = NoTx \/ (from \in DOMAIN files[a].rows /\ Solid(a, from))
        BY <3>7, <3>8 DEF ImportInv, FileSound, ConfirmedSolid
      <4>2. AskSound(e.call)
        BY <3>6, <4>1 DEF AskSound
      <4> QED  BY <3>5, <3>6, <4>2 DEF CallSound, EmptySound, PageSound, LastSound
    <3>10. Tasks(uiQueue') = Tasks(uiQueue) \cup {e}
      BY <3>2, <3>5, PostUiTyped DEF e
    <3>11. AllCalls' \subseteq AllCalls \cup {e.call}
      <4>1. \A c \in Calls : ui_requests_'[c] = NoCall \/ ui_requests_'[c] \in AllCalls \cup {e.call}
        BY <2>3, RequestsListed
      <4> QED  BY <2>1, <3>10, <4>1, CallsKept
    <3>12. \A call \in {e.call} : call.hash <= top
                                    /\ ("disturbed" \notin gaps[call.address] => CallSound(call))
      BY <2>2, <3>6, <3>9
    <3> QED  BY <2>1, <2>3, <3>11, <3>12, QuietStep
  <2> QED  BY <2>5, <2>6
<1>4. ASSUME NEW a \in AnyAddress, a = NoAddress \/ remove_database(a),
             a = NoAddress => UNCHANGED <<files, gaps>>,
             UNCHANGED chainVars, UNCHANGED ui_requests_,
             \A task \in Tasks(uiQueue') : task \in Tasks(uiQueue) \/ task.op # "request",
             Tasks(dbQueue') \subseteq Tasks(dbQueue)
      PROVE  ImportInv'
  <2>1. CASE UNCHANGED <<files, gaps>>
    BY <1>0, <1>4, <2>1, OtherStep
  <2>2. CASE ~UNCHANGED <<files, gaps>>
    <3>1. a \in Addresses /\ Removed(a)
      BY <1>4, <2>2 DEF remove_database, AnyAddress
    <3>2. AllCalls' \subseteq AllCalls \cup AllCalls
      <4>1. \A c \in Calls : ui_requests_'[c] = NoCall \/ ui_requests_'[c] \in AllCalls \cup AllCalls
        BY <1>4, RequestsListed
      <4> QED  BY <1>4, <4>1, CallsKept
    <3>3. AllCalls' \subseteq AllCalls
      BY <3>2
    <3> QED  BY <1>4, <3>1, <3>3, ImportRemoved
  <2> QED  BY <2>1, <2>2
<1>5. ASSUME db_check_transactions  PROVE ImportInv'
  <2>1. CASE Recreate
    <3>1. /\ Tasks(uiQueue') = Tasks(uiQueue) \cup {[op |-> "reset_last_block_hash"]}
          /\ Tasks(dbQueue') \subseteq Tasks(dbQueue)
          /\ db_wallet_first_address_ \in AnyAddress /\ db_wallet_first_address_ # NoAddress
          /\ remove_database(db_wallet_first_address_)
          /\ UNCHANGED chainVars /\ UNCHANGED ui_requests_
      BY <2>1, RecreateTyped DEF Recreate, differs, OwnInv, OpenIsOwn, TypeOK
    <3> QED  BY <1>4, <3>1
  <2>2. CASE ~Recreate
    <3>1. /\ UNCHANGED <<uiQueue, ui_requests_>> /\ UNCHANGED <<files, gaps, chainVars>>
          /\ Tasks(dbQueue') \subseteq Tasks(dbQueue)
      BY <1>5, <2>2, DbHead DEF db_check_transactions, Done, dbVars
    <3> QED  BY <1>0, <3>1, OtherStep
  <2> QED  BY <2>1, <2>2
<1>6. ASSUME db_remove_database  PROVE ImportInv'
  <2>1. /\ db_wallet_first_address_ \in AnyAddress
        /\ db_wallet_first_address_ = NoAddress \/ remove_database(db_wallet_first_address_)
        /\ db_wallet_first_address_ = NoAddress => UNCHANGED <<files, gaps>>
        /\ UNCHANGED chainVars /\ UNCHANGED <<uiQueue, dbQueue, ui_requests_>>
    BY <1>6 DEF db_remove_database, TypeOK
  <2> QED  BY <1>4, <2>1
<1>7. ASSUME on_remove_database  PROVE ImportInv'
  <2> DEFINE e == [op |-> "set_first_address", address |-> reloading[1]]
             t == Tail(dbQueue)
  <2>1. /\ UNCHANGED <<uiQueue, ui_requests_>> /\ UNCHANGED <<files, gaps, chainVars>>
        /\ dbQueue' = Append(t, e) /\ dbQueue # <<>>
    BY <1>7 DEF on_remove_database, HeadRuns
  <2>2. e \in DbTask /\ e.op \notin {"import", "response"}
    <3>1. reloading[1] \in AnyAddress
      BY <1>7 DEF on_remove_database, TypeOK
    <3> QED  BY <3>1 DEF DbTask
  <2> HIDE DEF e
  <2>3. t \in Seq(DbTask) /\ Tasks(t) \subseteq Tasks(dbQueue)
    BY <2>1, TasksTail DEF TypeOK
  <2> HIDE DEF t
  <2>4. Tasks(dbQueue') \subseteq Tasks(dbQueue) \cup {e}
    BY <2>1, <2>2, <2>3, TasksAppend
  <2> QED  BY <1>0, <2>1, <2>2, <2>4, OtherStep
<1>8. ASSUME db_desync  PROVE ImportInv'
  <2>1. /\ UNCHANGED <<uiQueue, ui_requests_>> /\ UNCHANGED chainVars
        /\ Tasks(dbQueue') \subseteq Tasks(dbQueue)
    BY <1>8, DbHead DEF db_desync, Done
  <2>2. CASE dbOpen = NoAddress
    BY <1>0, <1>8, <2>1, <2>2, OtherStep DEF db_desync
  <2>3. CASE dbOpen # NoAddress
    <3>0. PICK a : a = dbOpen
      OBVIOUS
    <3>1. a \in Addresses
      BY <2>3, <3>0 DEF TypeOK, AnyAddress
    <3>2. PICK rows : /\ files' = [files EXCEPT ![a].rows = rows]
                      /\ gaps' = [gaps EXCEPT ![a] = @ \cup {"disturbed"}]
      BY <1>8, <2>3, <3>0 DEF db_desync
    <3>3. /\ files'[a].hash = files[a].hash /\ "disturbed" \in gaps'[a]
          /\ \A b \in Addresses \ {a} : files'[b] = files[b] /\ gaps'[b] = gaps[b]
      BY <3>1, <3>2 DEF TypeOK, Files
    <3>4. files'[a].hash <= top
      BY <3>1, <3>3 DEF ImportInv, Past
    <3> DEFINE X == {}
    <3>5. AllCalls' \subseteq AllCalls \cup X
      <4>1. \A c \in Calls : ui_requests_'[c] = NoCall \/ ui_requests_'[c] \in AllCalls \cup X
        BY <2>1, RequestsListed
      <4> HIDE DEF X
      <4> QED  BY <2>1, <4>1, CallsKept
    <3>6. \A call \in X : call.hash <= top /\ call.address = a
      OBVIOUS
    <3>7. \A call \in AllCalls : call.address \in Addresses
      BY AllCallsTyped DEF Call
    <3> HIDE DEF X
    <3> QED  BY <2>1, <3>1, <3>3, <3>4, <3>5, <3>6, <3>7, FileStep
  <2> QED  BY <2>2, <2>3
<1> QED  BY <1>1, <1>2, <1>3, <1>5, <1>6, <1>7, <1>8, ImportResponse DEF DbStep

\* The end of the browser: the calls are gone, and of a page that is half saved the
\* transactions are sound.
LEMMA ImportRestart ==
    ASSUME TypeOK, OwnInv, ImportInv, Restart
    PROVE  ImportInv'
<1>1. /\ UNCHANGED chainVars /\ UNCHANGED gaps
      /\ Tasks(uiQueue') = {} /\ (\A c \in Calls : ui_requests_'[c] = NoCall)
      /\ \A task \in Tasks(dbQueue') : task.op \notin {"import", "response"}
  <2> DEFINE e == [op |-> "set_first_address", address |-> java[is_qa_]]
  <2>1. /\ dbQueue' = <<e>> /\ DOMAIN <<e>> = {1} /\ <<e>>[1] = e /\ uiQueue' = <<>>
        /\ ui_requests_' = [c \in Calls |-> NoCall] /\ UNCHANGED chainVars /\ UNCHANGED gaps
    BY DEF Restart
  <2>2. Tasks(dbQueue') = {e} /\ Tasks(uiQueue') = {}
    BY <2>1 DEF Tasks
  <2> QED  BY <2>1, <2>2
<1>2. AllCalls' \subseteq {}
  BY <1>1 DEF AllCalls
<1>3. CASE UNCHANGED files
  BY <1>1, <1>2, <1>3, QuietNone
<1>4. CASE ~UNCHANGED files
  <2>0. PICK call, a : call = Head(dbQueue).call /\ a = dbOpen
    OBVIOUS
  <2>1. /\ DbTurn("response") /\ a # NoAddress /\ call.address = db_wallet_first_address_
        /\ files' = [files EXCEPT ![a].rows = Merged(@, call.data)]
    BY <1>4, <2>0 DEF Restart
  <2>2. a \in Addresses /\ call.address = a
    BY <2>0, <2>1 DEF TypeOK, AnyAddress, OwnInv, OpenIsOwn
  <2>3. /\ files'[a].rows = Merged(files[a].rows, call.data) /\ files'[a].hash = files[a].hash
        /\ \A b \in Addresses \ {a} : files'[b] = files[b] /\ gaps'[b] = gaps[b]
    BY <1>1, <2>1, <2>2 DEF TypeOK, Files
  <2>4. call \in AllCalls
    BY <2>0, <2>1, DbHead, TasksListed
  <2>5. ASSUME "disturbed" \notin gaps'[a]  PROVE FileSound(a)'
    <3>1. FileSound(a) /\ PageSound(call)
      BY <1>1, <2>2, <2>4, <2>5 DEF ImportInv, CallSound
    <3>2. /\ DOMAIN files'[a].rows = DOMAIN files[a].rows \cup DOMAIN call.data
          /\ \A t \in DOMAIN files[a].rows \ DOMAIN call.data :
                 files'[a].rows[t] = files[a].rows[t]
          /\ \A t : Solid(a, t) => Solid(a, t)'
          /\ \A t \in DOMAIN call.data : Solid(a, t)'
      <4>1. \A d \in DOMAIN call.data :
              /\ call.data[d] = height[d] /\ height[d] > 0
              /\ \A u \in Listed(a) :
                     Before(height, u, d) => u \in DOMAIN call.data \/ Stored(a, u)
        BY <2>2, <3>1 DEF PageSound
      <4> QED  BY <1>1, <2>2, <2>3, <4>1, MergeSolid
    <3>3. top' = top /\ Listed(a)' = Listed(a)
      BY <1>1 DEF chainVars, Listed
    <3>4. ConfirmedSolid(a)'
      BY <3>1, <3>2, <3>3 DEF FileSound, ConfirmedSolid
    <3>5. UnmovedSolid(a)' /\ HashSound(a)'
      BY <1>1, <2>3, <3>1, <3>2, <3>3 DEF FileSound, UnmovedSolid, HashSound
    <3> QED  BY <3>4, <3>5 DEF FileSound
  <2>6. files'[a].hash <= top
    BY <2>2, <2>3 DEF ImportInv, Past
  <2>7. \A other \in AllCalls : other.address \in Addresses
    BY AllCallsTyped DEF Call
  <2> DEFINE X == {}
  <2>8. AllCalls' \subseteq AllCalls \cup X /\ AllCalls' = {}
    BY <1>2
  <2>9. \A other \in X : other.hash <= top /\ other.address = a
    OBVIOUS
  <2> HIDE DEF X
  <2> QED  BY <1>1, <2>2, <2>3, <2>5, <2>6, <2>7, <2>8, <2>9, FileStep
<1> QED  BY <1>3, <1>4

LEMMA ImportInit == Init => ImportInv
<1> SUFFICES ASSUME Init  PROVE ImportInv
  OBVIOUS
<1> DEFINE e == [op |-> "set_first_address", address |-> first_address_]
<1>1. /\ dbQueue = <<e>> /\ DOMAIN <<e>> = {1} /\ <<e>>[1] = e /\ uiQueue = <<>>
      /\ ui_requests_ = [c \in Calls |-> NoCall] /\ height = [t \in Txs |-> 0] /\ top = 0
      /\ files = [a \in Addresses |-> NewFile] /\ gaps = [a \in Addresses |-> {}]
  BY DEF Init
<1>2. Tasks(dbQueue) = {e} /\ Tasks(uiQueue) = {} /\ e.op = "set_first_address"
  BY <1>1 DEF Tasks
<1>3. AllCalls = {}
  BY <1>1, <1>2 DEF AllCalls
<1>4. \A a \in Addresses : DOMAIN files[a].rows = {} /\ files[a].hash = -2
  BY <1>1, NoRowsTyped DEF NewFile, Missing
<1>5. Past
  BY <1>1, <1>2, <1>3, <1>4 DEF Past
<1>6. \A a \in Addresses : FileSound(a)
  BY <1>1, <1>4 DEF FileSound, ConfirmedSolid, UnmovedSolid, HashSound
<1> QED  BY <1>3, <1>5, <1>6 DEF ImportInv

\* An import never begins behind a transaction that is missing, and a stored hash that is
\* that of the last block means that all is stored (get_last_confirmed_txid,
\* db_transactions_response), for any number of wallets, calls under way, pages and
\* confirmations: but for what ResumePointSound and HashMeansImported except.
THEOREM ImportsAreSound == Spec => []ImportIsSound
<1>1. Init => OwnInv /\ ImportInv
  BY OwnInit, ImportInit
<1>2. TypeOK /\ HeadRuns /\ OwnInv /\ ImportInv /\ [Next]_vars => OwnInv' /\ ImportInv'
  <2> SUFFICES ASSUME TypeOK, HeadRuns, OwnInv, ImportInv, [Next]_vars
               PROVE  OwnInv' /\ ImportInv'
    OBVIOUS
  <2>1. OwnInv'
    BY OwnStep
  <2>2. CASE UNCHANGED vars
    <3>1. /\ UNCHANGED <<files, gaps, chainVars>> /\ UNCHANGED <<uiQueue, dbQueue, ui_requests_>>
      BY <2>2 DEF vars, dbVars
    <3>2. AllCalls' \subseteq AllCalls
      BY <3>1 DEF AllCalls
    <3> QED  BY <2>1, <3>1, <3>2, QuietNone
  <2> QED  BY <2>1, <2>2, ImportServe, ImportElsewhere, ImportDb, ImportRestart DEF Next
<1>3. TypeOK /\ OwnInv /\ ImportInv => ImportIsSound
  <2> SUFFICES ASSUME ImportInv  PROVE ImportIsSound
    OBVIOUS
  <2>1. \A a \in Addresses : "disturbed" \notin gaps[a] => FileSound(a)
    BY DEF ImportInv
  <2>2. ResumePointSound
    BY <2>1 DEF ResumePointSound, FileSound, ConfirmedSolid, Solid, Stored
  <2>3. HashMeansImported
    <3> SUFFICES ASSUME NEW a \in Addresses, files[a].hash = top, gaps[a] = {}
                 PROVE  Listed(a) \subseteq DOMAIN files[a].rows
      BY DEF HashMeansImported
    <3> QED  BY <2>1 DEF FileSound, HashSound
  <2> QED  BY <2>2, <2>3 DEF ImportIsSound
<1> QED  BY <1>1, <1>2, <1>3, TypeAndHead, PTL DEF Spec

=============================================================================
