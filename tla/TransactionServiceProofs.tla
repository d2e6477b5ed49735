---------------------- MODULE TransactionServiceProofs ----------------------
(***************************************************************************)
(* Proofs about TransactionService, for any number of wallets, requests     *)
(* and calls, and any bounds.                                              *)
(***************************************************************************)
EXTENDS TransactionService, SequenceTheorems, FiniteSetTheorems, TLAPS

-----------------------------------------------------------------------------
(* The task queues *)

\* Posting a task adds it at the end.
LEMMA PlacesAppend ==
    ASSUME NEW S, NEW s \in Seq(S), NEW e, NEW op
    PROVE  /\ e \in S => Append(s, e) \in Seq(S)
           /\ e.op # op => Places(Append(s, e), op) = Places(s, op)
           /\ e.op = op => Places(Append(s, e), op) = Places(s, op) \cup {Len(s) + 1}
<1> DEFINE t == Append(s, e)
<1>1. /\ e \in S => t \in Seq(S)
      /\ DOMAIN s = 1 .. Len(s) /\ DOMAIN t = 1 .. Len(s) + 1 /\ Len(s) \in Nat
      /\ \A i \in 1 .. Len(s) : t[i] = s[i]
      /\ t[Len(s) + 1] = e
  OBVIOUS
<1> HIDE DEF t
<1>2. e.op # op => Places(t, op) = Places(s, op)
  BY <1>1 DEF Places
<1>3. e.op = op => Places(t, op) = Places(s, op) \cup {Len(s) + 1}
  BY <1>1 DEF Places
<1> QED  BY <1>1, <1>2, <1>3 DEF t

\* Running the task at the head removes it.
LEMMA PlacesTail ==
    ASSUME NEW S, NEW s \in Seq(S), s # <<>>, NEW op
    PROVE  /\ Head(s) \in S /\ Tail(s) \in Seq(S)
           /\ Places(s, op) = {} => Head(s).op # op /\ Places(Tail(s), op) = {}
           /\ IsSingle(Places(s, op)) /\ Head(s).op = op => Places(Tail(s), op) = {}
           /\ IsSingle(Places(s, op)) /\ Head(s).op # op => IsSingle(Places(Tail(s), op))
<1> DEFINE t == Tail(s)
<1>1. /\ Head(s) \in S /\ t \in Seq(S)
      /\ Len(s) \in Nat \ {0}
      /\ DOMAIN s = 1 .. Len(s) /\ DOMAIN t = 1 .. Len(s) - 1
      /\ \A i \in 1 .. Len(s) - 1 : t[i] = s[i + 1]
      /\ Head(s) = s[1]
  BY HeadTailProperties, EmptySeq
<1> HIDE DEF t
<1>2. ASSUME Places(s, op) = {}
      PROVE  Head(s).op # op /\ Places(t, op) = {}
  <2>1. \A i \in 1 .. Len(s) : s[i].op # op
    BY <1>1, <1>2 DEF Places
  <2>2. 1 \in 1 .. Len(s) /\ \A i \in 1 .. Len(s) - 1 : i + 1 \in 1 .. Len(s)
    BY <1>1
  <2>3. \A i \in 1 .. Len(s) - 1 : t[i].op # op
    BY <1>1, <2>1, <2>2
  <2> QED  BY <1>1, <2>1, <2>2, <2>3 DEF Places
<1>3. ASSUME NEW x, Places(s, op) = {x}, Head(s).op = op
      PROVE  Places(t, op) = {}
  <2>1. 1 \in Places(s, op)
    BY <1>1, <1>3 DEF Places
  <2>2. x = 1
    BY <2>1, <1>3
  <2>3. \A i \in 1 .. Len(s) - 1 : i + 1 \in 1 .. Len(s) /\ i + 1 # 1
    BY <1>1
  <2>4. \A i \in 1 .. Len(s) - 1 : s[i + 1].op # op
    BY <1>1, <1>3, <2>2, <2>3 DEF Places
  <2> QED  BY <1>1, <2>4 DEF Places
<1>4. ASSUME NEW x, Places(s, op) = {x}, Head(s).op # op
      PROVE  IsSingle(Places(t, op))
  <2>1. /\ x \in 1 .. Len(s) /\ s[x].op = op
        /\ \A i \in 1 .. Len(s) : s[i].op = op => i = x
    <3>1. x \in Places(s, op) /\ \A i \in Places(s, op) : i = x
      BY <1>4
    <3> QED  BY <1>1, <3>1 DEF Places
  <2>2. x # 1
    BY <1>1, <1>4, <2>1
  <2>3. x - 1 \in 1 .. Len(s) - 1 /\ t[x - 1].op = op
    BY <1>1, <2>1, <2>2
  <2>4. ASSUME NEW i \in 1 .. Len(s) - 1, t[i].op = op
        PROVE  i = x - 1
    <3>1. i + 1 \in 1 .. Len(s) /\ s[i + 1].op = op
      BY <1>1, <2>4
    <3> QED  BY <1>1, <2>1, <3>1
  <2>5. Places(t, op) = {x - 1}
    BY <1>1, <2>3, <2>4 DEF Places
  <2> QED  BY <2>5 DEF IsSingle
<1> QED  BY <1>1, <1>2, <1>3, <1>4 DEF t, IsSingle

-----------------------------------------------------------------------------
(* What the database thread posts to the UI thread *)

\* Answering a request posts end_http_call or nothing: no listsinceblock call.
LEMMA AnswerPosts ==
    ASSUME NEW q \in Seq(UiTask), NEW ext \in AnyRequest, NEW loaded \in BOOLEAN
    PROVE  /\ q \o db_get_transactions(ext, loaded) \in Seq(UiTask)
           /\ Places(q \o db_get_transactions(ext, loaded), "listsinceblock")
                = Places(q, "listsinceblock")
<1> DEFINE e == [op |-> "end_http_call", ext |-> ext, is_loading |-> ~loaded]
<1>1. CASE ext = NoRequest
  <2>1. q \o db_get_transactions(ext, loaded) = q
    BY <1>1, ConcatEmptySeq DEF db_get_transactions
  <2> QED  BY <2>1
<1>2. CASE ext # NoRequest
  <2>1. e \in UiTask /\ e.op # "listsinceblock"
    BY <1>2 DEF UiTask, AnyRequest
  <2>2. q \o <<e>> = Append(q, e)
    BY <2>1
  <2>3. q \o db_get_transactions(ext, loaded) = Append(q, e)
    BY <1>2, <2>2 DEF db_get_transactions
  <2> QED  BY <2>1, <2>3, PlacesAppend
<1> QED  BY <1>1, <1>2

\* db_start posts at most one listsinceblock call, and only with the flag clear.
LEMMA StartPosts ==
    ASSUME TypeOK, NEW ext \in AnyRequest, db_start(ext),
           db_wallet_first_address_' \in AnyAddress, db_token_base64_' \in Nat,
           db_loaded_' \in BOOLEAN, dbOpen' \in AnyAddress
    PROVE  /\ uiQueue' \in Seq(UiTask)
           /\ db_in_rpc_call_' \in BOOLEAN
           /\ \/ /\ UNCHANGED db_in_rpc_call_
                 /\ UiCalls' = UiCalls
              \/ /\ ~db_in_rpc_call_ /\ db_in_rpc_call_'
                 /\ UiCalls' = UiCalls \cup {Len(uiQueue) + 1}
<1>1. CASE MayNotStart
  <2>1. uiQueue' = uiQueue \o db_get_transactions(ext, db_loaded_') /\ UNCHANGED db_in_rpc_call_
    BY <1>1 DEF db_start
  <2> QED  BY <2>1, AnswerPosts DEF TypeOK, UiCalls
<1>2. CASE ~MayNotStart
  <2> DEFINE e == [op |-> "listsinceblock", token |-> db_token_base64_',
                   addr |-> db_wallet_first_address_',
                   since |-> get_latest_block(dbOpen'), ext |-> ext]
  <2>1. get_latest_block(dbOpen') \in Heights
    BY ConstantsAssumption DEF get_latest_block, TypeOK, File, AnyAddress, Heights
  <2>2. e \in UiTask /\ e.op = "listsinceblock"
    BY <2>1 DEF UiTask, Signature
  <2>3. /\ db_in_rpc_call_' = TRUE
        /\ uiQueue' = Append(uiQueue, e)
        /\ ~db_in_rpc_call_
    BY <1>2 DEF db_start, MayNotStart
  <2> HIDE DEF e
  <2> uiQueue \in Seq(UiTask)
    BY DEF TypeOK
  <2>4. /\ Append(uiQueue, e) \in Seq(UiTask)
        /\ Places(Append(uiQueue, e), "listsinceblock")
             = Places(uiQueue, "listsinceblock") \cup {Len(uiQueue) + 1}
    BY <2>2, PlacesAppend
  <2>5. UiCalls' = UiCalls \cup {Len(uiQueue) + 1}
    BY <2>3, <2>4 DEF UiCalls
  <2> QED  BY <2>3, <2>4, <2>5
<1> QED  BY <1>1, <1>2

-----------------------------------------------------------------------------
(* Type correctness *)

LEMMA TypeInit == Init => TypeOK
<1> SUFFICES ASSUME Init PROVE TypeOK
  OBVIOUS
<1>1. uiQueue \in Seq(UiTask) /\ dbQueue \in Seq(DbTask)
  BY DEF Init
<1>2. /\ 0 \in Heights
      /\ 0 \in 0 .. Threshold + 1
  BY ConstantsAssumption DEF Heights
<1>3. files \in [Addresses -> File]
  BY <1>2 DEF Init, File, NewFile
<1>4. wallet \in WalletProcess
  BY <1>2 DEF Init, NoToken, WalletProcess
<1>5. used \in [token : Nat, reseed : Nat, restart : Nat]
  BY DEF Init
<1>6. /\ answers \in [Requests -> Nat] /\ ui_requests_ \in [Calls -> Signature \cup {NoCall}]
      /\ served \in [Calls -> SUBSET Answer]
  BY DEF Init
<1> QED  BY <1>1, <1>2, <1>3, <1>4, <1>5, <1>6 DEF Init, TypeOK, AnyAddress, NoToken

\* The task at the head of a queue, once it is taken, and the rest of the queue.
LEMMA UiHead ==
    ASSUME TypeOK, uiQueue # <<>>
    PROVE  Head(uiQueue) \in UiTask /\ Tail(uiQueue) \in Seq(UiTask)
BY PlacesTail DEF TypeOK

LEMMA DbHead ==
    ASSUME TypeOK, NEW op, DbTaskIs(op)
    PROVE  /\ dbQueue # <<>> /\ Head(dbQueue).op = op
           /\ Head(dbQueue) \in DbTask /\ Tail(dbQueue) \in Seq(DbTask)
BY PlacesTail DEF TypeOK, DbTaskIs

LEMMA TypeUi ==
    ASSUME TypeOK,
           \/ \E token \in NoToken .. wallet.token : ui_set_rpc_token(token)
           \/ ui_set_first_address
           \/ \E r \in Requests, invalidate \in BOOLEAN : ui_get_transactions(r, invalidate)
           \/ ui_start
           \/ UiTaskStep
    PROVE  TypeOK'
<1>1. ASSUME NEW token \in NoToken .. wallet.token, ui_set_rpc_token(token)
      PROVE  TypeOK'
  <2>1. [op |-> "db_set_token", token |-> token] \in DbTask
    BY DEF DbTask, NoToken, TypeOK, WalletProcess
  <2>2. dbQueue' \in Seq(DbTask)
    BY <1>1, <2>1 DEF TypeOK, ui_set_rpc_token, PostDb
  <2>3. used' \in [token : Nat, reseed : Nat, restart : Nat]
    <3>1. used.token + 1 \in Nat /\ used \in [token : Nat, reseed : Nat, restart : Nat]
      BY DEF TypeOK
    <3>2. used' = [used EXCEPT !.token = used.token + 1]
      BY <1>1 DEF ui_set_rpc_token
    <3> QED  BY <3>1, <3>2
  <2> QED  BY <1>1, <2>2, <2>3 DEF TypeOK, ui_set_rpc_token, dbVars, fileVars, tabVars
<1>2. ASSUME ui_set_first_address
      PROVE  TypeOK'
  <2>1. [op |-> "db_set_first_address", addr |-> wallet.addr] \in DbTask
    <3>1. wallet.addr \in Addresses
      BY DEF TypeOK, WalletProcess
    <3> QED  BY <3>1 DEF DbTask
  <2>2. dbQueue' \in Seq(DbTask) /\ first_address_' \in AnyAddress
    BY <1>2, <2>1 DEF TypeOK, WalletProcess, ui_set_first_address, PostDb, AnyAddress
  <2> QED  BY <1>2, <2>2 DEF TypeOK, ui_set_first_address, dbVars, fileVars, tabVars
<1>3. ASSUME NEW r \in Requests, NEW invalidate \in BOOLEAN, ui_get_transactions(r, invalidate)
      PROVE  TypeOK'
  <2>1. [op |-> IF invalidate THEN "db_start" ELSE "db_get_transactions", ext |-> r] \in DbTask
    BY DEF DbTask, AnyRequest
  <2>2. dbQueue' \in Seq(DbTask)
    BY <1>3, <2>1 DEF TypeOK, ui_get_transactions, PostDb
  <2> QED  BY <1>3, <2>2 DEF TypeOK, ui_get_transactions, dbVars, fileVars, envVars
<1>4. ASSUME ui_start
      PROVE  TypeOK'
  <2>1. [op |-> "db_start", ext |-> NoRequest] \in DbTask
    BY DEF DbTask, AnyRequest
  <2>2. dbQueue' \in Seq(DbTask)
    BY <1>4, <2>1 DEF TypeOK, ui_start, PostDb
  <2> QED  BY <1>4, <2>2 DEF TypeOK, ui_start, dbVars, fileVars, tabVars, envVars
<1>5. ASSUME end_http_call
      PROVE  TypeOK'
  <2>1. uiQueue' \in Seq(UiTask)
    BY <1>5, UiHead DEF end_http_call
  <2>2. answers' \in [Requests -> Nat]
    <3>1. Head(uiQueue).ext \in Requests
      BY <1>5, UiHead DEF end_http_call, UiTask, Signature
    <3>2. answers' = [answers EXCEPT ![Head(uiQueue).ext] = answers[Head(uiQueue).ext] + 1]
      BY <1>5 DEF end_http_call
    <3> QED  BY <3>1, <3>2 DEF TypeOK
  <2> QED  BY <1>5, <2>1, <2>2 DEF TypeOK, end_http_call, dbVars, fileVars, envVars
<1>6. ASSUME NEW c \in Calls, ui_request(c)
      PROVE  TypeOK'
  <2>1. uiQueue' \in Seq(UiTask) /\ Head(uiQueue) \in Signature
    BY <1>6, UiHead DEF ui_request, UiTask
  <2>2. ui_requests_' \in [Calls -> Signature \cup {NoCall}]
    BY <1>6, <2>1 DEF TypeOK, ui_request
  <2> QED  BY <1>6, <2>1, <2>2 DEF TypeOK, ui_request, dbVars, fileVars, tabVars, envVars
<1> QED  BY <1>1, <1>2, <1>3, <1>4, <1>5, <1>6 DEF UiTaskStep

LEMMA TypeReply ==
    ASSUME TypeOK, NEW c \in Calls, ReplyStep(c)
    PROVE  TypeOK'
<1> PICK b \in BOOLEAN :
        ui_rpc_response(c, b) \/ ui_mnsync_response(c, b) \/ ui_rpc_balance_response(c, b)
  BY DEF ReplyStep
<1>1. /\ ui_requests_[c] \in Signature
      /\ ui_requests_' \in [Calls -> Signature \cup {NoCall}]
      /\ served \in [Calls -> SUBSET Answer] /\ served' \in [Calls -> SUBSET Answer]
      /\ UNCHANGED <<uiQueue, dbVars, fileVars, tabVars, wallet, first_address_, used>>
  BY DEF TypeOK, ui_rpc_response, ui_mnsync_response, ui_rpc_balance_response, Reply
<1>2. dbQueue' \in Seq(DbTask) /\ timers' \in Nat
  <2>1. CASE ui_rpc_response(c, b)
    <3> DEFINE rows == {row \in Rows : /\ b /\ row[2] > ui_requests_[c].since
                                       /\ \E answer \in served[c] :
                                             row[1] = answer.addr /\ row[2] <= answer.tip}
    <3>1. rows \in SUBSET Rows
      OBVIOUS
    <3> HIDE DEF rows
    <3>2. [op |-> "db_rpc_response", sig |-> ui_requests_[c], rows |-> rows] \in DbTask
      BY <1>1, <3>1 DEF DbTask
    <3> QED  BY <2>1, <3>2 DEF TypeOK, ui_rpc_response, PostDb, rows
  <2>2. CASE ui_mnsync_response(c, b)
    <3>1. [op |-> "db_check_control_sum"] \in DbTask
      BY DEF DbTask
    <3>2. CASE b /\ PostDb([op |-> "db_check_control_sum"]) /\ UNCHANGED timers
      BY <3>1, <3>2 DEF TypeOK, PostDb
    <3>3. CASE timers' = timers + 1 /\ UNCHANGED dbQueue
      BY <3>3 DEF TypeOK
    <3> QED  BY <2>2, <3>2, <3>3 DEF ui_mnsync_response
  <2>3. CASE ui_rpc_balance_response(c, b)
    <3>1. PICK balance \in IF b THEN {answer.tip : answer \in served[c]} ELSE {0} :
            PostDb([op |-> "db_rpc_balance_response", sig |-> ui_requests_[c],
                    ok |-> b, balance |-> balance])
      BY <2>3 DEF ui_rpc_balance_response
    <3>2. \A answer \in served[c] : answer.tip \in Heights
      BY <1>1 DEF Answer
    <3>3. balance \in Heights
      BY <3>1, <3>2, ConstantsAssumption DEF Heights
    <3>4. [op |-> "db_rpc_balance_response", sig |-> ui_requests_[c],
           ok |-> b, balance |-> balance] \in DbTask
      BY <1>1, <3>3 DEF DbTask
    <3> QED  BY <2>3, <3>1, <3>4 DEF TypeOK, ui_rpc_balance_response, PostDb
  <2> QED  BY <2>1, <2>2, <2>3
<1> QED  BY <1>1, <1>2 DEF TypeOK, dbVars, fileVars, tabVars

\* A file that was just recreated is a file.
LEMMA FreshFileType == TypeOK => [NewFile EXCEPT !.raced = db_in_rpc_call_] \in File
<1> SUFFICES ASSUME TypeOK PROVE [NewFile EXCEPT !.raced = db_in_rpc_call_] \in File
  OBVIOUS
<1>1. [NewFile EXCEPT !.raced = db_in_rpc_call_]
        = [latest |-> 0, rows |-> {}, raced |-> db_in_rpc_call_]
  BY DEF NewFile
<1>2. 0 \in Heights /\ {} \in SUBSET Rows /\ db_in_rpc_call_ \in BOOLEAN
  BY ConstantsAssumption DEF Heights, TypeOK
<1> QED  BY <1>1, <1>2 DEF File

\* check_database leaves the database closed or open, and files that are files.
LEMMA CheckDatabaseType ==
    ASSUME TypeOK, NEW a \in Addresses, NEW recreate \in BOOLEAN, check_database(a, recreate)
    PROVE  dbOpen' \in AnyAddress /\ files' \in [Addresses -> File]
<1>1. [NewFile EXCEPT !.raced = db_in_rpc_call_] \in File
  BY FreshFileType
<1> QED  BY <1>1 DEF check_database, TypeOK, AnyAddress

LEMMA TypeDbSet ==
    ASSUME TypeOK, db_set_token \/ db_set_first_address \/ db_start_task
    PROVE  TypeOK'
<1>1. CASE db_set_token
  <2>1. /\ Head(dbQueue).token \in Nat /\ dbQueue' \in Seq(DbTask)
    BY <1>1, DbHead DEF db_set_token, DbTaskDone, DbTask
  <2>2. uiQueue' \in Seq(UiTask) /\ db_in_rpc_call_' \in BOOLEAN
    BY <1>1, <2>1, StartPosts DEF db_set_token, TypeOK, AnyRequest, fileVars
  <2> QED  BY <1>1, <2>1, <2>2
            DEF db_set_token, DbTaskDone, TypeOK, fileVars, tabVars, envVars
<1>2. CASE db_set_first_address
  <2>1. /\ Head(dbQueue).addr \in Addresses /\ dbQueue' \in Seq(DbTask)
    BY <1>2, DbHead DEF db_set_first_address, DbTaskDone, DbTask
  <2>2. db_loaded_' \in BOOLEAN /\ db_control_sum_check_failed_count_' \in 0 .. Threshold + 1
    <3>1. \/ db_loaded_' = FALSE /\ db_control_sum_check_failed_count_' = 0
          \/ UNCHANGED <<db_loaded_, db_control_sum_check_failed_count_>>
      BY <1>2 DEF db_set_first_address
    <3>2. db_loaded_' \in BOOLEAN
      BY <3>1, Zenon DEF TypeOK
    <3> QED  BY <3>1, <3>2, ConstantsAssumption DEF TypeOK
  <2>3. dbOpen' \in AnyAddress /\ files' \in [Addresses -> File]
    BY <1>2, <2>1, CheckDatabaseType DEF db_set_first_address, TypeOK, fileVars
  <2>4. uiQueue' \in Seq(UiTask) /\ db_in_rpc_call_' \in BOOLEAN
    BY <1>2, <2>1, <2>2, <2>3, StartPosts DEF db_set_first_address, TypeOK, AnyRequest, AnyAddress
  <2> QED  BY <1>2, <2>1, <2>2, <2>3, <2>4
            DEF db_set_first_address, DbTaskDone, TypeOK, AnyAddress, tabVars, envVars
<1>3. CASE db_start_task
  <2>1. /\ Head(dbQueue).ext \in AnyRequest /\ dbQueue' \in Seq(DbTask)
    BY <1>3, DbHead DEF db_start_task, DbTaskDone, DbTask
  <2>2. uiQueue' \in Seq(UiTask) /\ db_in_rpc_call_' \in BOOLEAN
    BY <1>3, <2>1, StartPosts DEF db_start_task, TypeOK, fileVars
  <2> QED  BY <1>3, <2>1, <2>2
            DEF db_start_task, DbTaskDone, TypeOK, fileVars, tabVars, envVars
<1> QED  BY <1>1, <1>2, <1>3

\* Merging rows into the open file leaves files that are files.
LEMMA MergeType ==
    ASSUME TypeOK, NEW rows \in SUBSET Rows, Merge(rows)
    PROVE  files' \in [Addresses -> File]
<1>1. CASE rows = {} \/ dbOpen = NoAddress
  BY <1>1 DEF Merge, TypeOK
<1>2. CASE ~(rows = {} \/ dbOpen = NoAddress)
  <2>1. PICK latest \in {files[dbOpen].latest} \cup {row[2] : row \in rows} :
          files' = [files EXCEPT ![dbOpen] =
                      [latest |-> latest, rows |-> @.rows \cup rows, raced |-> @.raced]]
    BY <1>2, Zenon DEF Merge
  <2>2. dbOpen \in Addresses /\ files[dbOpen] \in File
    BY <1>2 DEF TypeOK, AnyAddress
  <2>3. \A row \in rows : row[2] \in Heights
    BY ConstantsAssumption DEF Rows, Heights
  <2>4. latest \in Heights
    BY <2>1, <2>2, <2>3 DEF File
  <2>5. [latest |-> latest, rows |-> files[dbOpen].rows \cup rows,
         raced |-> files[dbOpen].raced] \in File
    BY <2>2, <2>4 DEF File
  <2> QED  BY <2>1, <2>2, <2>5 DEF TypeOK
<1> QED  BY <1>1, <1>2

LEMMA TypeDbReply ==
    ASSUME TypeOK,
           \/ db_get_transactions_task \/ db_rpc_response_stale \/ db_rpc_response
           \/ db_check_control_sum
    PROVE  TypeOK'
<1>1. CASE db_get_transactions_task
  <2>1. Head(dbQueue).ext \in AnyRequest /\ dbQueue' \in Seq(DbTask)
    BY <1>1, DbHead DEF db_get_transactions_task, DbTaskDone, DbTask
  <2>2. uiQueue' \in Seq(UiTask)
    BY <1>1, <2>1, AnswerPosts DEF db_get_transactions_task, TypeOK
  <2> QED  BY <1>1, <2>1, <2>2
            DEF db_get_transactions_task, DbTaskDone, TypeOK, dbVars, fileVars, tabVars, envVars
<1>2. CASE db_rpc_response_stale
  <2>1. Head(dbQueue).sig.ext \in AnyRequest /\ dbQueue' \in Seq(DbTask)
    BY <1>2, DbHead DEF db_rpc_response_stale, DbTaskDone, DbTask, Signature
  <2>2. uiQueue' \in Seq(UiTask)
    BY <1>2, <2>1, AnswerPosts DEF db_rpc_response_stale, TypeOK
  <2> QED  BY <1>2, <2>1, <2>2
            DEF db_rpc_response_stale, DbTaskDone, TypeOK, fileVars, tabVars, envVars
<1>3. CASE db_rpc_response
  <2>1. /\ Head(dbQueue).sig.ext \in AnyRequest /\ Head(dbQueue).rows \in SUBSET Rows
        /\ dbQueue' \in Seq(DbTask)
    BY <1>3, DbHead DEF db_rpc_response, DbTaskDone, DbTask, Signature
  <2>2. uiQueue' \in Seq(UiTask)
    <3>1. CASE Head(dbQueue).sig.ext # NoRequest
      BY <1>3, <2>1, <3>1, AnswerPosts DEF db_rpc_response, TypeOK
    <3>2. CASE Head(dbQueue).sig.ext = NoRequest
      <4>1. [op |-> "mnsync", token |-> db_token_base64_, addr |-> NoAddress,
             since |-> 0, ext |-> NoRequest] \in UiTask
        BY ConstantsAssumption DEF UiTask, Signature, TypeOK, AnyAddress, AnyRequest, Heights
      <4>2. db_check_synced \in Seq(UiTask)
        BY <4>1 DEF db_check_synced
      <4> QED  BY <1>3, <3>2, <4>2, ConcatProperties DEF db_rpc_response, TypeOK
    <3> QED  BY <3>1, <3>2
  <2>3. files' \in [Addresses -> File]
    BY <1>3, <2>1, MergeType DEF db_rpc_response
  <2> QED  BY <1>3, <2>1, <2>2, <2>3
            DEF db_rpc_response, DbTaskDone, TypeOK, tabVars, envVars
<1>4. CASE db_check_control_sum
  <2>1. dbQueue' \in Seq(DbTask)
    BY <1>4, DbHead DEF db_check_control_sum, DbTaskDone
  <2>2. [op |-> "getbalance", token |-> db_token_base64_, addr |-> db_wallet_first_address_,
         since |-> 0, ext |-> NoRequest] \in UiTask
    BY ConstantsAssumption DEF UiTask, Signature, TypeOK, AnyRequest, Heights
  <2>3. uiQueue' \in Seq(UiTask)
    BY <1>4, <2>2 DEF db_check_control_sum, TypeOK
  <2> QED  BY <1>4, <2>1, <2>3
            DEF db_check_control_sum, DbTaskDone, TypeOK, dbVars, fileVars, tabVars, envVars
<1> QED  BY <1>1, <1>2, <1>3, <1>4

LEMMA TypeDbBalance ==
    ASSUME TypeOK, db_rpc_balance_response
    PROVE  TypeOK'
<1>1. /\ dbQueue' \in Seq(DbTask) /\ Head(dbQueue) \in DbTask
      /\ Head(dbQueue).sig \in Signature
  BY DbHead DEF db_rpc_balance_response, DbTaskDone, DbTask
<1>2. CASE StaleReply
  BY <1>1, <1>2 DEF db_rpc_balance_response, DbTaskDone, TypeOK, fileVars, tabVars, envVars
<1>3. CASE ~StaleReply
  <2>1. \A n : FailedCount(n) \in 0 .. Threshold + 1
    BY ConstantsAssumption DEF FailedCount, TypeOK
  <2>2. /\ timers' \in Nat
        /\ db_control_sum_check_failed_count_' \in 0 .. Threshold + 1
    BY <1>3, <2>1 DEF db_rpc_balance_response, TypeOK
  <2>3. /\ db_loaded_' \in BOOLEAN
        /\ dbOpen' \in AnyAddress /\ files' \in [Addresses -> File]
    <3>1. CASE Head(dbQueue).ok /\ db_control_sum_check_failed_count_' > Threshold
      <4>1. db_loaded_' = FALSE /\ check_database(db_wallet_first_address_, TRUE)
        BY <1>3, <3>1 DEF db_rpc_balance_response
      <4>2. dbOpen' \in AnyAddress
        BY <4>1 DEF check_database, TypeOK, AnyAddress
      <4>3. [NewFile EXCEPT !.raced = db_in_rpc_call_] \in File
        BY FreshFileType
      <4> QED  BY <4>1, <4>2, <4>3 DEF check_database, TypeOK
    <3>2. CASE ~(Head(dbQueue).ok /\ db_control_sum_check_failed_count_' > Threshold)
      BY <1>3, <3>2 DEF db_rpc_balance_response, fileVars, TypeOK
    <3> QED  BY <3>1, <3>2
  <2> QED  BY <1>1, <2>2, <2>3 DEF db_rpc_balance_response, DbTaskDone, TypeOK, tabVars, envVars
<1> QED  BY <1>2, <1>3

LEMMA TypeEnvironment ==
    ASSUME TypeOK,
           \/ NewBlock \/ (\E a \in Addresses : Reseed(a)) \/ Restart
           \/ \E c \in Calls : Serve(c)
    PROVE  TypeOK'
<1>1. CASE NewBlock
  <2>1. wallet.tip + 1 \in Heights
    BY <1>1, ConstantsAssumption DEF NewBlock, TypeOK, Heights, WalletProcess
  <2>2. wallet' = [wallet EXCEPT !.tip = wallet.tip + 1]
    BY <1>1 DEF NewBlock
  <2>3. wallet' \in WalletProcess
    BY <2>1, <2>2 DEF TypeOK, WalletProcess
  <2> QED  BY <1>1, <2>3 DEF NewBlock, TypeOK, queueVars, dbVars, fileVars, tabVars
<1>2. ASSUME NEW a \in Addresses, Reseed(a)
      PROVE  TypeOK'
  <2>1. /\ wallet.token + 1 \in Nat \ {NoToken} /\ used.reseed + 1 \in Nat
    BY DEF TypeOK, NoToken, WalletProcess
  <2>2. /\ wallet' = [wallet EXCEPT !.addr = a, !.token = wallet.token + 1,
                                    !.owners = Append(wallet.owners, a)]
        /\ used' = [used EXCEPT !.reseed = used.reseed + 1]
    BY <1>2 DEF Reseed
  <2>3. wallet' \in WalletProcess
    <3>1. Append(wallet.owners, a) \in Seq(Addresses)
      BY DEF TypeOK, WalletProcess
    <3> QED  BY <2>1, <2>2, <3>1 DEF TypeOK, WalletProcess
  <2>4. used' \in [token : Nat, reseed : Nat, restart : Nat]
    BY <2>1, <2>2 DEF TypeOK
  <2> QED  BY <1>2, <2>3, <2>4 DEF Reseed, TypeOK, queueVars, dbVars, fileVars, tabVars
<1>3. CASE Restart
  <2>1. used.restart + 1 \in Nat
    BY DEF TypeOK
  <2>2. used' = [used EXCEPT !.restart = used.restart + 1, !.token = 0]
    BY <1>3 DEF Restart
  <2>3. used' \in [token : Nat, reseed : Nat, restart : Nat]
    BY <2>1, <2>2 DEF TypeOK
  <2>4. uiQueue' \in Seq(UiTask) /\ dbQueue' \in Seq(DbTask)
    BY <1>3 DEF Restart
  <2>5. ui_requests_' \in [Calls -> Signature \cup {NoCall}]
    BY <1>3 DEF Restart
  <2>6. /\ timers' = 0 /\ db_control_sum_check_failed_count_' = 0 /\ db_token_base64_' = 0
        /\ db_wallet_first_address_' = NoAddress /\ dbOpen' = NoAddress
        /\ first_address_' = NoAddress
        /\ db_in_rpc_call_' = FALSE /\ db_loaded_' = FALSE
        /\ asked' \in SUBSET Requests
        /\ UNCHANGED <<files, answers, wallet>>
        /\ served' \in [Calls -> SUBSET Answer]
    BY <1>3 DEF Restart, TypeOK, NoToken
  <2>7. 0 \in Nat /\ 0 \in 0 .. Threshold + 1 /\ NoAddress \in AnyAddress
    BY ConstantsAssumption DEF AnyAddress
  <2> QED  BY <2>3, <2>4, <2>5, <2>6, <2>7 DEF TypeOK
<1>4. ASSUME NEW c \in Calls, Serve(c)
      PROVE  TypeOK'
  <2>1. [addr |-> wallet.addr, tip |-> wallet.tip] \in Answer
    BY DEF TypeOK, Answer, WalletProcess
  <2>2. served' \in [Calls -> SUBSET Answer]
    BY <1>4, <2>1 DEF Serve, TypeOK
  <2> QED  BY <1>4, <2>2 DEF Serve, TypeOK, queueVars, dbVars, fileVars, tabVars
<1> QED  BY <1>1, <1>2, <1>3, <1>4

\* Every variable keeps its type.
THEOREM TypeCorrect == Spec => []TypeOK
<1>1. TypeOK /\ [Next]_vars => TypeOK'
  <2> SUFFICES ASSUME TypeOK, [Next]_vars PROVE TypeOK'
    OBVIOUS
  <2>1. CASE DbStep
    BY <2>1, TypeDbSet, TypeDbReply, TypeDbBalance DEF DbStep
  <2>2. CASE UNCHANGED vars
    BY <2>2 DEF TypeOK, vars, queueVars, dbVars, fileVars, tabVars, envVars
  <2> QED  BY <2>1, <2>2, TypeUi, TypeReply, TypeEnvironment DEF Next
<1> QED  BY <1>1, TypeInit, PTL DEF Spec

-----------------------------------------------------------------------------
(* One call in flight.                                                     *)
(* OneCallInFlight is inductive together with TypeOK: each step moves the   *)
(* call one place on, or leaves every place with the calls it had.          *)

\* A place that had no call still has none, one that had a call still has one.
Kept(S, T) == (S = {} => T = {}) /\ (IsSingle(S) => IsSingle(T))

\* Posting any other task to the database thread keeps its calls.
LEMMA PostDbKeeps ==
    ASSUME TypeOK, NEW task, task.op # "db_rpc_response", PostDb(task)
    PROVE  DbCalls' = DbCalls
<1>1. Places(Append(dbQueue, task), "db_rpc_response") = Places(dbQueue, "db_rpc_response")
  BY PlacesAppend DEF TypeOK
<1> QED  BY <1>1 DEF PostDb, DbCalls

\* Running any other task on the database thread keeps its calls.
LEMMA DbTaskKeeps ==
    ASSUME TypeOK, NEW op, DbTaskIs(op), op # "db_rpc_response", DbTaskDone
    PROVE  Kept(DbCalls, DbCalls') /\ NetCalls' = NetCalls
<1>1. /\ dbQueue \in Seq(DbTask) /\ dbQueue # <<>> /\ Head(dbQueue).op # "db_rpc_response"
      /\ dbQueue' = Tail(dbQueue) /\ ui_requests_' = ui_requests_
  BY DEF TypeOK, DbTaskIs, DbTaskDone
<1>2. Kept(Places(dbQueue, "db_rpc_response"), Places(Tail(dbQueue), "db_rpc_response"))
  BY <1>1, PlacesTail DEF Kept
<1> QED  BY <1>1, <1>2 DEF DbCalls, NetCalls

\* What each thread keeps when it does not act.
LEMMA QueuesKeep ==
    /\ UNCHANGED uiQueue => UiCalls' = UiCalls
    /\ UNCHANGED dbQueue => DbCalls' = DbCalls
    /\ UNCHANGED ui_requests_ => NetCalls' = NetCalls
BY DEF UiCalls, DbCalls, NetCalls

LEMMA FlightUi ==
    ASSUME TypeOK, OneCallInFlight,
           \/ \E token \in NoToken .. wallet.token : ui_set_rpc_token(token)
           \/ ui_set_first_address
           \/ \E r \in Requests, invalidate \in BOOLEAN : ui_get_transactions(r, invalidate)
           \/ ui_start
    PROVE  OneCallInFlight'
<1>1. DbCalls' = DbCalls
  <2>1. ASSUME NEW token, ui_set_rpc_token(token)
        PROVE  DbCalls' = DbCalls
    BY <2>1, PostDbKeeps DEF ui_set_rpc_token
  <2>2. ASSUME ui_set_first_address
        PROVE  DbCalls' = DbCalls
    BY <2>2, PostDbKeeps DEF ui_set_first_address
  <2>3. ASSUME NEW r, NEW invalidate, ui_get_transactions(r, invalidate)
        PROVE  DbCalls' = DbCalls
    BY <2>3, PostDbKeeps DEF ui_get_transactions
  <2>4. ASSUME ui_start
        PROVE  DbCalls' = DbCalls
    BY <2>4, PostDbKeeps DEF ui_start
  <2> QED  BY <2>1, <2>2, <2>3, <2>4
<1>2. UNCHANGED <<uiQueue, ui_requests_, db_in_rpc_call_>>
  BY DEF ui_set_rpc_token, ui_set_first_address, ui_get_transactions, ui_start, dbVars
<1> QED  BY <1>1, <1>2, QueuesKeep DEF OneCallInFlight

LEMMA FlightUiTask ==
    ASSUME TypeOK, OneCallInFlight, UiTaskStep
    PROVE  OneCallInFlight'
<1>1. CASE end_http_call
  <2>1. /\ uiQueue \in Seq(UiTask) /\ uiQueue # <<>> /\ Head(uiQueue).op # "listsinceblock"
        /\ uiQueue' = Tail(uiQueue)
        /\ UNCHANGED <<dbQueue, ui_requests_, db_in_rpc_call_>>
    BY <1>1 DEF TypeOK, end_http_call, dbVars
  <2>2. Kept(UiCalls, UiCalls')
    BY <2>1, PlacesTail DEF UiCalls, Kept
  <2> QED  BY <2>1, <2>2, QueuesKeep DEF OneCallInFlight, Kept
<1>2. ASSUME NEW c \in Calls, ui_request(c)
      PROVE  OneCallInFlight'
  <2>1. /\ uiQueue \in Seq(UiTask) /\ uiQueue # <<>> /\ uiQueue' = Tail(uiQueue)
        /\ ui_requests_[c] = NoCall
        /\ ui_requests_' = [ui_requests_ EXCEPT ![c] = Head(uiQueue)]
        /\ ui_requests_ \in [Calls -> Signature \cup {NoCall}]
        /\ UNCHANGED <<dbQueue, db_in_rpc_call_>>
    BY <1>2 DEF TypeOK, ui_request, dbVars
  <2>2. Head(uiQueue) # NoCall
    BY <1>2, UiHead, NoCallAssumption DEF ui_request, UiTask
  <2>3. CASE Head(uiQueue).op = "listsinceblock"
    <3>1. UiCalls # {} /\ (IsSingle(UiCalls) => UiCalls' = {})
      <4>1. /\ Places(uiQueue, "listsinceblock") # {}
            /\ IsSingle(Places(uiQueue, "listsinceblock"))
                 => Places(Tail(uiQueue), "listsinceblock") = {}
        BY <2>1, <2>3, PlacesTail
      <4> QED  BY <2>1, <4>1 DEF UiCalls
    <3>2. NetCalls' = NetCalls \cup {c}
      BY <2>1, <2>2, <2>3 DEF NetCalls
    <3> QED  BY <2>1, <3>1, <3>2, QueuesKeep DEF OneCallInFlight, IsSingle
  <2>4. CASE Head(uiQueue).op # "listsinceblock"
    <3>1. Kept(UiCalls, UiCalls')
      BY <2>1, <2>4, PlacesTail DEF UiCalls, Kept
    <3>2. NetCalls' = NetCalls
      BY <2>1, <2>2, <2>4 DEF NetCalls
    <3> QED  BY <2>1, <3>1, <3>2, QueuesKeep DEF OneCallInFlight, Kept
  <2> QED  BY <2>3, <2>4
<1> QED  BY <1>1, <1>2 DEF UiTaskStep

LEMMA FlightReply ==
    ASSUME TypeOK, OneCallInFlight, NEW c \in Calls, ReplyStep(c)
    PROVE  OneCallInFlight'
<1> PICK b \in BOOLEAN :
        ui_rpc_response(c, b) \/ ui_mnsync_response(c, b) \/ ui_rpc_balance_response(c, b)
  BY DEF ReplyStep
<1>1. /\ ui_requests_[c] # NoCall
      /\ ui_requests_' = [ui_requests_ EXCEPT ![c] = NoCall]
      /\ ui_requests_ \in [Calls -> Signature \cup {NoCall}]
      /\ UNCHANGED <<uiQueue, db_in_rpc_call_>>
  BY DEF TypeOK, ui_rpc_response, ui_mnsync_response, ui_rpc_balance_response, Reply, dbVars
<1>2. CASE ui_rpc_response(c, b)
  <2>1. ui_requests_[c].op = "listsinceblock"
    BY <1>2 DEF ui_rpc_response, Reply
  <2>2. c \in NetCalls /\ NetCalls' = NetCalls \ {c}
    BY <1>1, <2>1 DEF NetCalls
  <2>3. DbCalls' = DbCalls \cup {Len(dbQueue) + 1}
    <3> DEFINE task == [op |-> "db_rpc_response", sig |-> ui_requests_[c],
               rows |-> {row \in Rows : /\ b /\ row[2] > ui_requests_[c].since
                                        /\ \E answer \in served[c] :
                                              row[1] = answer.addr /\ row[2] <= answer.tip}]
    <3>1. task.op = "db_rpc_response" /\ dbQueue' = Append(dbQueue, task)
      BY <1>2 DEF ui_rpc_response, PostDb
    <3> HIDE DEF task
    <3> dbQueue \in Seq(DbTask)
      BY DEF TypeOK
    <3>2. Places(Append(dbQueue, task), "db_rpc_response")
            = Places(dbQueue, "db_rpc_response") \cup {Len(dbQueue) + 1}
      BY <3>1, PlacesAppend
    <3> QED  BY <3>1, <3>2 DEF DbCalls
  <2> QED  BY <1>1, <2>2, <2>3, QueuesKeep DEF OneCallInFlight, IsSingle
<1>3. CASE ui_mnsync_response(c, b) \/ ui_rpc_balance_response(c, b)
  <2>1. NetCalls' = NetCalls
    BY <1>1, <1>3 DEF ui_mnsync_response, ui_rpc_balance_response, Reply, NetCalls
  <2>2. DbCalls' = DbCalls
    <3>1. CASE ui_mnsync_response(c, b)
      BY <3>1, PostDbKeeps, QueuesKeep DEF ui_mnsync_response
    <3>2. CASE ui_rpc_balance_response(c, b)
      BY <3>2, PostDbKeeps DEF ui_rpc_balance_response
    <3> QED  BY <1>3, <3>1, <3>2
  <2> QED  BY <1>1, <2>1, <2>2, QueuesKeep DEF OneCallInFlight
<1> QED  BY <1>2, <1>3

LEMMA FlightDb ==
    ASSUME TypeOK, TypeOK', OneCallInFlight, DbStep
    PROVE  OneCallInFlight'
<1>1. CASE db_set_token \/ db_set_first_address \/ db_start_task
  <2>1. PICK op \in {"db_set_token", "db_set_first_address", "db_start"} : DbTaskIs(op) /\ DbTaskDone
    BY <1>1 DEF db_set_token, db_set_first_address, db_start_task
  <2>2. PICK ext \in AnyRequest : db_start(ext)
    <3>1. CASE db_start_task
      <4>1. Head(dbQueue).ext \in AnyRequest
        BY <3>1, DbHead DEF db_start_task, DbTask
      <4> QED  BY <3>1, <4>1 DEF db_start_task
    <3>2. CASE db_set_token \/ db_set_first_address
      BY <3>2 DEF db_set_token, db_set_first_address, AnyRequest
    <3> QED  BY <1>1, <3>1, <3>2
  <2>3. \/ UNCHANGED db_in_rpc_call_ /\ UiCalls' = UiCalls
        \/ ~db_in_rpc_call_ /\ db_in_rpc_call_' /\ UiCalls' = UiCalls \cup {Len(uiQueue) + 1}
    BY <2>2, StartPosts DEF TypeOK
  <2>4. Kept(DbCalls, DbCalls') /\ NetCalls' = NetCalls
    BY <2>1, DbTaskKeeps
  <2> QED  BY <2>3, <2>4 DEF OneCallInFlight, Kept, IsSingle
<1>2. CASE db_rpc_response_stale \/ db_rpc_response
  <2>1. /\ dbQueue \in Seq(DbTask) /\ dbQueue # <<>> /\ Head(dbQueue).op = "db_rpc_response"
        /\ dbQueue' = Tail(dbQueue) /\ UNCHANGED ui_requests_
        /\ db_in_rpc_call_' = FALSE
    BY <1>2 DEF db_rpc_response_stale, db_rpc_response, DbTaskIs, DbTaskDone, TypeOK
  <2>2. DbCalls # {} /\ (IsSingle(DbCalls) => DbCalls' = {})
    BY <2>1, PlacesTail DEF DbCalls
  <2>3. UiCalls' = UiCalls
    <3>1. Head(dbQueue).sig.ext \in AnyRequest
      <4>1. Head(dbQueue) \in DbTask
        BY <2>1, PlacesTail
      <4>2. Head(dbQueue).sig \in Signature
        BY <2>1, <4>1 DEF DbTask
      <4> QED  BY <4>2 DEF Signature
    <3>2. ASSUME NEW loaded \in BOOLEAN,
                 uiQueue' = uiQueue \o db_get_transactions(Head(dbQueue).sig.ext, loaded)
          PROVE  UiCalls' = UiCalls
      BY <3>1, <3>2, AnswerPosts DEF UiCalls, TypeOK
    <3>3. CASE uiQueue' = uiQueue \o db_check_synced
      <4> DEFINE task == [op |-> "mnsync", token |-> db_token_base64_, addr |-> NoAddress,
                          since |-> 0, ext |-> NoRequest]
      <4>1. uiQueue' = Append(uiQueue, task) /\ task.op # "listsinceblock"
        BY <3>3 DEF db_check_synced, TypeOK
      <4> HIDE DEF task
      <4>2. Places(Append(uiQueue, task), "listsinceblock") = Places(uiQueue, "listsinceblock")
        BY <4>1, PlacesAppend DEF TypeOK
      <4> QED  BY <4>1, <4>2 DEF UiCalls
    <3> QED  BY <1>2, <3>2, <3>3 DEF db_rpc_response_stale, db_rpc_response, TypeOK
  <2> QED  BY <2>1, <2>2, <2>3, QueuesKeep DEF OneCallInFlight
<1>3. CASE db_get_transactions_task
  <2>1. Kept(DbCalls, DbCalls') /\ NetCalls' = NetCalls
    BY <1>3, DbTaskKeeps DEF db_get_transactions_task
  <2>2. Head(dbQueue).ext \in AnyRequest
    BY <1>3, DbHead DEF db_get_transactions_task, DbTask
  <2>3. UiCalls' = UiCalls
    BY <1>3, <2>2, AnswerPosts DEF db_get_transactions_task, UiCalls, TypeOK
  <2> QED  BY <1>3, <2>1, <2>3 DEF db_get_transactions_task, dbVars, OneCallInFlight, Kept
<1>4. CASE db_check_control_sum
  <2>1. Kept(DbCalls, DbCalls') /\ NetCalls' = NetCalls
    BY <1>4, DbTaskKeeps DEF db_check_control_sum
  <2>2. UiCalls' = UiCalls
    <3> DEFINE task == [op |-> "getbalance", token |-> db_token_base64_,
                        addr |-> db_wallet_first_address_, since |-> 0, ext |-> NoRequest]
    <3>1. uiQueue' = Append(uiQueue, task) /\ task.op # "listsinceblock"
      BY <1>4 DEF db_check_control_sum
    <3> HIDE DEF task
    <3>2. Places(Append(uiQueue, task), "listsinceblock") = Places(uiQueue, "listsinceblock")
      BY <3>1, PlacesAppend DEF TypeOK
    <3> QED  BY <3>1, <3>2 DEF UiCalls
  <2> QED  BY <1>4, <2>1, <2>2 DEF db_check_control_sum, dbVars, OneCallInFlight, Kept
<1>5. CASE db_rpc_balance_response
  <2>1. Kept(DbCalls, DbCalls') /\ NetCalls' = NetCalls
    BY <1>5, DbTaskKeeps DEF db_rpc_balance_response
  <2> QED  BY <1>5, <2>1, QueuesKeep DEF db_rpc_balance_response, OneCallInFlight, Kept
<1> QED  BY <1>1, <1>2, <1>3, <1>4, <1>5 DEF DbStep

LEMMA FlightEnvironment ==
    ASSUME TypeOK, OneCallInFlight,
           \/ NewBlock \/ (\E a \in Addresses : Reseed(a)) \/ Restart
           \/ \E c \in Calls : Serve(c)
    PROVE  OneCallInFlight'
<1>1. CASE NewBlock \/ (\E a \in Addresses : Reseed(a)) \/ \E c \in Calls : Serve(c)
  <2>1. UNCHANGED <<uiQueue, dbQueue, ui_requests_, db_in_rpc_call_>>
    BY <1>1 DEF NewBlock, Reseed, Serve, queueVars, dbVars
  <2> QED  BY <2>1, QueuesKeep DEF OneCallInFlight
<1>2. CASE Restart
  <2>1. /\ uiQueue' = <<>> /\ dbQueue' = <<>> /\ db_in_rpc_call_' = FALSE
        /\ ui_requests_' = [c \in Calls |-> NoCall]
    BY <1>2 DEF Restart
  <2>2. UiCalls' = {} /\ DbCalls' = {} /\ NetCalls' = {}
    BY <2>1 DEF UiCalls, DbCalls, NetCalls, Places
  <2> QED  BY <2>1, <2>2 DEF OneCallInFlight
<1> QED  BY <1>1, <1>2

\* db_in_rpc_call_ is set exactly while one listsinceblock call is on its way between the
\* threads and the network (ui_rpc_request, ui_rpc_response, db_rpc_response), whatever
\* the number of wallets, requests and calls.
THEOREM SingleFlight == Spec => []OneCallInFlight
<1>1. Init => OneCallInFlight
  BY DEF Init, OneCallInFlight, UiCalls, DbCalls, NetCalls, Places
<1>2. TypeOK /\ TypeOK' /\ OneCallInFlight /\ [Next]_vars => OneCallInFlight'
  <2> SUFFICES ASSUME TypeOK, TypeOK', OneCallInFlight, [Next]_vars PROVE OneCallInFlight'
    OBVIOUS
  <2>1. CASE UNCHANGED vars
    BY <2>1, QueuesKeep DEF vars, queueVars, dbVars, OneCallInFlight
  <2> QED  BY <2>1, FlightUi, FlightUiTask, FlightReply, FlightDb, FlightEnvironment DEF Next
<1> QED  BY <1>1, <1>2, TypeCorrect, PTL DEF Spec

-----------------------------------------------------------------------------
(* One place for each request.                                             *)
(* RequestInOnePlace counts places; where there is at most one, it is as     *)
(* good to say that a set has one element, or none.  ReqInv says so of each  *)
(* thread and of the network, and ExtInv that no call whose reply is not     *)
(* followed by an answer carries a request.                                 *)

\* Where a queue holds one of the tasks of P.
At(s, P) == {i \in DOMAIN s : s[i] \in P}

LEMMA AtAppend ==
    ASSUME NEW S, NEW s \in Seq(S), NEW e \in S, NEW P
    PROVE  /\ e \notin P => At(Append(s, e), P) = At(s, P)
           /\ e \in P => At(Append(s, e), P) = At(s, P) \cup {Len(s) + 1}
           /\ Len(s) + 1 \notin At(s, P)
<1> DEFINE t == Append(s, e)
<1>1. /\ DOMAIN s = 1 .. Len(s) /\ DOMAIN t = 1 .. Len(s) + 1 /\ Len(s) \in Nat
      /\ \A i \in 1 .. Len(s) : t[i] = s[i]
      /\ t[Len(s) + 1] = e
  OBVIOUS
<1> HIDE DEF t
<1>2. /\ e \notin P => At(t, P) = At(s, P)
      /\ e \in P => At(t, P) = At(s, P) \cup {Len(s) + 1}
      /\ Len(s) + 1 \notin At(s, P)
  BY <1>1 DEF At
<1> QED  BY <1>2 DEF t

LEMMA AtTail ==
    ASSUME NEW S, NEW s \in Seq(S), s # <<>>, NEW P
    PROVE  /\ At(s, P) = {} => Head(s) \notin P /\ At(Tail(s), P) = {}
           /\ IsSingle(At(s, P)) /\ Head(s) \in P => At(Tail(s), P) = {}
           /\ IsSingle(At(s, P)) /\ Head(s) \notin P => IsSingle(At(Tail(s), P))
           /\ At(Tail(s), P) = {i - 1 : i \in At(s, P) \ {1}}
<1> DEFINE t == Tail(s)
<1>1. /\ t \in Seq(S) /\ Len(s) \in Nat \ {0}
      /\ DOMAIN s = 1 .. Len(s) /\ DOMAIN t = 1 .. Len(s) - 1
      /\ \A i \in 1 .. Len(s) - 1 : t[i] = s[i + 1]
      /\ Head(s) = s[1]
  BY HeadTailProperties, EmptySeq
<1> HIDE DEF t
<1>2. At(t, P) = {i - 1 : i \in At(s, P) \ {1}}
  <2>1. ASSUME NEW j \in At(t, P) PROVE j \in {i - 1 : i \in At(s, P) \ {1}}
    <3>1. j + 1 \in At(s, P) \ {1} /\ j = (j + 1) - 1
      BY <1>1 DEF At
    <3> QED  BY <3>1
  <2>2. ASSUME NEW i \in At(s, P) \ {1} PROVE i - 1 \in At(t, P)
    BY <1>1 DEF At
  <2> QED  BY <2>1, <2>2
<1>3. 1 \in At(s, P) <=> Head(s) \in P
  BY <1>1 DEF At
<1>4. ASSUME NEW x, At(s, P) = {x}, Head(s) \notin P PROVE At(t, P) = {x - 1}
  BY <1>2, <1>3, <1>4
<1>5. /\ At(s, P) = {} => Head(s) \notin P /\ At(t, P) = {}
      /\ IsSingle(At(s, P)) /\ Head(s) \in P => At(t, P) = {}
      /\ IsSingle(At(s, P)) /\ Head(s) \notin P => IsSingle(At(t, P))
  BY <1>2, <1>3, <1>4 DEF IsSingle
<1> QED  BY <1>2, <1>5 DEF t

\* All the tasks of a queue are of Q.
Every(s, Q) == \A i \in DOMAIN s : s[i] \in Q

LEMMA EveryAppend ==
    ASSUME NEW S, NEW s \in Seq(S), NEW e \in S, NEW Q, Every(s, Q), e \in Q
    PROVE  Every(Append(s, e), Q)
<1> DEFINE t == Append(s, e)
<1>1. /\ DOMAIN s = 1 .. Len(s) /\ DOMAIN t = 1 .. Len(s) + 1 /\ Len(s) \in Nat
      /\ \A i \in 1 .. Len(s) : t[i] = s[i]
      /\ t[Len(s) + 1] = e
  OBVIOUS
<1> HIDE DEF t
<1>2. Every(t, Q)
  BY <1>1 DEF Every
<1> QED  BY <1>2 DEF t

LEMMA EveryTail ==
    ASSUME NEW S, NEW s \in Seq(S), s # <<>>, NEW Q, Every(s, Q)
    PROVE  Head(s) \in Q /\ Every(Tail(s), Q)
<1> DEFINE t == Tail(s)
<1>1. /\ Len(s) \in Nat \ {0}
      /\ DOMAIN s = 1 .. Len(s) /\ DOMAIN t = 1 .. Len(s) - 1
      /\ \A i \in 1 .. Len(s) - 1 : t[i] = s[i + 1]
      /\ Head(s) = s[1]
  BY HeadTailProperties, EmptySeq
<1> HIDE DEF t
<1>2. 1 \in 1 .. Len(s) /\ \A i \in 1 .. Len(s) - 1 : i + 1 \in 1 .. Len(s)
  BY <1>1
<1>3. Head(s) \in Q /\ Every(t, Q)
  BY <1>1, <1>2 DEF Every
<1> QED  BY <1>3 DEF t

\* The tasks that carry the request r, and where it is.
UiOf(r) == {task \in UiTask : task.ext = r}
DbOf(r) == {task \in DbTask : \/ /\ task.op \in {"db_start", "db_get_transactions"}
                                 /\ task.ext = r
                              \/ /\ task.op = "db_rpc_response"
                                 /\ task.sig.ext = r}
UiAt(r)  == At(uiQueue, UiOf(r))
NetAt(r) == {c \in Calls : ui_requests_[c] # NoCall /\ ui_requests_[c].ext = r}
DbAt(r)  == At(dbQueue, DbOf(r))

Nowhere(r)   == UiAt(r) = {} /\ NetAt(r) = {} /\ DbAt(r) = {}
Somewhere(r) == \/ IsSingle(UiAt(r)) /\ NetAt(r) = {} /\ DbAt(r) = {}
                \/ UiAt(r) = {} /\ IsSingle(NetAt(r)) /\ DbAt(r) = {}
                \/ UiAt(r) = {} /\ NetAt(r) = {} /\ IsSingle(DbAt(r))

OnePlace(r) ==
    IF r \in asked /\ answers[r] = 0
    THEN Somewhere(r)
    ELSE Nowhere(r) /\ answers[r] = IF r \in asked THEN 1 ELSE 0

ReqInv == \A r \in Requests : OnePlace(r)

Proper == {task \in UiTask : task.op \in {"mnsync", "getbalance"} => task.ext = NoRequest}
ExtInv ==
    /\ Every(uiQueue, Proper)
    /\ \A c \in Calls : ui_requests_[c] \in Proper \cup {NoCall}

\* The invariant is the property.
LEMMA PlacesCounted == TypeOK /\ ReqInv => RequestInOnePlace
<1> SUFFICES ASSUME TypeOK, ReqInv, NEW r \in Requests
             PROVE  Cardinality(RequestPlaces(r)) + answers[r] = IF r \in asked THEN 1 ELSE 0
  BY DEF RequestInOnePlace
<1>1. RequestPlaces(r) = ({"ui"} \X UiAt(r)) \cup ({"net"} \X NetAt(r)) \cup ({"db"} \X DbAt(r))
  <2>1. UiAt(r) = {i \in DOMAIN uiQueue : uiQueue[i].ext = r}
    BY DEF UiAt, At, UiOf, TypeOK
  <2>2. DbAt(r) = {i \in DOMAIN dbQueue :
                     \/ /\ dbQueue[i].op \in {"db_start", "db_get_transactions"}
                        /\ dbQueue[i].ext = r
                     \/ dbQueue[i].op = "db_rpc_response" /\ dbQueue[i].sig.ext = r}
    BY DEF DbAt, At, DbOf, TypeOK
  <2> QED  BY <2>1, <2>2 DEF RequestPlaces, NetAt
<1>2. CASE r \in asked /\ answers[r] = 0
  <2>1. Somewhere(r)
    BY <1>2 DEF ReqInv, OnePlace
  <2>2. \E x : RequestPlaces(r) = {x}
    <3>1. ASSUME NEW x, UiAt(r) = {x}, NetAt(r) = {}, DbAt(r) = {}
          PROVE  RequestPlaces(r) = {<<"ui", x>>}
      BY <1>1, <3>1
    <3>2. ASSUME NEW x, UiAt(r) = {}, NetAt(r) = {x}, DbAt(r) = {}
          PROVE  RequestPlaces(r) = {<<"net", x>>}
      BY <1>1, <3>2
    <3>3. ASSUME NEW x, UiAt(r) = {}, NetAt(r) = {}, DbAt(r) = {x}
          PROVE  RequestPlaces(r) = {<<"db", x>>}
      BY <1>1, <3>3
    <3> QED  BY <2>1, <3>1, <3>2, <3>3 DEF Somewhere, IsSingle
  <2>3. Cardinality(RequestPlaces(r)) = 1
    BY <2>2, FS_Singleton
  <2> QED  BY <1>2, <2>3
<1>3. CASE ~(r \in asked /\ answers[r] = 0)
  <2>1. Nowhere(r) /\ answers[r] = IF r \in asked THEN 1 ELSE 0
    BY <1>3 DEF ReqInv, OnePlace
  <2>2. RequestPlaces(r) = {}
    BY <1>1, <2>1 DEF Nowhere
  <2>3. Cardinality(RequestPlaces(r)) = 0
    BY <2>2, FS_EmptySet
  <2> QED  BY <2>1, <2>3
<1> QED  BY <1>2, <1>3

\* Posting a task, and taking the task at the head, as the request r sees it.
LEMMA PostUiAt ==
    ASSUME TypeOK, NEW task \in UiTask, uiQueue' = Append(uiQueue, task), NEW r
    PROVE  /\ task.ext # r => UiAt(r)' = UiAt(r)
           /\ task.ext = r /\ UiAt(r) = {} => IsSingle(UiAt(r)')
<1>1. uiQueue \in Seq(UiTask) /\ (task \in UiOf(r) <=> task.ext = r)
  BY DEF TypeOK, UiOf
<1> QED  BY <1>1, AtAppend DEF UiAt, IsSingle

LEMMA PostDbAt ==
    ASSUME TypeOK, NEW task \in DbTask, PostDb(task), NEW r
    PROVE  /\ task \notin DbOf(r) => DbAt(r)' = DbAt(r)
           /\ task \in DbOf(r) /\ DbAt(r) = {} => IsSingle(DbAt(r)')
<1>1. dbQueue \in Seq(DbTask) /\ dbQueue' = Append(dbQueue, task)
  BY DEF TypeOK, PostDb
<1> QED  BY <1>1, AtAppend DEF DbAt, IsSingle

LEMMA TakeUiAt ==
    ASSUME TypeOK, uiQueue # <<>>, uiQueue' = Tail(uiQueue), NEW r
    PROVE  /\ Head(uiQueue).ext # r => Kept(UiAt(r), UiAt(r)')
           /\ Head(uiQueue).ext = r
                => UiAt(r) # {} /\ (IsSingle(UiAt(r)) => UiAt(r)' = {})
<1>1. uiQueue \in Seq(UiTask) /\ (Head(uiQueue) \in UiOf(r) <=> Head(uiQueue).ext = r)
  BY UiHead DEF TypeOK, UiOf
<1> QED  BY <1>1, AtTail DEF UiAt, Kept

LEMMA TakeDbAt ==
    ASSUME TypeOK, dbQueue # <<>>, dbQueue' = Tail(dbQueue), NEW r
    PROVE  /\ Head(dbQueue) \notin DbOf(r) => Kept(DbAt(r), DbAt(r)')
           /\ Head(dbQueue) \in DbOf(r)
                => DbAt(r) # {} /\ (IsSingle(DbAt(r)) => DbAt(r)' = {})
<1>1. dbQueue \in Seq(DbTask)
  BY DEF TypeOK
<1> QED  BY <1>1, AtTail DEF DbAt, Kept

\* What is left alone stays where it is.
LEMMA PlacesKeep ==
    ASSUME NEW r
    PROVE  /\ UNCHANGED uiQueue => UiAt(r)' = UiAt(r)
           /\ UNCHANGED ui_requests_ => NetAt(r)' = NetAt(r)
           /\ UNCHANGED dbQueue => DbAt(r)' = DbAt(r)
BY DEF UiAt, NetAt, DbAt

\* A request that the step does not touch stays in its place.
LEMMA Untouched ==
    ASSUME NEW r \in Requests, OnePlace(r), Kept(UiAt(r), UiAt(r)'), Kept(NetAt(r), NetAt(r)'),
           Kept(DbAt(r), DbAt(r)'), r \in asked' <=> r \in asked, answers'[r] = answers[r]
    PROVE  OnePlace(r)'
BY DEF OnePlace, Nowhere, Somewhere, Kept

\* The task of ext, or of none, is taken by the database thread and is answered, or becomes a call.
Carries(ext) == \A r \in Requests :
    /\ ext # r => UiAt(r)' = UiAt(r)
    /\ ext = r /\ UiAt(r) = {} => IsSingle(UiAt(r)')

LEMMA AnswerCarries ==
    ASSUME TypeOK, NEW ext \in AnyRequest, NEW loaded \in BOOLEAN,
           uiQueue' = uiQueue \o db_get_transactions(ext, loaded)
    PROVE  Carries(ext)
<1> DEFINE e == [op |-> "end_http_call", ext |-> ext, is_loading |-> ~loaded]
<1>1. CASE ext = NoRequest
  <2>1. uiQueue' = uiQueue
    BY <1>1, ConcatEmptySeq DEF db_get_transactions, TypeOK
  <2> QED  BY <1>1, <2>1, PlacesKeep, ConstantsAssumption DEF Carries
<1>2. CASE ext # NoRequest
  <2>1. e \in UiTask /\ e.ext = ext
    BY <1>2 DEF UiTask, AnyRequest
  <2>2. uiQueue' = Append(uiQueue, e)
    BY <1>2 DEF db_get_transactions, TypeOK
  <2> QED  BY <2>1, <2>2, PostUiAt DEF Carries
<1> QED  BY <1>1, <1>2

LEMMA StartCarries ==
    ASSUME TypeOK, NEW ext \in AnyRequest, db_start(ext),
           db_wallet_first_address_' \in AnyAddress, db_token_base64_' \in Nat,
           db_loaded_' \in BOOLEAN, dbOpen' \in AnyAddress
    PROVE  Carries(ext)
<1>1. CASE MayNotStart
  BY <1>1, AnswerCarries DEF db_start
<1>2. CASE ~MayNotStart
  <2> DEFINE e == [op |-> "listsinceblock", token |-> db_token_base64_',
                   addr |-> db_wallet_first_address_',
                   since |-> get_latest_block(dbOpen'), ext |-> ext]
  <2>1. get_latest_block(dbOpen') \in Heights
    BY ConstantsAssumption DEF get_latest_block, TypeOK, File, AnyAddress, Heights
  <2>2. e \in UiTask /\ e.ext = ext
    BY <2>1 DEF UiTask, Signature
  <2>3. uiQueue' = Append(uiQueue, e)
    BY <1>2 DEF db_start
  <2> HIDE DEF e
  <2> QED  BY <2>2, <2>3, PostUiAt DEF Carries
<1> QED  BY <1>1, <1>2

\* Each task of the database thread.
LEMMA CarriesOn ==
    ASSUME TypeOK, ReqInv, dbQueue # <<>>, DbTaskDone, NEW ext, Carries(ext),
           \A r \in Requests : Head(dbQueue) \in DbOf(r) <=> ext = r
    PROVE  ReqInv'
<1> SUFFICES ASSUME NEW r \in Requests PROVE OnePlace(r)'
  BY DEF ReqInv
<1>1. /\ NetAt(r)' = NetAt(r) /\ asked' = asked /\ answers' = answers
      /\ dbQueue' = Tail(dbQueue) /\ OnePlace(r)
  BY PlacesKeep DEF DbTaskDone, tabVars, ReqInv
<1>2. CASE ext # r
  <2>1. Kept(DbAt(r), DbAt(r)') /\ UiAt(r)' = UiAt(r)
    BY <1>1, <1>2, TakeDbAt DEF Carries
  <2> QED  BY <1>1, <2>1, Untouched DEF Kept
<1>3. CASE ext = r
  <2>1. /\ DbAt(r) # {} /\ (IsSingle(DbAt(r)) => DbAt(r)' = {})
        /\ UiAt(r) = {} => IsSingle(UiAt(r)')
    BY <1>1, <1>3, TakeDbAt DEF Carries
  <2> QED  BY <1>1, <2>1 DEF OnePlace, Nowhere, Somewhere, IsSingle
<1> QED  BY <1>2, <1>3

LEMMA RequestDb ==
    ASSUME TypeOK, TypeOK', ReqInv, DbStep
    PROVE  ReqInv'
<1> NoRequest \notin Requests
  BY ConstantsAssumption
<1>1. ASSUME NEW op, DbTaskIs(op), DbTaskDone, Carries(NoRequest),
             op \notin {"db_start", "db_get_transactions", "db_rpc_response"}
      PROVE  ReqInv'
  <2>1. \A r \in Requests : Head(dbQueue) \notin DbOf(r)
    BY <1>1 DEF DbOf, DbTaskIs
  <2> QED  BY <1>1, <2>1, CarriesOn DEF DbTaskIs
<1>2. ASSUME UNCHANGED uiQueue PROVE Carries(NoRequest)
  BY <1>2, PlacesKeep DEF Carries
<1>3. CASE db_set_token
  <2>1. Carries(NoRequest)
    BY <1>3, StartCarries DEF db_set_token, TypeOK, AnyRequest
  <2> QED  BY <1>1, <1>3, <2>1 DEF db_set_token
<1>4. CASE db_set_first_address
  <2>1. Carries(NoRequest)
    BY <1>4, StartCarries DEF db_set_first_address, TypeOK, AnyRequest
  <2> QED  BY <1>1, <1>4, <2>1 DEF db_set_first_address
<1>5. ASSUME NEW op \in {"db_start", "db_get_transactions"}, DbTaskIs(op), DbTaskDone,
             Carries(Head(dbQueue).ext)
      PROVE  ReqInv'
  <2>1. \A r \in Requests : Head(dbQueue) \in DbOf(r) <=> Head(dbQueue).ext = r
    BY <1>5, DbHead DEF DbOf
  <2> QED  BY <1>5, <2>1, CarriesOn DEF DbTaskIs
<1>6. CASE db_start_task
  <2>1. Head(dbQueue).ext \in AnyRequest
    BY <1>6, DbHead DEF db_start_task, DbTask
  <2>2. Carries(Head(dbQueue).ext)
    BY <1>6, <2>1, StartCarries DEF db_start_task, TypeOK
  <2> QED  BY <1>5, <1>6, <2>2 DEF db_start_task
<1>7. CASE db_get_transactions_task
  <2>1. Head(dbQueue).ext \in AnyRequest
    BY <1>7, DbHead DEF db_get_transactions_task, DbTask
  <2>2. Carries(Head(dbQueue).ext)
    BY <1>7, <2>1, AnswerCarries DEF db_get_transactions_task, TypeOK
  <2> QED  BY <1>5, <1>7, <2>2 DEF db_get_transactions_task
<1>8. ASSUME DbTaskIs("db_rpc_response"), DbTaskDone, Carries(Head(dbQueue).sig.ext)
      PROVE  ReqInv'
  <2>1. \A r \in Requests : Head(dbQueue) \in DbOf(r) <=> Head(dbQueue).sig.ext = r
    BY <1>8, DbHead DEF DbOf
  <2> QED  BY <1>8, <2>1, CarriesOn DEF DbTaskIs
<1>9. CASE db_rpc_response_stale \/ db_rpc_response
  <2>1. Head(dbQueue).sig.ext \in AnyRequest
    <3>1. DbTaskIs("db_rpc_response")
      BY <1>9 DEF db_rpc_response_stale, db_rpc_response
    <3>2. Head(dbQueue).sig \in Signature
      BY <3>1, DbHead DEF DbTask
    <3> QED  BY <3>2 DEF Signature
  <2>2. Carries(Head(dbQueue).sig.ext)
    <3>1. CASE uiQueue' = uiQueue \o db_check_synced /\ Head(dbQueue).sig.ext = NoRequest
      <4> DEFINE task == [op |-> "mnsync", token |-> db_token_base64_, addr |-> NoAddress,
                          since |-> 0, ext |-> NoRequest]
      <4>1. task \in UiTask /\ task.ext = NoRequest
        BY ConstantsAssumption DEF UiTask, Signature, TypeOK, AnyAddress, AnyRequest, Heights
      <4>2. uiQueue' = Append(uiQueue, task)
        BY <3>1 DEF db_check_synced, TypeOK
      <4> QED  BY <3>1, <4>1, <4>2, PostUiAt DEF Carries
    <3>2. ASSUME NEW loaded \in BOOLEAN,
                 uiQueue' = uiQueue \o db_get_transactions(Head(dbQueue).sig.ext, loaded)
          PROVE  Carries(Head(dbQueue).sig.ext)
      BY <2>1, <3>2, AnswerCarries
    <3> QED  BY <1>9, <3>1, <3>2 DEF db_rpc_response_stale, db_rpc_response, TypeOK
  <2> QED  BY <1>8, <1>9, <2>2 DEF db_rpc_response_stale, db_rpc_response
<1>10. CASE db_check_control_sum
  <2> DEFINE task == [op |-> "getbalance", token |-> db_token_base64_,
                      addr |-> db_wallet_first_address_, since |-> 0, ext |-> NoRequest]
  <2>1. task \in UiTask /\ task.ext = NoRequest /\ uiQueue' = Append(uiQueue, task)
    BY <1>10, ConstantsAssumption
       DEF db_check_control_sum, UiTask, Signature, TypeOK, AnyRequest, Heights
  <2>2. Carries(NoRequest)
    BY <2>1, PostUiAt DEF Carries
  <2> QED  BY <1>1, <1>10, <2>2 DEF db_check_control_sum
<1>11. CASE db_rpc_balance_response
  BY <1>1, <1>2, <1>11 DEF db_rpc_balance_response
<1> QED  BY <1>3, <1>4, <1>6, <1>7, <1>9, <1>10, <1>11 DEF DbStep

LEMMA RequestUi ==
    ASSUME TypeOK, ReqInv,
           \/ \E token \in NoToken .. wallet.token : ui_set_rpc_token(token)
           \/ ui_set_first_address
           \/ \E r \in Requests, invalidate \in BOOLEAN : ui_get_transactions(r, invalidate)
           \/ ui_start
    PROVE  ReqInv'
<1> NoRequest \notin Requests
  BY ConstantsAssumption
<1>1. ASSUME NEW task \in DbTask, PostDb(task), UNCHANGED <<uiQueue, ui_requests_, tabVars>>,
             \A r \in Requests : task \notin DbOf(r)
      PROVE  ReqInv'
  <2> SUFFICES ASSUME NEW r \in Requests PROVE OnePlace(r)'
    BY DEF ReqInv
  <2>1. UiAt(r)' = UiAt(r) /\ NetAt(r)' = NetAt(r) /\ DbAt(r)' = DbAt(r)
    BY <1>1, PlacesKeep, PostDbAt
  <2> QED  BY <1>1, <2>1, Untouched DEF ReqInv, Kept, tabVars
<1>2. ASSUME NEW token \in NoToken .. wallet.token, ui_set_rpc_token(token) PROVE ReqInv'
  <2> DEFINE task == [op |-> "db_set_token", token |-> token]
  <2>1. task \in DbTask /\ \A r \in Requests : task \notin DbOf(r)
    BY DEF DbTask, NoToken, TypeOK, DbOf
  <2> QED  BY <1>1, <1>2, <2>1 DEF ui_set_rpc_token
<1>3. CASE ui_set_first_address
  <2> DEFINE task == [op |-> "db_set_first_address", addr |-> wallet.addr]
  <2>1. task \in DbTask /\ \A r \in Requests : task \notin DbOf(r)
    <3>1. wallet.addr \in Addresses
      BY DEF TypeOK, WalletProcess
    <3> QED  BY <3>1 DEF DbTask, DbOf
  <2> QED  BY <1>1, <1>3, <2>1 DEF ui_set_first_address
<1>4. CASE ui_start
  <2> DEFINE task == [op |-> "db_start", ext |-> NoRequest]
  <2>1. task \in DbTask /\ \A r \in Requests : task \notin DbOf(r)
    BY DEF DbTask, AnyRequest, DbOf
  <2> QED  BY <1>1, <1>4, <2>1 DEF ui_start
<1>5. ASSUME NEW q \in Requests, NEW invalidate \in BOOLEAN, ui_get_transactions(q, invalidate)
      PROVE  ReqInv'
  <2> DEFINE task == [op |-> IF invalidate THEN "db_start" ELSE "db_get_transactions", ext |-> q]
  <2>1. task \in DbTask /\ \A r \in Requests : task \in DbOf(r) <=> r = q
    BY DEF DbTask, AnyRequest, DbOf
  <2>2. /\ PostDb(task) /\ UNCHANGED <<uiQueue, ui_requests_, answers>>
        /\ q \notin asked /\ asked' = asked \cup {q}
    BY <1>5 DEF ui_get_transactions
  <2> HIDE DEF task
  <2> SUFFICES ASSUME NEW r \in Requests PROVE OnePlace(r)'
    BY DEF ReqInv
  <2>3. UiAt(r)' = UiAt(r) /\ NetAt(r)' = NetAt(r) /\ OnePlace(r)
    BY <2>2, PlacesKeep DEF ReqInv
  <2>4. CASE r # q
    <3>1. DbAt(r)' = DbAt(r)
      BY <2>1, <2>2, <2>4, PostDbAt
    <3> QED  BY <2>2, <2>3, <2>4, <3>1, Untouched DEF Kept
  <2>5. CASE r = q
    <3>1. Nowhere(r) /\ answers[r] = 0
      BY <2>2, <2>3, <2>5 DEF OnePlace
    <3>2. IsSingle(DbAt(r)')
      BY <2>1, <2>2, <2>5, <3>1, PostDbAt DEF Nowhere
    <3> QED  BY <2>2, <2>3, <2>5, <3>1, <3>2 DEF OnePlace, Nowhere, Somewhere
  <2> QED  BY <2>4, <2>5
<1> QED  BY <1>2, <1>3, <1>4, <1>5

LEMMA RequestUiTask ==
    ASSUME TypeOK, ReqInv, UiTaskStep
    PROVE  ReqInv'
<1> SUFFICES ASSUME NEW r \in Requests PROVE OnePlace(r)'
  BY DEF ReqInv
<1>1. OnePlace(r)
  BY DEF ReqInv
<1>2. CASE end_http_call
  <2>1. /\ uiQueue # <<>> /\ uiQueue' = Tail(uiQueue) /\ asked' = asked
        /\ NetAt(r)' = NetAt(r) /\ DbAt(r)' = DbAt(r)
        /\ Head(uiQueue).ext \in Requests
        /\ answers' = [answers EXCEPT ![Head(uiQueue).ext] = answers[Head(uiQueue).ext] + 1]
    BY <1>2, PlacesKeep, UiHead DEF end_http_call, UiTask, Signature
  <2>2. answers \in [Requests -> Nat]
    BY DEF TypeOK
  <2>3. CASE Head(uiQueue).ext # r
    <3>1. Kept(UiAt(r), UiAt(r)') /\ answers'[r] = answers[r]
      BY <2>1, <2>2, <2>3, TakeUiAt
    <3> QED  BY <1>1, <2>1, <3>1, Untouched DEF Kept
  <2>4. CASE Head(uiQueue).ext = r
    <3>1. UiAt(r) # {} /\ (IsSingle(UiAt(r)) => UiAt(r)' = {}) /\ answers'[r] = answers[r] + 1
      BY <2>1, <2>2, <2>4, TakeUiAt
    <3> QED  BY <1>1, <2>1, <2>2, <3>1 DEF OnePlace, Nowhere, Somewhere, IsSingle
  <2> QED  BY <2>3, <2>4
<1>3. ASSUME NEW c \in Calls, ui_request(c) PROVE OnePlace(r)'
  <2>1. /\ uiQueue # <<>> /\ uiQueue' = Tail(uiQueue)
        /\ UNCHANGED <<asked, answers>> /\ DbAt(r)' = DbAt(r)
        /\ ui_requests_[c] = NoCall
        /\ ui_requests_' = [ui_requests_ EXCEPT ![c] = Head(uiQueue)]
        /\ ui_requests_ \in [Calls -> Signature \cup {NoCall}]
    BY <1>3, PlacesKeep DEF TypeOK, ui_request, tabVars
  <2>2. Head(uiQueue) # NoCall
    BY <1>3, UiHead, NoCallAssumption DEF ui_request, UiTask
  <2>3. CASE Head(uiQueue).ext # r
    <3>1. Kept(UiAt(r), UiAt(r)') /\ NetAt(r)' = NetAt(r)
      BY <2>1, <2>2, <2>3, TakeUiAt DEF NetAt
    <3> QED  BY <1>1, <2>1, <3>1, Untouched DEF Kept
  <2>4. CASE Head(uiQueue).ext = r
    <3>1. UiAt(r) # {} /\ (IsSingle(UiAt(r)) => UiAt(r)' = {})
      BY <2>1, <2>4, TakeUiAt
    <3>2. NetAt(r)' = NetAt(r) \cup {c}
      BY <2>1, <2>2, <2>4 DEF NetAt
    <3> QED  BY <1>1, <2>1, <3>1, <3>2 DEF OnePlace, Nowhere, Somewhere, IsSingle
  <2> QED  BY <2>3, <2>4
<1> QED  BY <1>2, <1>3 DEF UiTaskStep

LEMMA RequestReply ==
    ASSUME TypeOK, ReqInv, ExtInv, NEW c \in Calls, ReplyStep(c)
    PROVE  ReqInv'
<1> NoRequest \notin Requests
  BY ConstantsAssumption
<1> PICK b \in BOOLEAN :
        ui_rpc_response(c, b) \/ ui_mnsync_response(c, b) \/ ui_rpc_balance_response(c, b)
  BY DEF ReplyStep
<1>1. /\ ui_requests_[c] # NoCall /\ ui_requests_[c] \in Signature
      /\ ui_requests_' = [ui_requests_ EXCEPT ![c] = NoCall]
      /\ ui_requests_ \in [Calls -> Signature \cup {NoCall}]
      /\ UNCHANGED <<uiQueue, asked, answers>>
  BY DEF TypeOK, ui_rpc_response, ui_mnsync_response, ui_rpc_balance_response, Reply, tabVars
<1>2. CASE ui_rpc_response(c, b)
  <2> DEFINE task == [op |-> "db_rpc_response", sig |-> ui_requests_[c],
               rows |-> {row \in Rows : /\ b /\ row[2] > ui_requests_[c].since
                                        /\ \E answer \in served[c] :
                                              row[1] = answer.addr /\ row[2] <= answer.tip}]
  <2>1. /\ task \in DbTask /\ PostDb(task)
        /\ \A r \in Requests : task \in DbOf(r) <=> ui_requests_[c].ext = r
    <3>1. {row \in Rows : /\ b /\ row[2] > ui_requests_[c].since
                          /\ \E answer \in served[c] :
                                row[1] = answer.addr /\ row[2] <= answer.tip} \in SUBSET Rows
      OBVIOUS
    <3>2. task \in DbTask
      BY <1>1, <3>1 DEF DbTask
    <3> QED  BY <1>2, <3>2 DEF ui_rpc_response, DbOf
  <2> HIDE DEF task
  <2> SUFFICES ASSUME NEW r \in Requests PROVE OnePlace(r)'
    BY DEF ReqInv
  <2>2. OnePlace(r) /\ UiAt(r)' = UiAt(r)
    BY <1>1, PlacesKeep DEF ReqInv
  <2>3. CASE ui_requests_[c].ext # r
    <3>1. NetAt(r)' = NetAt(r) /\ DbAt(r)' = DbAt(r)
      BY <1>1, <2>1, <2>3, PostDbAt DEF NetAt
    <3> QED  BY <1>1, <2>2, <3>1, Untouched DEF Kept
  <2>4. CASE ui_requests_[c].ext = r
    <3>1. c \in NetAt(r) /\ NetAt(r)' = NetAt(r) \ {c}
      BY <1>1, <2>4 DEF NetAt
    <3>2. DbAt(r) = {} => IsSingle(DbAt(r)')
      BY <2>1, <2>4, PostDbAt
    <3> QED  BY <1>1, <2>2, <3>1, <3>2 DEF OnePlace, Nowhere, Somewhere, IsSingle
  <2> QED  BY <2>3, <2>4
<1>3. CASE ui_mnsync_response(c, b) \/ ui_rpc_balance_response(c, b)
  <2>1. ui_requests_[c].ext = NoRequest
    BY <1>1, <1>3 DEF ui_mnsync_response, ui_rpc_balance_response, Reply, ExtInv, Proper
  <2>2. \/ dbQueue' = dbQueue
        \/ \E task \in DbTask :
              /\ PostDb(task)
              /\ task.op \in {"db_check_control_sum", "db_rpc_balance_response"}
    <3>1. CASE ui_mnsync_response(c, b)
      <4>1. [op |-> "db_check_control_sum"] \in DbTask
        BY DEF DbTask
      <4> QED  BY <3>1, <4>1 DEF ui_mnsync_response
    <3>2. CASE ui_rpc_balance_response(c, b)
      <4>1. PICK balance \in IF b THEN {answer.tip : answer \in served[c]} ELSE {0} :
              PostDb([op |-> "db_rpc_balance_response", sig |-> ui_requests_[c],
                      ok |-> b, balance |-> balance])
        BY <3>2 DEF ui_rpc_balance_response
      <4>2. balance \in Heights
        BY <4>1, ConstantsAssumption DEF Heights, TypeOK, Answer
      <4>3. [op |-> "db_rpc_balance_response", sig |-> ui_requests_[c],
             ok |-> b, balance |-> balance] \in DbTask
        BY <1>1, <4>2 DEF DbTask
      <4> QED  BY <4>1, <4>3
    <3> QED  BY <1>3, <3>1, <3>2
  <2> SUFFICES ASSUME NEW r \in Requests PROVE OnePlace(r)'
    BY DEF ReqInv
  <2>3. OnePlace(r) /\ UiAt(r)' = UiAt(r) /\ NetAt(r)' = NetAt(r)
    BY <1>1, <2>1, PlacesKeep DEF ReqInv, NetAt
  <2>4. DbAt(r)' = DbAt(r)
    <3>1. ASSUME NEW task \in DbTask, PostDb(task),
                 task.op \in {"db_check_control_sum", "db_rpc_balance_response"}
          PROVE  DbAt(r)' = DbAt(r)
      <4>1. task \notin DbOf(r)
        BY <3>1 DEF DbOf
      <4> QED  BY <3>1, <4>1, PostDbAt
    <3> QED  BY <2>2, <3>1, PlacesKeep
  <2> QED  BY <1>1, <2>3, <2>4, Untouched DEF Kept
<1> QED  BY <1>2, <1>3

\* What a step of the database thread posts: nothing, or one task; a listsinceblock call
\* is made for the address that is current, from the latest block of the open database.
Posted(task) ==
    /\ uiQueue' = Append(uiQueue, task)
    /\ task.op \in {"mnsync", "getbalance"} => task.ext = NoRequest
    /\ task.op = "listsinceblock" => /\ task.addr = db_wallet_first_address_'
                                     /\ task.addr # NoAddress
                                     /\ task.since = get_latest_block(dbOpen')
                                     /\ UNCHANGED files

LEMMA AnswerIsPosted ==
    ASSUME TypeOK, NEW ext \in AnyRequest, NEW loaded \in BOOLEAN,
           uiQueue' = uiQueue \o db_get_transactions(ext, loaded)
    PROVE  uiQueue' = uiQueue \/ \E task \in UiTask : Posted(task)
<1> DEFINE e == [op |-> "end_http_call", ext |-> ext, is_loading |-> ~loaded]
<1>1. CASE ext = NoRequest
  BY <1>1, ConcatEmptySeq DEF db_get_transactions, TypeOK
<1>2. CASE ext # NoRequest
  <2>1. e \in UiTask /\ e.op = "end_http_call"
    BY <1>2 DEF UiTask, AnyRequest
  <2>2. uiQueue' = Append(uiQueue, e)
    BY <1>2 DEF db_get_transactions, TypeOK
  <2> HIDE DEF e
  <2> QED  BY <2>1, <2>2 DEF Posted
<1> QED  BY <1>1, <1>2

LEMMA StartIsPosted ==
    ASSUME TypeOK, TypeOK', NEW ext \in AnyRequest, db_start(ext), UNCHANGED files
    PROVE  uiQueue' = uiQueue \/ \E task \in UiTask : Posted(task)
<1>1. CASE MayNotStart
  BY <1>1, AnswerIsPosted DEF db_start, TypeOK
<1>2. CASE ~MayNotStart
  <2> DEFINE e == [op |-> "listsinceblock", token |-> db_token_base64_',
                   addr |-> db_wallet_first_address_',
                   since |-> get_latest_block(dbOpen'), ext |-> ext]
  <2>1. get_latest_block(dbOpen') \in Heights
    BY ConstantsAssumption DEF get_latest_block, TypeOK, File, AnyAddress, Heights
  <2>2. /\ e \in UiTask /\ e.op = "listsinceblock"
        /\ e.addr = db_wallet_first_address_' /\ e.since = get_latest_block(dbOpen')
    BY <2>1 DEF UiTask, Signature, TypeOK
  <2>3. uiQueue' = Append(uiQueue, e) /\ db_wallet_first_address_' # NoAddress
    BY <1>2 DEF db_start, MayNotStart
  <2> HIDE DEF e
  <2> QED  BY <2>2, <2>3 DEF Posted
<1> QED  BY <1>1, <1>2

LEMMA DbPosts ==
    ASSUME TypeOK, TypeOK', DbStep
    PROVE  uiQueue' = uiQueue \/ \E task \in UiTask : Posted(task)
<1>1. CASE db_set_token
  BY <1>1, StartIsPosted DEF db_set_token, fileVars, AnyRequest
<1>2. CASE db_set_first_address
  <2>1. UNCHANGED files
    BY <1>2 DEF db_set_first_address, check_database, fileVars
  <2> QED  BY <1>2, <2>1, StartIsPosted DEF db_set_first_address, AnyRequest
<1>3. CASE db_start_task
  <2>1. Head(dbQueue).ext \in AnyRequest
    BY <1>3, DbHead DEF db_start_task, DbTask
  <2> QED  BY <1>3, <2>1, StartIsPosted DEF db_start_task, fileVars
<1>4. CASE db_get_transactions_task
  <2>1. Head(dbQueue).ext \in AnyRequest
    BY <1>4, DbHead DEF db_get_transactions_task, DbTask
  <2> QED  BY <1>4, <2>1, AnswerIsPosted DEF db_get_transactions_task, TypeOK
<1>5. CASE db_rpc_response_stale \/ db_rpc_response
  <2>1. Head(dbQueue).sig.ext \in AnyRequest
    <3>1. DbTaskIs("db_rpc_response")
      BY <1>5 DEF db_rpc_response_stale, db_rpc_response
    <3>2. Head(dbQueue).sig \in Signature
      BY <3>1, DbHead DEF DbTask
    <3> QED  BY <3>2 DEF Signature
  <2>2. CASE uiQueue' = uiQueue \o db_check_synced
    <3> DEFINE e == [op |-> "mnsync", token |-> db_token_base64_, addr |-> NoAddress,
                     since |-> 0, ext |-> NoRequest]
    <3>1. e \in UiTask /\ e.op = "mnsync" /\ e.ext = NoRequest
      BY ConstantsAssumption DEF UiTask, Signature, TypeOK, AnyAddress, AnyRequest, Heights
    <3>2. uiQueue' = Append(uiQueue, e)
      BY <2>2 DEF db_check_synced, TypeOK
    <3> HIDE DEF e
    <3> QED  BY <3>1, <3>2 DEF Posted
  <2>3. ASSUME NEW loaded \in BOOLEAN,
               uiQueue' = uiQueue \o db_get_transactions(Head(dbQueue).sig.ext, loaded)
        PROVE  uiQueue' = uiQueue \/ \E task \in UiTask : Posted(task)
    BY <2>1, <2>3, AnswerIsPosted
  <2> QED  BY <1>5, <2>2, <2>3 DEF db_rpc_response_stale, db_rpc_response, TypeOK
<1>6. CASE db_check_control_sum
  <2> DEFINE e == [op |-> "getbalance", token |-> db_token_base64_,
                   addr |-> db_wallet_first_address_, since |-> 0, ext |-> NoRequest]
  <2>1. e \in UiTask /\ e.op = "getbalance" /\ e.ext = NoRequest
    BY ConstantsAssumption DEF UiTask, Signature, TypeOK, AnyRequest, Heights
  <2>2. uiQueue' = Append(uiQueue, e)
    BY <1>6 DEF db_check_control_sum
  <2> HIDE DEF e
  <2> QED  BY <2>1, <2>2 DEF Posted
<1>7. CASE db_rpc_balance_response
  BY <1>7 DEF db_rpc_balance_response
<1> QED  BY <1>1, <1>2, <1>3, <1>4, <1>5, <1>6, <1>7 DEF DbStep

LEMMA ExtKept ==
    ASSUME TypeOK, TypeOK', ExtInv, [Next]_vars
    PROVE  ExtInv'
<1>1. CASE UNCHANGED <<uiQueue, ui_requests_>>
  BY <1>1 DEF ExtInv, Every
<1>2. CASE UiTaskStep
  <2>1. CASE end_http_call
    BY <2>1, EveryTail DEF end_http_call, ExtInv, TypeOK
  <2>2. ASSUME NEW c \in Calls, ui_request(c) PROVE ExtInv'
    <3>1. Head(uiQueue) \in Proper /\ Every(Tail(uiQueue), Proper)
      BY <2>2, EveryTail DEF ui_request, ExtInv, TypeOK
    <3> QED  BY <2>2, <3>1 DEF ui_request, ExtInv, TypeOK
  <2> QED  BY <1>2, <2>1, <2>2 DEF UiTaskStep
<1>3. ASSUME NEW c \in Calls, ReplyStep(c) PROVE ExtInv'
  <2>1. ui_requests_' = [ui_requests_ EXCEPT ![c] = NoCall] /\ UNCHANGED uiQueue
    BY <1>3 DEF ReplyStep, ui_rpc_response, ui_mnsync_response, ui_rpc_balance_response, Reply
  <2> QED  BY <2>1 DEF ExtInv, TypeOK
<1>4. CASE DbStep
  <2>1. UNCHANGED ui_requests_
    BY <1>4 DEF DbStep, db_set_token, db_set_first_address, db_start_task,
                db_get_transactions_task, db_rpc_response_stale, db_rpc_response,
                db_check_control_sum, db_rpc_balance_response, DbTaskDone
  <2>2. ASSUME NEW task \in UiTask, Posted(task) PROVE Every(uiQueue', Proper)
    <3>1. task \in Proper /\ uiQueue' = Append(uiQueue, task)
      BY <2>2 DEF Posted, Proper
    <3> QED  BY <3>1, EveryAppend DEF ExtInv, TypeOK
  <2> QED  BY <1>4, <2>1, <2>2, DbPosts DEF ExtInv
<1>5. CASE Restart
  BY <1>5 DEF Restart, ExtInv, Every
<1>6. ASSUME \/ \E token \in NoToken .. wallet.token : ui_set_rpc_token(token)
             \/ ui_set_first_address
             \/ \E r \in Requests, invalidate \in BOOLEAN : ui_get_transactions(r, invalidate)
             \/ ui_start \/ NewBlock
             \/ \E c \in Calls : Serve(c)
             \/ \E a \in Addresses : Reseed(a)
             \/ UNCHANGED vars
      PROVE  UNCHANGED <<uiQueue, ui_requests_>>
  BY <1>6 DEF ui_set_rpc_token, ui_set_first_address, ui_get_transactions, ui_start, NewBlock,
              Serve, Reseed, vars, queueVars
<1> QED  BY <1>1, <1>2, <1>3, <1>4, <1>5, <1>6 DEF Next

LEMMA RequestEnvironment ==
    ASSUME TypeOK, ReqInv,
           \/ NewBlock \/ (\E a \in Addresses : Reseed(a)) \/ Restart
           \/ \E c \in Calls : Serve(c)
    PROVE  ReqInv'
<1> SUFFICES ASSUME NEW r \in Requests PROVE OnePlace(r)'
  BY DEF ReqInv
<1>1. OnePlace(r)
  BY DEF ReqInv
<1>2. CASE NewBlock \/ (\E a \in Addresses : Reseed(a)) \/ \E c \in Calls : Serve(c)
  <2>1. UNCHANGED <<uiQueue, dbQueue, ui_requests_, asked, answers>>
    BY <1>2 DEF NewBlock, Reseed, Serve, queueVars, tabVars
  <2> QED  BY <1>1, <2>1, PlacesKeep, Untouched DEF Kept
<1>3. CASE Restart
  <2>1. /\ uiQueue' = <<>> /\ dbQueue' = <<>> /\ answers' = answers
        /\ ui_requests_' = [c \in Calls |-> NoCall]
        /\ asked' = {q \in asked : answers[q] > 0}
    BY <1>3 DEF Restart
  <2>2. Nowhere(r)'
    BY <2>1 DEF Nowhere, UiAt, NetAt, DbAt, At
  <2>3. answers[r] \in {0, 1} /\ (answers[r] = 1 => r \in asked)
    BY <1>1 DEF OnePlace
  <2> QED  BY <2>1, <2>2, <2>3 DEF OnePlace
<1> QED  BY <1>2, <1>3

LEMMA RequestKept ==
    ASSUME TypeOK, TypeOK', ReqInv, ExtInv, [Next]_vars
    PROVE  ReqInv'
<1>1. CASE UNCHANGED vars
  <2>1. UNCHANGED <<uiQueue, dbQueue, ui_requests_, asked, answers>>
    BY <1>1 DEF vars, queueVars, tabVars
  <2> QED  BY <2>1, PlacesKeep, Untouched DEF ReqInv, Kept
<1> QED  BY <1>1, RequestUi, RequestUiTask, RequestReply, RequestDb, RequestEnvironment DEF Next

\* Wherever a tab's request rides, is dropped off or waits, it is in one place until its
\* answer and nowhere after it (ui_get_transactions, db_start, db_rpc_response,
\* db_get_transactions), for any number of tabs and calls.
THEOREM RequestsKept == Spec => []RequestInOnePlace
<1>1. Init => ReqInv /\ ExtInv
  BY DEF Init, ReqInv, ExtInv, Every, OnePlace, Nowhere, UiAt, NetAt, DbAt, At
<1>2. TypeOK /\ TypeOK' /\ (ReqInv /\ ExtInv) /\ [Next]_vars => (ReqInv /\ ExtInv)'
  BY RequestKept, ExtKept
<1>3. Spec => [](ReqInv /\ ExtInv)
  BY <1>1, <1>2, TypeCorrect, PTL DEF Spec
<1>4. TypeOK /\ (ReqInv /\ ExtInv) => RequestInOnePlace
  BY PlacesCounted
<1> QED  BY <1>3, <1>4, TypeCorrect, PTL
-----------------------------------------------------------------------------
(* Nothing is skipped.  A call starts from the latest block of the file it   *)
(* is made for, so that what a merge adds above it leaves no gap; and since   *)
(* one call is in flight at a time, no other merge moves that block before    *)
(* the reply is there.  Only a recreation can, and it marks the file raced.   *)

\* Opening a database never leaves the one of another address open.
OpenIsCurrent == dbOpen \in {db_wallet_first_address_, NoAddress}

Founded(sig) == /\ sig.addr \in Addresses
                /\ files[sig.addr].raced \/ sig.since <= files[sig.addr].latest

Gapless(since, rows) == \A row \in rows :
    /\ row[2] > since
    /\ \A h \in since + 1 .. row[2] : \E other \in rows : other[2] = h

Grounded == {task \in UiTask : task.op = "listsinceblock" => Founded(task)}
Answered == {task \in DbTask : task.op = "db_rpc_response" =>
                                  Founded(task.sig) /\ Gapless(task.sig.since, task.rows)}

PollInv ==
    /\ Every(uiQueue, Grounded)
    /\ \A c \in Calls : ui_requests_[c] \in Grounded \cup {NoCall}
    /\ Every(dbQueue, Answered)

\* With no call on its way there is nothing to say of one.
LEMMA IdleIsGrounded ==
    ASSUME TypeOK', OneCallInFlight', ~db_in_rpc_call_'
    PROVE  PollInv'
<1>1. /\ \A i \in DOMAIN uiQueue' : uiQueue'[i] \in UiTask /\ uiQueue'[i].op # "listsinceblock"
      /\ \A i \in DOMAIN dbQueue' : dbQueue'[i] \in DbTask /\ dbQueue'[i].op # "db_rpc_response"
  BY DEF TypeOK, OneCallInFlight, UiCalls, DbCalls, Places
<1>2. ASSUME NEW c \in Calls, ui_requests_'[c] # NoCall
      PROVE  ui_requests_'[c] \in UiTask /\ ui_requests_'[c].op # "listsinceblock"
  BY <1>2 DEF TypeOK, OneCallInFlight, NetCalls, UiTask
<1> QED  BY <1>1, <1>2 DEF PollInv, Every, Grounded, Answered

\* A file that stays as it is, or is raced, founds the calls it founded.
LEMMA FoundationsStay ==
    ASSUME \A a \in Addresses : files'[a].raced \/ files'[a] = files[a]
    PROVE  /\ \A sig : Founded(sig) => Founded(sig)'
           /\ Grounded \subseteq Grounded' /\ Answered \subseteq Answered'
<1>1. \A sig : Founded(sig) => Founded(sig)'
  BY DEF Founded
<1>2. Grounded \subseteq Grounded'
  BY <1>1 DEF Grounded
<1>3. Answered \subseteq Answered'
  BY <1>1 DEF Answered
<1> QED  BY <1>1, <1>2, <1>3

LEMMA EveryStays ==
    ASSUME NEW s, NEW P, NEW Q, Every(s, P), P \subseteq Q
    PROVE  Every(s, Q)
BY DEF Every

\* The reply of the wallet process: the rows above the block the call was made from.
LEMMA ReplyIsAnswered ==
    ASSUME TypeOK, NEW c \in Calls, NEW b \in BOOLEAN, ui_rpc_response(c, b),
           ui_requests_[c] \in Grounded
    PROVE  \E task \in Answered : PostDb(task)
<1> DEFINE rows == {row \in Rows : /\ b /\ row[2] > ui_requests_[c].since
                                   /\ \E answer \in served[c] :
                                         row[1] = answer.addr /\ row[2] <= answer.tip}
           task == [op |-> "db_rpc_response", sig |-> ui_requests_[c], rows |-> rows]
<1>1. /\ ui_requests_[c] \in Signature /\ Founded(ui_requests_[c]) /\ PostDb(task)
  BY DEF TypeOK, ui_rpc_response, Reply, Grounded
<1>2. served[c] \in SUBSET Answer /\ ui_requests_[c].since \in Nat
  BY <1>1 DEF TypeOK, Signature, Heights
<1>3. Gapless(ui_requests_[c].since, rows)
  <2> SUFFICES ASSUME NEW row \in rows, NEW h \in ui_requests_[c].since + 1 .. row[2]
               PROVE  /\ row[2] > ui_requests_[c].since
                      /\ <<row[1], h>> \in rows
    BY DEF Gapless
  <2>1. row \in Rows /\ row[1] \in Addresses /\ row[2] \in 1 .. MaxTip
    BY DEF Rows
  <2>2. PICK answer \in served[c] : row[1] = answer.addr /\ row[2] <= answer.tip
    OBVIOUS
  <2>3. answer.tip \in Nat
    BY <1>2 DEF Answer, Heights
  <2>4. <<row[1], h>> \in Rows /\ h > ui_requests_[c].since /\ h <= answer.tip
    BY <1>2, <2>1, <2>2, <2>3, ConstantsAssumption DEF Rows
  <2> QED  BY <2>2, <2>4
<1>4. rows \in SUBSET Rows
  OBVIOUS
<1> HIDE DEF rows
<1>5. task \in DbTask
  BY <1>1, <1>4 DEF DbTask
<1> QED  BY <1>1, <1>3, <1>5 DEF Answered

\* The tasks move on, and what is true of each stays true.
LEMMA PollMoves ==
    ASSUME TypeOK, TypeOK', PollInv, OpenIsCurrent', [Next]_vars,
           Grounded \subseteq Grounded', Answered \subseteq Answered'
    PROVE  PollInv'
<1>1. /\ uiQueue \in Seq(UiTask) /\ dbQueue \in Seq(DbTask)
      /\ Every(uiQueue, Grounded') /\ Every(dbQueue, Answered')
      /\ \A c \in Calls : ui_requests_[c] \in Grounded' \cup {NoCall}
  BY EveryStays DEF PollInv, TypeOK
<1>2. ASSUME NEW task \in DbTask, PostDb(task), task.op # "db_rpc_response"
      PROVE  Every(dbQueue', Answered')
  <2>1. task \in Answered' /\ dbQueue' = Append(dbQueue, task)
    BY <1>2 DEF Answered, PostDb
  <2> QED  BY <1>1, <2>1, EveryAppend
<1>3. CASE UNCHANGED <<uiQueue, ui_requests_, dbQueue>>
  BY <1>1, <1>3 DEF PollInv
<1>4. CASE UiTaskStep
  <2>1. CASE end_http_call
    <3>1. Every(uiQueue', Grounded')
      BY <1>1, <2>1, EveryTail DEF end_http_call
    <3> QED  BY <1>1, <2>1, <3>1 DEF end_http_call, PollInv
  <2>2. ASSUME NEW c \in Calls, ui_request(c) PROVE PollInv'
    <3>1. Head(uiQueue) \in Grounded' /\ Every(uiQueue', Grounded')
      BY <1>1, <2>2, EveryTail DEF ui_request
    <3> QED  BY <1>1, <2>2, <3>1 DEF ui_request, PollInv, TypeOK
  <2> QED  BY <1>4, <2>1, <2>2 DEF UiTaskStep
<1>5. ASSUME NEW c \in Calls, ReplyStep(c) PROVE PollInv'
  <2> PICK b \in BOOLEAN :
          ui_rpc_response(c, b) \/ ui_mnsync_response(c, b) \/ ui_rpc_balance_response(c, b)
    BY <1>5 DEF ReplyStep
  <2>1. /\ ui_requests_' = [ui_requests_ EXCEPT ![c] = NoCall] /\ UNCHANGED uiQueue
        /\ ui_requests_[c] # NoCall /\ ui_requests_[c] \in Signature
    BY DEF ui_rpc_response, ui_mnsync_response, ui_rpc_balance_response, Reply, TypeOK
  <2>2. \A d \in Calls : ui_requests_'[d] \in Grounded' \cup {NoCall}
    BY <1>1, <2>1 DEF TypeOK
  <2>3. CASE ui_rpc_response(c, b)
    <3>1. ui_requests_[c] \in Grounded
      BY <2>1 DEF PollInv
    <3>2. PICK task \in Answered : PostDb(task)
      BY <2>3, <3>1, ReplyIsAnswered
    <3>3. task \in DbTask /\ task \in Answered' /\ dbQueue' = Append(dbQueue, task)
      BY <3>2 DEF Answered, PostDb
    <3>4. Every(dbQueue', Answered')
      BY <1>1, <3>3, EveryAppend
    <3> QED  BY <1>1, <2>1, <2>2, <3>4 DEF PollInv
  <2>4. CASE ui_mnsync_response(c, b)
    <3>1. [op |-> "db_check_control_sum"] \in DbTask
      BY DEF DbTask
    <3>2. Every(dbQueue', Answered')
      BY <1>1, <1>2, <2>4, <3>1 DEF ui_mnsync_response
    <3> QED  BY <1>1, <2>1, <2>2, <3>2 DEF PollInv
  <2>5. CASE ui_rpc_balance_response(c, b)
    <3>1. PICK balance \in IF b THEN {answer.tip : answer \in served[c]} ELSE {0} :
            PostDb([op |-> "db_rpc_balance_response", sig |-> ui_requests_[c],
                    ok |-> b, balance |-> balance])
      BY <2>5 DEF ui_rpc_balance_response
    <3>2. balance \in Heights
      <4>1. \A answer \in served[c] : answer.tip \in Heights
        BY DEF TypeOK, Answer, WalletProcess
      <4> QED  BY <3>1, <4>1, ConstantsAssumption DEF Heights
    <3>3. [op |-> "db_rpc_balance_response", sig |-> ui_requests_[c],
           ok |-> b, balance |-> balance] \in DbTask
      BY <2>1, <3>2 DEF DbTask
    <3>4. Every(dbQueue', Answered')
      BY <1>2, <3>1, <3>3
    <3> QED  BY <1>1, <2>1, <2>2, <3>4 DEF PollInv
  <2> QED  BY <2>3, <2>4, <2>5
<1>6. CASE DbStep
  <2>1. dbQueue # <<>> /\ dbQueue' = Tail(dbQueue) /\ UNCHANGED ui_requests_
    BY <1>6 DEF DbStep, db_set_token, db_set_first_address, db_start_task,
                db_get_transactions_task, db_rpc_response_stale, db_rpc_response,
                db_check_control_sum, db_rpc_balance_response, DbTaskDone, DbTaskIs
  <2>2. Every(dbQueue', Answered')
    BY <1>1, <2>1, EveryTail
  <2>3. ASSUME NEW task \in UiTask, Posted(task) PROVE Every(uiQueue', Grounded')
    <3>1. ASSUME task.op = "listsinceblock" PROVE Founded(task)'
      <4>1. /\ task.addr = db_wallet_first_address_' /\ task.addr \in Addresses
            /\ task.since = get_latest_block(dbOpen') /\ files' = files
        BY <2>3, <3>1 DEF Posted, TypeOK, AnyAddress
      <4>2. CASE dbOpen' = NoAddress
        <5>1. task.since = 0 /\ files[task.addr].latest \in Nat
          BY <4>1, <4>2 DEF get_latest_block, TypeOK, File, Heights
        <5> QED  BY <4>1, <5>1 DEF Founded
      <4>3. CASE dbOpen' = db_wallet_first_address_'
        <5>1. task.since = files[task.addr].latest /\ files[task.addr].latest \in Nat
          BY <4>1, <4>3, ConstantsAssumption DEF get_latest_block, TypeOK, File, Heights
        <5> QED  BY <4>1, <5>1 DEF Founded
      <4> QED  BY <4>2, <4>3 DEF OpenIsCurrent
    <3>2. task \in Grounded' /\ uiQueue' = Append(uiQueue, task)
      BY <2>3, <3>1 DEF Grounded, Posted
    <3> QED  BY <1>1, <3>2, EveryAppend
  <2>4. Every(uiQueue', Grounded')
    BY <1>1, <1>6, <2>3, DbPosts
  <2> QED  BY <1>1, <2>1, <2>2, <2>4 DEF PollInv
<1>7. CASE Restart
  BY <1>7 DEF Restart, PollInv, Every
<1>8. ASSUME NEW task \in DbTask, PostDb(task), task.op # "db_rpc_response",
             UNCHANGED <<uiQueue, ui_requests_>>
      PROVE  PollInv'
  BY <1>1, <1>2, <1>8 DEF PollInv
<1>9. ASSUME NEW token \in NoToken .. wallet.token, ui_set_rpc_token(token) PROVE PollInv'
  <2>1. [op |-> "db_set_token", token |-> token] \in DbTask
    BY DEF DbTask, NoToken, TypeOK, WalletProcess
  <2> QED  BY <1>8, <1>9, <2>1 DEF ui_set_rpc_token
<1>10. CASE ui_set_first_address
  <2>1. [op |-> "db_set_first_address", addr |-> wallet.addr] \in DbTask
    <3>1. wallet.addr \in Addresses
      BY DEF TypeOK, WalletProcess
    <3> QED  BY <3>1 DEF DbTask
  <2> QED  BY <1>8, <1>10, <2>1 DEF ui_set_first_address
<1>11. ASSUME NEW r \in Requests, NEW invalidate \in BOOLEAN, ui_get_transactions(r, invalidate)
       PROVE  PollInv'
  <2>1. [op |-> IF invalidate THEN "db_start" ELSE "db_get_transactions", ext |-> r] \in DbTask
    BY DEF DbTask, AnyRequest
  <2> QED  BY <1>8, <1>11, <2>1 DEF ui_get_transactions
<1>12. CASE ui_start
  <2>1. [op |-> "db_start", ext |-> NoRequest] \in DbTask
    BY DEF DbTask, AnyRequest
  <2> QED  BY <1>8, <1>12, <2>1 DEF ui_start
<1>13. ASSUME \/ NewBlock \/ UNCHANGED vars
              \/ \E c \in Calls : Serve(c)
              \/ \E a \in Addresses : Reseed(a)
       PROVE  UNCHANGED <<uiQueue, ui_requests_, dbQueue>>
  BY <1>13 DEF NewBlock, Serve, Reseed, vars, queueVars
<1> QED  BY <1>3, <1>4, <1>5, <1>6, <1>7, <1>9, <1>10, <1>11, <1>12, <1>13 DEF Next
\* The files change by the merge of a reply and by a recreation, and nowhere else.
LEMMA FilesChange ==
    ASSUME [Next]_vars
    PROVE  \/ UNCHANGED files
           \/ db_rpc_response
           \/ /\ db_rpc_balance_response /\ UNCHANGED db_in_rpc_call_
              /\ check_database(db_wallet_first_address_, TRUE)
<1>1. CASE DbStep
  <2>1. CASE db_rpc_balance_response
    BY <2>1 DEF db_rpc_balance_response, fileVars
  <2>2. ASSUME NEW a, check_database(a, FALSE) PROVE UNCHANGED files
    BY <2>2 DEF check_database
  <2>3. CASE db_set_first_address
    BY <2>2, <2>3 DEF db_set_first_address, fileVars
  <2> QED  BY <1>1, <2>1, <2>3 DEF DbStep, db_set_token, db_start_task, db_get_transactions_task,
              db_rpc_response_stale, db_check_control_sum, fileVars
<1>2. ASSUME NEW c \in Calls, ReplyStep(c) PROVE UNCHANGED files
  BY <1>2 DEF ReplyStep, ui_rpc_response, ui_mnsync_response, ui_rpc_balance_response,
              Reply, fileVars
<1>3. ASSUME \/ \E token \in NoToken .. wallet.token : ui_set_rpc_token(token)
             \/ ui_set_first_address
             \/ \E r \in Requests, invalidate \in BOOLEAN : ui_get_transactions(r, invalidate)
             \/ ui_start \/ NewBlock \/ Restart
             \/ \E c \in Calls : Serve(c)
             \/ \E a \in Addresses : Reseed(a)
             \/ UNCHANGED vars
      PROVE  UNCHANGED files
  BY <1>3 DEF ui_set_rpc_token, ui_set_first_address, ui_get_transactions, ui_start, NewBlock,
              Restart, Serve, Reseed, vars, fileVars
<1>4. CASE UiTaskStep
  BY <1>4 DEF UiTaskStep, end_http_call, ui_request, fileVars
<1> QED  BY <1>1, <1>2, <1>3, <1>4 DEF Next

LEMMA OpenFollows ==
    ASSUME TypeOK, OpenIsCurrent, [Next]_vars
    PROVE  OpenIsCurrent'
<1>1. CASE DbStep
  <2>1. CASE db_set_first_address
    BY <2>1 DEF db_set_first_address, check_database, OpenIsCurrent, fileVars
  <2>2. CASE db_rpc_balance_response
    BY <2>2 DEF db_rpc_balance_response, check_database, OpenIsCurrent, fileVars
  <2> QED  BY <1>1, <2>1, <2>2 DEF DbStep, db_set_token, db_start_task, db_get_transactions_task,
              db_rpc_response_stale, db_rpc_response, db_check_control_sum, dbVars, fileVars,
              OpenIsCurrent
<1>2. ASSUME NEW c \in Calls, ReplyStep(c) PROVE OpenIsCurrent'
  BY <1>2 DEF ReplyStep, ui_rpc_response, ui_mnsync_response, ui_rpc_balance_response,
              Reply, dbVars, fileVars, OpenIsCurrent
<1>3. ASSUME \/ \E token \in NoToken .. wallet.token : ui_set_rpc_token(token)
             \/ ui_set_first_address
             \/ \E r \in Requests, invalidate \in BOOLEAN : ui_get_transactions(r, invalidate)
             \/ ui_start \/ NewBlock \/ Restart
             \/ \E c \in Calls : Serve(c)
             \/ \E a \in Addresses : Reseed(a)
             \/ UNCHANGED vars
      PROVE  OpenIsCurrent'
  BY <1>3 DEF ui_set_rpc_token, ui_set_first_address, ui_get_transactions, ui_start, NewBlock,
              Restart, Serve, Reseed, vars, dbVars, fileVars, OpenIsCurrent
<1>4. CASE UiTaskStep
  BY <1>4 DEF UiTaskStep, end_http_call, ui_request, dbVars, fileVars, OpenIsCurrent
<1> QED  BY <1>1, <1>2, <1>3, <1>4 DEF Next

\* The reply at the head of the queue, when it is merged.
LEMMA MergedReply ==
    ASSUME TypeOK, db_rpc_response
    PROVE  /\ dbQueue \in Seq(DbTask) /\ dbQueue # <<>> /\ Head(dbQueue) \in DbTask
           /\ Head(dbQueue).op = "db_rpc_response"
           /\ Head(dbQueue).sig \in Signature /\ Head(dbQueue).rows \in SUBSET Rows
           /\ Head(dbQueue).sig.addr = db_wallet_first_address_
           /\ Merge(Head(dbQueue).rows) /\ UNCHANGED dbOpen
           /\ db_in_rpc_call_' = FALSE
<1>1. /\ DbTaskIs("db_rpc_response") /\ UNCHANGED dbOpen
      /\ Merge(Head(dbQueue).rows) /\ ~StaleReply /\ db_in_rpc_call_' = FALSE
  BY DEF db_rpc_response
<1>2. Head(dbQueue) \in DbTask /\ dbQueue # <<>> /\ Head(dbQueue).op = "db_rpc_response"
  BY <1>1, DbHead
<1>3. Head(dbQueue).sig \in Signature /\ Head(dbQueue).rows \in SUBSET Rows
  BY <1>2 DEF DbTask
<1> QED  BY <1>1, <1>2, <1>3 DEF StaleReply, TypeOK

\* A merge of a gapless reply, based on a file in which nothing is skipped.
LEMMA MergeSkipsNothing ==
    ASSUME TypeOK, NothingSkipped, OpenIsCurrent, PollInv, db_rpc_response
    PROVE  NothingSkipped'
<1> DEFINE sig  == Head(dbQueue).sig
           rows == Head(dbQueue).rows
<1>1. /\ sig \in Signature /\ rows \in SUBSET Rows /\ Merge(rows)
      /\ sig.addr = db_wallet_first_address_ /\ dbOpen \in {sig.addr, NoAddress}
  BY MergedReply DEF OpenIsCurrent
<1>2. Founded(sig) /\ Gapless(sig.since, rows)
  <2>1. Head(dbQueue) \in Answered
    BY MergedReply, EveryTail DEF PollInv
  <2> QED  BY <2>1, MergedReply DEF Answered
<1> HIDE DEF sig, rows
<1>3. sig.addr \in Addresses /\ sig.addr # NoAddress /\ sig.since \in Nat
  BY <1>1, <1>2, ConstantsAssumption DEF Founded, Signature, Heights
<1>4. CASE rows = {} \/ dbOpen = NoAddress
  BY <1>1, <1>4 DEF Merge, NothingSkipped
<1>5. CASE rows # {} /\ dbOpen = sig.addr
  <2> DEFINE a == sig.addr
  <2>1. PICK latest \in {files[a].latest} \cup {row[2] : row \in rows} :
            files' = [files EXCEPT ![a] = [latest |-> latest, rows |-> files[a].rows \cup rows,
                                           raced |-> files[a].raced]]
    BY <1>1, <1>3, <1>5 DEF Merge
  <2>2. files \in [Addresses -> File]
    BY DEF TypeOK
  <2>3. /\ \A b \in Addresses \ {a} : files'[b] = files[b]
        /\ files'[a] = [latest |-> latest, rows |-> files[a].rows \cup rows,
                        raced |-> files[a].raced]
    BY <1>3, <2>1, <2>2
  <2>4. files'[a].latest = latest /\ files'[a].rows = files[a].rows \cup rows
        /\ files'[a].raced = files[a].raced
    BY <2>3
  <2>5. ASSUME ~files[a].raced, NEW h \in 1 .. latest
        PROVE  \E row \in files[a].rows \cup rows : row[2] = h
    <3>1. sig.since <= files[a].latest /\ files[a].latest \in Nat
      BY <1>2, <1>3, <2>2, <2>5 DEF Founded, File, Heights
    <3>2. CASE h <= files[a].latest
      <4>1. h \in 1 .. files[a].latest
        BY <2>1, <3>1, <3>2, <2>5
      <4> QED  BY <1>3, <2>5, <4>1 DEF NothingSkipped
    <3>3. CASE h > files[a].latest
      <4>1. PICK row \in rows : latest = row[2]
        BY <2>1, <2>5, <3>1, <3>3
      <4>2. row[2] \in Nat
        BY <1>1, <4>1 DEF Rows
      <4>3. h \in sig.since + 1 .. row[2]
        BY <1>3, <3>1, <3>3, <4>1, <4>2, <2>5
      <4> QED  BY <1>2, <4>1, <4>3 DEF Gapless
    <3>4. h \in Nat /\ files[a].latest \in Nat
      BY <2>5, <3>1
    <3> QED  BY <3>2, <3>3, <3>4
  <2> HIDE DEF a
  <2>6. ASSUME NEW b \in Addresses, ~files'[b].raced, NEW h \in 1 .. files'[b].latest
        PROVE  \E row \in files'[b].rows : row[2] = h
    <3>1. CASE b = a
      BY <2>4, <2>5, <2>6, <3>1
    <3>2. CASE b # a
      BY <2>3, <2>6, <3>2 DEF NothingSkipped
    <3> QED  BY <3>1, <3>2
  <2> QED  BY <2>6 DEF NothingSkipped
<1> QED  BY <1>1, <1>4, <1>5

SkipInv == NothingSkipped /\ OpenIsCurrent /\ PollInv

LEMMA SkipKept ==
    ASSUME TypeOK, TypeOK', OneCallInFlight', SkipInv, [Next]_vars
    PROVE  SkipInv'
<1>1. OpenIsCurrent'
  BY OpenFollows DEF SkipInv
<1>2. CASE UNCHANGED files
  <2>1. NothingSkipped'
    BY <1>2 DEF SkipInv, NothingSkipped
  <2>2. Grounded \subseteq Grounded' /\ Answered \subseteq Answered'
    BY <1>2, FoundationsStay
  <2> QED  BY <1>1, <2>1, <2>2, PollMoves DEF SkipInv
<1>3. CASE db_rpc_response
  <2>1. NothingSkipped'
    BY <1>3, MergeSkipsNothing DEF SkipInv
  <2>2. PollInv'
    BY <1>3, MergedReply, IdleIsGrounded
  <2> QED  BY <1>1, <2>1, <2>2 DEF SkipInv
<1>4. CASE UNCHANGED db_in_rpc_call_ /\ check_database(db_wallet_first_address_, TRUE)
  <2> DEFINE a == db_wallet_first_address_
             new == [NewFile EXCEPT !.raced = db_in_rpc_call_]
  <2>1. files' \in {files, [files EXCEPT ![a] = new]} /\ files \in [Addresses -> File]
    BY <1>4 DEF check_database, TypeOK
  <2>2. new.latest = 0 /\ new.raced = db_in_rpc_call_
    BY DEF NewFile
  <2> HIDE DEF new
  <2>3. \A b \in Addresses : files'[b] = files[b] \/ files'[b] = new
    BY <2>1
  <2>4. NothingSkipped'
    <3> SUFFICES ASSUME NEW b \in Addresses, ~files'[b].raced, NEW h \in 1 .. files'[b].latest
                 PROVE  \E row \in files'[b].rows : row[2] = h
      BY DEF NothingSkipped
    <3> QED  BY <2>2, <2>3 DEF SkipInv, NothingSkipped
  <2>5. PollInv'
    <3>1. CASE db_in_rpc_call_
      <4>1. \A b \in Addresses : files'[b].raced \/ files'[b] = files[b]
        BY <2>2, <2>3, <3>1
      <4> QED  BY <1>1, <4>1, FoundationsStay, PollMoves DEF SkipInv
    <3>2. CASE ~db_in_rpc_call_
      BY <1>4, <3>2, IdleIsGrounded
    <3> QED  BY <3>1, <3>2
  <2> QED  BY <1>1, <2>4, <2>5 DEF SkipInv
<1> QED  BY <1>2, <1>3, <1>4, FilesChange

LEMMA SkipCorrect == Spec => []SkipInv
<1>1. Init => SkipInv
  BY DEF Init, SkipInv, NothingSkipped, OpenIsCurrent, PollInv, Every, NewFile
<1>2. TypeOK /\ TypeOK' /\ OneCallInFlight' /\ SkipInv /\ [Next]_vars => SkipInv'
  BY SkipKept
<1> QED  BY <1>1, <1>2, TypeCorrect, SingleFlight, PTL DEF Spec

\* No request of a tab is lost or answered twice (ui_rpc_response, db_get_transactions), and
\* no file has a gap below its latest block (db_start, db_rpc_response), whatever the number
\* of wallets, tabs and calls, the height of the chain, the restarts and the recreations.
THEOREM NothingGetsLost == Spec => []NothingIsLost
<1>1. SkipInv => NothingSkipped
  BY DEF SkipInv
<1>2. RequestInOnePlace /\ NothingSkipped => NothingIsLost
  BY DEF NothingIsLost
<1> QED  BY <1>1, <1>2, SkipCorrect, RequestsKept, PTL

(* Whose rows a reply brings.  The wallet process answers its own token only,  *)
(* so the rows of a reply are those of the wallet the call's token belonged to. *)

TokenKnown(token) == token \in DOMAIN wallet.owners

Owned == {task \in DbTask : task.op = "db_rpc_response" =>
             \A row \in task.rows : /\ TokenKnown(task.sig.token)
                                    /\ row[1] = wallet.owners[task.sig.token]}

OwnerInv ==
    /\ Len(wallet.owners) = wallet.token
    /\ wallet.owners[wallet.token] = wallet.addr
    /\ \A c \in Calls : \A answer \in served[c] :
          /\ ui_requests_[c] # NoCall /\ TokenKnown(ui_requests_[c].token)
          /\ answer.addr = wallet.owners[ui_requests_[c].token]
    /\ Every(dbQueue, Owned)

\* While no token is given out, what is true of a task stays true.
LEMMA OwnedStays ==
    ASSUME TypeOK, TypeOK', wallet'.owners = wallet.owners PROVE Owned \subseteq Owned'
BY DEF Owned, TokenKnown

\* The reply of ui_rpc_response brings the rows of the wallet that answered.
LEMMA ReplyIsOwned ==
    ASSUME TypeOK, OwnerInv, NEW c \in Calls, NEW b \in BOOLEAN, ui_rpc_response(c, b)
    PROVE  \E task \in Owned : PostDb(task)
<1> DEFINE rows == {row \in Rows : /\ b /\ row[2] > ui_requests_[c].since
                                   /\ \E answer \in served[c] :
                                         row[1] = answer.addr /\ row[2] <= answer.tip}
           task == [op |-> "db_rpc_response", sig |-> ui_requests_[c], rows |-> rows]
<1>1. /\ ui_requests_[c] \in Signature /\ PostDb(task)
  BY DEF TypeOK, ui_rpc_response, Reply
<1>2. \A row \in rows : /\ TokenKnown(ui_requests_[c].token)
                        /\ row[1] = wallet.owners[ui_requests_[c].token]
  BY DEF OwnerInv
<1>3. rows \in SUBSET Rows
  OBVIOUS
<1> HIDE DEF rows
<1>4. task \in DbTask
  BY <1>1, <1>3 DEF DbTask
<1> QED  BY <1>1, <1>2, <1>4 DEF Owned

\* A step that leaves the wallet and the answers under way alone, and posts no reply.
LEMMA OwnersKeep ==
    ASSUME TypeOK, TypeOK', OwnerInv, wallet' = wallet,
           \A c \in Calls : served'[c] # {} => /\ served'[c] = served[c]
                                               /\ ui_requests_'[c] = ui_requests_[c],
           \/ dbQueue' = dbQueue \/ dbQueue' = <<>>
           \/ dbQueue # <<>> /\ dbQueue' = Tail(dbQueue)
           \/ \E task \in Owned : PostDb(task)
    PROVE  OwnerInv'
<1>1. Owned \subseteq Owned'
  BY OwnedStays
<1>2. dbQueue \in Seq(DbTask) /\ Every(dbQueue, Owned')
  BY <1>1, EveryStays DEF OwnerInv, TypeOK
<1>3. ASSUME dbQueue' = dbQueue \/ dbQueue' = <<>> PROVE Every(dbQueue', Owned')
  BY <1>2, <1>3 DEF Every
<1>4. ASSUME dbQueue # <<>> /\ dbQueue' = Tail(dbQueue) PROVE Every(dbQueue', Owned')
  BY <1>2, <1>4, EveryTail
<1>5. ASSUME NEW task \in Owned, PostDb(task) PROVE Every(dbQueue', Owned')
  <2>1. task \in DbTask /\ task \in Owned' /\ dbQueue' = Append(dbQueue, task)
    BY <1>1, <1>5 DEF Owned, PostDb
  <2> QED  BY <1>2, <2>1, EveryAppend
<1>6. Every(dbQueue', Owned')
  BY <1>2, <1>3, <1>4, <1>5
<1> QED  BY <1>6 DEF OwnerInv, TokenKnown

LEMMA OwnersKept ==
    ASSUME TypeOK, TypeOK', OwnerInv, [Next]_vars
    PROVE  OwnerInv'
<1>1. CASE UNCHANGED vars
  <2>1. UNCHANGED <<wallet, served, ui_requests_, dbQueue>>
    BY <1>1 DEF vars, queueVars, envVars
  <2> QED  BY <2>1, OwnersKeep
<1>2. ASSUME NEW task \in DbTask, PostDb(task), task.op # "db_rpc_response",
             UNCHANGED <<wallet, served, ui_requests_>>
      PROVE  OwnerInv'
  <2>1. task \in Owned
    BY <1>2 DEF Owned
  <2> QED  BY <1>2, <2>1, OwnersKeep
<1>3. ASSUME NEW token \in NoToken .. wallet.token, ui_set_rpc_token(token) PROVE OwnerInv'
  <2>1. [op |-> "db_set_token", token |-> token] \in DbTask
    BY DEF DbTask, NoToken, TypeOK, WalletProcess
  <2> QED  BY <1>2, <1>3, <2>1 DEF ui_set_rpc_token
<1>4. CASE ui_set_first_address
  <2>1. [op |-> "db_set_first_address", addr |-> wallet.addr] \in DbTask
    <3>1. wallet.addr \in Addresses
      BY DEF TypeOK, WalletProcess
    <3> QED  BY <3>1 DEF DbTask
  <2> QED  BY <1>2, <1>4, <2>1 DEF ui_set_first_address
<1>5. ASSUME NEW r \in Requests, NEW invalidate \in BOOLEAN, ui_get_transactions(r, invalidate)
      PROVE  OwnerInv'
  <2>1. [op |-> IF invalidate THEN "db_start" ELSE "db_get_transactions", ext |-> r] \in DbTask
    BY DEF DbTask, AnyRequest
  <2> QED  BY <1>2, <1>5, <2>1 DEF ui_get_transactions, envVars
<1>6. CASE ui_start
  <2>1. [op |-> "db_start", ext |-> NoRequest] \in DbTask
    BY DEF DbTask, AnyRequest
  <2> QED  BY <1>2, <1>6, <2>1 DEF ui_start, envVars
<1>7. CASE end_http_call
  <2>1. UNCHANGED <<wallet, served, ui_requests_, dbQueue>>
    BY <1>7 DEF end_http_call, envVars
  <2> QED  BY <2>1, OwnersKeep
<1>8. ASSUME NEW c \in Calls, ui_request(c) PROVE OwnerInv'
  <2>1. /\ UNCHANGED <<wallet, served, dbQueue>> /\ ui_requests_[c] = NoCall
        /\ \A d \in Calls \ {c} : ui_requests_'[d] = ui_requests_[d]
    BY <1>8 DEF ui_request, envVars, TypeOK
  <2>2. served[c] = {}
    BY <2>1 DEF OwnerInv, TypeOK
  <2> QED  BY <2>1, <2>2, OwnersKeep
<1>9. ASSUME NEW c \in Calls, ReplyStep(c) PROVE OwnerInv'
  <2> PICK b \in BOOLEAN :
          ui_rpc_response(c, b) \/ ui_mnsync_response(c, b) \/ ui_rpc_balance_response(c, b)
    BY <1>9 DEF ReplyStep
  <2>1. /\ ui_requests_' = [ui_requests_ EXCEPT ![c] = NoCall] /\ UNCHANGED wallet
        /\ served' = [served EXCEPT ![c] = {}] /\ ui_requests_[c] # NoCall
    BY DEF ui_rpc_response, ui_mnsync_response, ui_rpc_balance_response, Reply
  <2>2. \A d \in Calls : served'[d] # {} => /\ served'[d] = served[d]
                                            /\ ui_requests_'[d] = ui_requests_[d]
    BY <2>1 DEF TypeOK
  <2>3. CASE ui_rpc_response(c, b)
    BY <2>1, <2>2, <2>3, ReplyIsOwned, OwnersKeep
  <2>4. CASE ui_mnsync_response(c, b)
    <3>1. [op |-> "db_check_control_sum"] \in Owned
      BY DEF DbTask, Owned
    <3> QED  BY <2>1, <2>2, <2>4, <3>1, OwnersKeep DEF ui_mnsync_response
  <2>5. CASE ui_rpc_balance_response(c, b)
    <3>1. PICK balance \in IF b THEN {answer.tip : answer \in served[c]} ELSE {0} :
            PostDb([op |-> "db_rpc_balance_response", sig |-> ui_requests_[c],
                    ok |-> b, balance |-> balance])
      BY <2>5 DEF ui_rpc_balance_response
    <3>2. balance \in Heights
      <4>1. \A answer \in served[c] : answer.tip \in Heights
        BY DEF TypeOK, Answer, WalletProcess
      <4> QED  BY <3>1, <4>1, ConstantsAssumption DEF Heights
    <3>3. [op |-> "db_rpc_balance_response", sig |-> ui_requests_[c],
           ok |-> b, balance |-> balance] \in Owned
      BY <2>1, <3>2 DEF DbTask, Owned, TypeOK
    <3> QED  BY <2>1, <2>2, <3>1, <3>3, OwnersKeep
  <2> QED  BY <2>3, <2>4, <2>5
<1>10. CASE DbStep
  <2>1. dbQueue # <<>> /\ dbQueue' = Tail(dbQueue) /\ UNCHANGED <<ui_requests_, wallet, served>>
    BY <1>10 DEF DbStep, db_set_token, db_set_first_address, db_start_task,
                db_get_transactions_task, db_rpc_response_stale, db_rpc_response,
                db_check_control_sum, db_rpc_balance_response, DbTaskDone, DbTaskIs, envVars
  <2> QED  BY <2>1, OwnersKeep
<1>11. ASSUME NEW c \in Calls, Serve(c) PROVE OwnerInv'
  <2> DEFINE answer == [addr |-> wallet.addr, tip |-> wallet.tip]
  <2>1. /\ UNCHANGED <<wallet, ui_requests_, dbQueue>> /\ served' = [served EXCEPT ![c] = {answer}]
        /\ ui_requests_[c] # NoCall /\ ui_requests_[c].token = wallet.token
    BY <1>11 DEF Serve, queueVars
  <2>2. TokenKnown(wallet.token) /\ answer.addr = wallet.owners[wallet.token]
    BY DEF OwnerInv, TokenKnown, TypeOK, NoToken, WalletProcess
  <2> HIDE DEF answer
  <2>3. \A d \in Calls : \A other \in served'[d] : \/ d = c /\ other = answer
                                                   \/ other \in served[d]
    BY <2>1 DEF TypeOK
  <2>4. Every(dbQueue', Owned')
    BY <2>1, OwnedStays, EveryStays DEF OwnerInv
  <2> QED  BY <2>1, <2>2, <2>3, <2>4 DEF OwnerInv, TokenKnown
<1>12. CASE NewBlock
  <2>1. /\ wallet'.owners = wallet.owners /\ wallet'.token = wallet.token
        /\ wallet'.addr = wallet.addr /\ UNCHANGED <<ui_requests_, dbQueue, served>>
    BY <1>12 DEF NewBlock, TypeOK, queueVars, WalletProcess
  <2>2. Every(dbQueue', Owned')
    BY <2>1, OwnedStays, EveryStays DEF OwnerInv
  <2> QED  BY <2>1, <2>2 DEF OwnerInv, TokenKnown
<1>13. ASSUME NEW a \in Addresses, Reseed(a) PROVE OwnerInv'
  <2>1. /\ wallet'.owners = Append(wallet.owners, a) /\ wallet'.token = wallet.token + 1
        /\ wallet'.addr = a /\ UNCHANGED <<ui_requests_, dbQueue, served>>
        /\ wallet.owners \in Seq(Addresses)
    BY <1>13 DEF Reseed, TypeOK, queueVars, WalletProcess
  <2>2. /\ Len(wallet'.owners) = wallet'.token /\ wallet'.owners[wallet'.token] = a
        /\ \A token : TokenKnown(token) => /\ TokenKnown(token)'
                                           /\ wallet'.owners[token] = wallet.owners[token]
    BY <2>1 DEF OwnerInv, TokenKnown
  <2>3. Owned \subseteq Owned'
    BY <2>2 DEF Owned
  <2>4. Every(dbQueue', Owned')
    BY <2>1, <2>3, EveryStays DEF OwnerInv
  <2> QED  BY <2>1, <2>2, <2>4 DEF OwnerInv
<1>14. CASE Restart
  <2>1. UNCHANGED wallet /\ dbQueue' = <<>> /\ \A c \in Calls : served'[c] = {}
    BY <1>14 DEF Restart
  <2> QED  BY <2>1, OwnersKeep
<1> QED  BY <1>1, <1>3, <1>4, <1>5, <1>6, <1>7, <1>8, <1>9, <1>10, <1>11, <1>12, <1>13, <1>14
         DEF Next, UiTaskStep

LEMMA OwnersCorrect == Spec => []OwnerInv
<1>1. Init => OwnerInv
  BY DEF Init, OwnerInv, Every
<1>2. TypeOK /\ TypeOK' /\ OwnerInv /\ [Next]_vars => OwnerInv'
  BY OwnersKept
<1> QED  BY <1>1, <1>2, TypeCorrect, PTL DEF Spec

\* A reply is merged into the database of the address it was asked for (db_rpc_response and
\* its comparison, check_database): a row of another wallet enters a file only in a reply
\* to a call that was made for the wallet of that file and carried the token of the other.
THEOREM ForeignRows == Spec => ForeignRowsOnlyByReseed
<1> DEFINE Own == \A a \in Addresses : \A row \in files'[a].rows \ files[a].rows :
                     row[1] # a => /\ DbTaskIs("db_rpc_response")
                                   /\ Head(dbQueue).sig.addr = a
                                   /\ row[1] = wallet.owners[Head(dbQueue).sig.token]
<1>1. TypeOK /\ SkipInv /\ OwnerInv /\ [Next]_vars => [Own]_vars
  <2> SUFFICES ASSUME TypeOK, SkipInv, OwnerInv, [Next]_vars,
                      NEW a \in Addresses, NEW row \in files'[a].rows \ files[a].rows
               PROVE  /\ DbTaskIs("db_rpc_response") /\ Head(dbQueue).sig.addr = a
                      /\ row[1] = wallet.owners[Head(dbQueue).sig.token]
    OBVIOUS
  <2>1. CASE UNCHANGED files
    BY <2>1
  <2>2. CASE check_database(db_wallet_first_address_, TRUE)
    <3> DEFINE new == [NewFile EXCEPT !.raced = db_in_rpc_call_]
    <3>1. /\ files' \in {files, [files EXCEPT ![db_wallet_first_address_] = new]}
          /\ new.rows = {}
      BY <2>2 DEF check_database, NewFile
    <3> HIDE DEF new
    <3>2. files'[a].rows \in {files[a].rows, {}}
      BY <3>1 DEF TypeOK
    <3> QED  BY <3>2
  <2>3. CASE db_rpc_response
    <3> DEFINE rows == Head(dbQueue).rows
    <3>1. Merge(rows) /\ files \in [Addresses -> File]
      BY <2>3, MergedReply DEF TypeOK
    <3> HIDE DEF rows
    <3>4. dbOpen = a /\ row \in rows
      BY <3>1 DEF Merge
    <3>2. a # NoAddress
      BY ConstantsAssumption
    <3>3. Head(dbQueue) \in Owned
      BY <2>3, MergedReply, EveryTail DEF OwnerInv
    <3> QED  BY <2>3, <3>2, <3>3, <3>4, MergedReply
             DEF rows, SkipInv, OpenIsCurrent, db_rpc_response, Owned
  <2> QED  BY <2>1, <2>2, <2>3, FilesChange
<1>2. Spec => [][Own]_vars
  BY <1>1, TypeCorrect, SkipCorrect, OwnersCorrect, PTL DEF Spec
<1> QED  BY <1>2 DEF ForeignRowsOnlyByReseed
-----------------------------------------------------------------------------
(* The polls that are under way are counted: a queue that gets a task has    *)
(* one more of its kind, a queue that loses its head one less.                *)

One(b) == IF b THEN 1 ELSE 0

LEMMA CountAt ==
    ASSUME NEW S, NEW s \in Seq(S), NEW P
    PROVE  IsFiniteSet(At(s, P)) /\ Cardinality(At(s, P)) \in Nat
<1>1. IsFiniteSet(1 .. Len(s)) /\ At(s, P) \in SUBSET (1 .. Len(s))
  BY FS_Interval DEF At
<1>2. IsFiniteSet(At(s, P))
  BY <1>1, FS_Subset
<1> QED  BY <1>2, FS_CardinalityType

LEMMA CountAppend ==
    ASSUME NEW S, NEW s \in Seq(S), NEW e \in S, NEW P
    PROVE  Cardinality(At(Append(s, e), P)) = Cardinality(At(s, P)) + One(e \in P)
<1>1. Cardinality(At(s, P)) \in Nat /\ IsFiniteSet(At(s, P))
  BY CountAt
<1>2. CASE e \notin P
  BY <1>1, <1>2, AtAppend DEF One
<1>3. CASE e \in P
  <2>1. At(Append(s, e), P) = At(s, P) \cup {Len(s) + 1} /\ Len(s) + 1 \notin At(s, P)
    BY <1>3, AtAppend
  <2>2. Cardinality(At(s, P) \cup {Len(s) + 1}) = Cardinality(At(s, P)) + 1
    BY <1>1, <2>1, FS_AddElement
  <2> QED  BY <1>3, <2>1, <2>2 DEF One
<1> QED  BY <1>2, <1>3

LEMMA CountShift ==
    ASSUME NEW S \in SUBSET Int, IsFiniteSet(S)
    PROVE  Cardinality({i - 1 : i \in S}) = Cardinality(S)
<1> DEFINE T == {i - 1 : i \in S}
           f == [i \in S |-> i - 1]
<1>0. /\ f \in [S -> T] /\ \A i \in S : i \in Int /\ f[i] = i - 1
      /\ \A t \in T : \E i \in S : t = i - 1
  OBVIOUS
<1> HIDE DEF T, f
<1>1. f \in Injection(S, T)
  BY <1>0 DEF Injection, IsInjective
<1>2. f \in Surjection(S, T)
  BY <1>0 DEF Surjection
<1>3. ExistsBijection(S, T)
  BY <1>1, <1>2 DEF ExistsBijection, Bijection
<1>4. Cardinality(T) = Cardinality(S)
  BY <1>3, FS_Bijection
<1> QED  BY <1>4 DEF T

LEMMA CountTail ==
    ASSUME NEW S, NEW s \in Seq(S), s # <<>>, NEW P
    PROVE  Cardinality(At(Tail(s), P)) = Cardinality(At(s, P)) - One(Head(s) \in P)
<1>1. /\ Cardinality(At(s, P)) \in Nat /\ IsFiniteSet(At(s, P))
      /\ At(s, P) \in SUBSET Int
      /\ 1 \in At(s, P) <=> Head(s) \in P
  <2>1. Len(s) \in Nat \ {0} /\ Head(s) = s[1] /\ DOMAIN s = 1 .. Len(s)
    BY HeadTailProperties, EmptySeq
  <2>2. At(s, P) \in SUBSET Int /\ (1 \in At(s, P) <=> Head(s) \in P)
    BY <2>1 DEF At
  <2> QED  BY <2>2, CountAt
<1>2. /\ IsFiniteSet(At(s, P) \ {1})
      /\ Cardinality(At(s, P) \ {1}) = Cardinality(At(s, P)) - One(Head(s) \in P)
  BY <1>1, FS_RemoveElement DEF One
<1>3. At(s, P) \ {1} \in SUBSET Int
  BY <1>1
<1>4. Cardinality({i - 1 : i \in At(s, P) \ {1}}) = Cardinality(At(s, P) \ {1})
  BY <1>2, <1>3, CountShift
<1> QED  BY <1>2, <1>4, AtTail

\* The chains of a queue, as the places of certain tasks.
UiChained == {task \in UiTask : Chain(task)}
DbChained == {task \in DbTask : DbChain(task)}

LEMMA ChainsAt ==
    TypeOK => UiChains = At(uiQueue, UiChained) /\ DbChains = At(dbQueue, DbChained)
BY DEF UiChains, DbChains, At, UiChained, DbChained, TypeOK

LEMMA ChainsAtNext ==
    TypeOK' => UiChains' = At(uiQueue', UiChained) /\ DbChains' = At(dbQueue', DbChained)
BY DEF UiChains, DbChains, At, UiChained, DbChained, TypeOK

LEMMA ChainTypes ==
    ASSUME TypeOK, IsFiniteSet(NetChains)
    PROVE  /\ Cardinality(UiChains) \in Nat /\ Cardinality(NetChains) \in Nat
           /\ Cardinality(DbChains) \in Nat /\ timers \in Nat
BY ChainsAt, CountAt, FS_CardinalityType DEF TypeOK

LEMMA PostUiCount ==
    ASSUME TypeOK, TypeOK', NEW task \in UiTask, uiQueue' = Append(uiQueue, task)
    PROVE  Cardinality(UiChains') = Cardinality(UiChains) + One(Chain(task))
BY ChainsAt, ChainsAtNext, CountAppend DEF TypeOK, UiChained, One

LEMMA TakeUiCount ==
    ASSUME TypeOK, TypeOK', uiQueue # <<>>, uiQueue' = Tail(uiQueue)
    PROVE  Cardinality(UiChains') = Cardinality(UiChains) - One(Chain(Head(uiQueue)))
<1>1. Head(uiQueue) \in UiTask
  BY UiHead
<1> QED  BY <1>1, ChainsAt, ChainsAtNext, CountTail DEF TypeOK, UiChained, One

LEMMA PostDbCount ==
    ASSUME TypeOK, TypeOK', NEW task \in DbTask, PostDb(task)
    PROVE  Cardinality(DbChains') = Cardinality(DbChains) + One(DbChain(task))
BY ChainsAt, ChainsAtNext, CountAppend DEF TypeOK, DbChained, One, PostDb

LEMMA TakeDbCount ==
    ASSUME TypeOK, TypeOK', dbQueue # <<>>, dbQueue' = Tail(dbQueue)
    PROVE  Cardinality(DbChains') = Cardinality(DbChains) - One(DbChain(Head(dbQueue)))
<1>1. Head(dbQueue) \in DbTask
  BY PlacesTail DEF TypeOK
<1> QED  BY <1>1, ChainsAt, ChainsAtNext, CountTail DEF TypeOK, DbChained, One

\* What is left alone counts as before.
LEMMA CountsKeep ==
    /\ UNCHANGED uiQueue => UiChains' = UiChains
    /\ UNCHANGED ui_requests_ => NetChains' = NetChains
    /\ UNCHANGED dbQueue => DbChains' = DbChains
BY DEF UiChains, NetChains, DbChains

\* A chain is on the network in finitely many calls, and the reply to getbalance, whose
\* end schedules another poll, never carries a tab's request.
Replied == {task \in DbTask : task.op = "db_rpc_balance_response" => task.sig.ext = NoRequest}
ChainInv == IsFiniteSet(NetChains) /\ ExtInv /\ Every(dbQueue, Replied)

\* Calls that are sent, and calls that are released.
LEMMA SendCount ==
    ASSUME TypeOK, IsFiniteSet(NetChains), NEW c \in Calls, NEW sig \in Signature,
           ui_requests_[c] = NoCall, ui_requests_' = [ui_requests_ EXCEPT ![c] = sig]
    PROVE  /\ IsFiniteSet(NetChains')
           /\ Cardinality(NetChains') = Cardinality(NetChains) + One(Chain(sig))
<1>1. sig # NoCall
  BY NoCallAssumption
<1>2. NetChains' = IF Chain(sig) THEN NetChains \cup {c} ELSE NetChains
  BY <1>1 DEF NetChains, TypeOK
<1>3. c \notin NetChains
  BY DEF NetChains
<1> QED  BY <1>2, <1>3, FS_AddElement, FS_CardinalityType DEF One

LEMMA ReleaseCount ==
    ASSUME TypeOK, IsFiniteSet(NetChains), NEW c \in Calls,
           ui_requests_[c] # NoCall, ui_requests_' = [ui_requests_ EXCEPT ![c] = NoCall]
    PROVE  /\ IsFiniteSet(NetChains')
           /\ Cardinality(NetChains') = Cardinality(NetChains) - One(Chain(ui_requests_[c]))
<1>1. NetChains' = NetChains \ {c}
  BY DEF NetChains, TypeOK
<1>2. c \in NetChains <=> Chain(ui_requests_[c])
  BY DEF NetChains
<1> QED  BY <1>1, <1>2, FS_RemoveElement, FS_CardinalityType DEF One

\* What the database thread posts to the UI thread, counted.
LEMMA AnswerCount ==
    ASSUME TypeOK, TypeOK', NEW ext \in AnyRequest, NEW loaded \in BOOLEAN,
           uiQueue' = uiQueue \o db_get_transactions(ext, loaded)
    PROVE  /\ Cardinality(UiChains') = Cardinality(UiChains)
           /\ ext = NoRequest => uiQueue' = uiQueue
<1> DEFINE e == [op |-> "end_http_call", ext |-> ext, is_loading |-> ~loaded]
<1>1. CASE ext = NoRequest
  <2>1. uiQueue' = uiQueue
    BY <1>1, ConcatEmptySeq DEF db_get_transactions, TypeOK
  <2> QED  BY <2>1, CountsKeep
<1>2. CASE ext # NoRequest
  <2>1. e \in UiTask /\ ~Chain(e)
    BY <1>2 DEF UiTask, AnyRequest, Chain
  <2>2. uiQueue' = Append(uiQueue, e)
    BY <1>2 DEF db_get_transactions, TypeOK
  <2>3. Cardinality(UiChains') = Cardinality(UiChains) + One(Chain(e))
    BY <2>1, <2>2, PostUiCount
  <2>4. Cardinality(UiChains) \in Nat
    BY ChainsAt, CountAt DEF TypeOK
  <2> QED  BY <1>2, <2>1, <2>3, <2>4 DEF One
<1> QED  BY <1>1, <1>2

LEMMA StartCount ==
    ASSUME TypeOK, TypeOK', NEW ext \in AnyRequest, db_start(ext)
    PROVE  \/ /\ MayNotStart /\ Cardinality(UiChains') = Cardinality(UiChains)
              /\ ext = NoRequest => uiQueue' = uiQueue
           \/ Cardinality(UiChains') = Cardinality(UiChains) + One(ext = NoRequest)
<1>1. CASE MayNotStart
  BY <1>1, AnswerCount DEF db_start, TypeOK
<1>2. CASE ~MayNotStart
  <2> DEFINE e == [op |-> "listsinceblock", token |-> db_token_base64_',
                   addr |-> db_wallet_first_address_',
                   since |-> get_latest_block(dbOpen'), ext |-> ext]
  <2>1. get_latest_block(dbOpen') \in Heights
    BY ConstantsAssumption DEF get_latest_block, TypeOK, File, AnyAddress, Heights
  <2>2. e \in UiTask /\ (Chain(e) <=> ext = NoRequest)
    BY <2>1 DEF UiTask, Signature, TypeOK, Chain
  <2>3. uiQueue' = Append(uiQueue, e)
    BY <1>2 DEF db_start
  <2> HIDE DEF e
  <2>4. Cardinality(UiChains') = Cardinality(UiChains) + One(Chain(e))
    BY <2>2, <2>3, PostUiCount
  <2> QED  BY <2>2, <2>4 DEF One
<1> QED  BY <1>1, <1>2

\* Ending knowingly is what the property allows a step to do that leaves no poll.
Knowingly ==
    \/ ~Ready'
    \/ DbTaskIs("db_rpc_response") /\ StaleReply
    \/ DbTaskIs("db_rpc_balance_response") /\ StaleReply
    \/ db_in_rpc_call_ /\ TabCallInFlight

\* A poll that finds a call under way leaves a chain behind, unless the call is a tab's.
LEMMA CallUnderWay ==
    ASSUME TypeOK, TypeOK', IsFiniteSet(NetChains), OneCallInFlight, db_in_rpc_call_,
           UNCHANGED <<uiQueue, ui_requests_>>, dbQueue # <<>>, dbQueue' = Tail(dbQueue),
           Head(dbQueue).op # "db_rpc_response", PollChains' = 0
    PROVE  TabCallInFlight
<1>1. IsFiniteSet(NetChains')
  BY CountsKeep
<1>2. IsFiniteSet(UiChains') /\ IsFiniteSet(DbChains')
  <2>1. uiQueue' \in Seq(UiTask) /\ dbQueue' \in Seq(DbTask)
    BY DEF TypeOK
  <2>2. UiChains' = At(uiQueue', UiChained) /\ DbChains' = At(dbQueue', DbChained)
    BY ChainsAtNext
  <2> QED  BY <2>1, <2>2, CountAt
<1>3. /\ Cardinality(UiChains') \in Nat /\ Cardinality(NetChains') \in Nat
      /\ Cardinality(DbChains') \in Nat /\ timers' \in Nat
  BY <1>1, <1>2, FS_CardinalityType DEF TypeOK
<1>4. /\ Cardinality(UiChains') = 0 /\ Cardinality(NetChains') = 0
      /\ Cardinality(DbChains') = 0
  BY <1>3 DEF PollChains
<1>5. UiChains = {} /\ NetChains = {} /\ DbChains' = {}
  BY <1>1, <1>2, <1>4, FS_EmptySet, CountsKeep
<1>6. CASE \E i \in UiCalls : TRUE
  <2>1. PICK i \in DOMAIN uiQueue : uiQueue[i].op = "listsinceblock"
    BY <1>6 DEF UiCalls, Places
  <2>2. ~Chain(uiQueue[i])
    BY <1>5 DEF UiChains
  <2> QED  BY <2>1, <2>2 DEF Chain, TabCallInFlight
<1>7. CASE \E c \in NetCalls : TRUE
  <2>1. PICK c \in Calls : ui_requests_[c] # NoCall /\ ui_requests_[c].op = "listsinceblock"
    BY <1>7 DEF NetCalls
  <2>2. ~Chain(ui_requests_[c])
    BY <1>5, <2>1 DEF NetChains
  <2> QED  BY <2>1, <2>2 DEF Chain, TabCallInFlight
<1>8. CASE \E i \in DbCalls : TRUE
  <2>1. PICK i \in DOMAIN dbQueue : dbQueue[i].op = "db_rpc_response"
    BY <1>8 DEF DbCalls, Places
  <2>2. dbQueue \in Seq(DbTask) /\ dbQueue[i] \in DbTask /\ i # 1
    BY <2>1 DEF TypeOK
  <2>3. dbQueue[i].sig.op # "end_http_call"
    <3>1. dbQueue[i].sig \in Signature
      BY <2>1, <2>2 DEF DbTask
    <3> QED  BY <3>1 DEF Signature
  <2>4. i \notin At(dbQueue, DbChained)
    <3>1. {j - 1 : j \in At(dbQueue, DbChained) \ {1}} = {}
      BY <1>5, <2>2, ChainsAtNext, AtTail
    <3> QED  BY <2>2, <3>1
  <2>5. ~DbChain(dbQueue[i])
    BY <2>1, <2>2, <2>4 DEF At, DbChained
  <2> QED  BY <2>1, <2>3, <2>5 DEF DbChain, Chain, TabCallInFlight
<1> QED  BY <1>6, <1>7, <1>8 DEF OneCallInFlight, IsSingle

\* One step and the count: what it may do.
Counted == /\ PollChains' <= PollChains
           /\ PollChains > 0 /\ PollChains' = 0 => Knowingly

LEMMA StartCounted ==
    ASSUME TypeOK, TypeOK', IsFiniteSet(NetChains), OneCallInFlight,
           dbQueue # <<>>, DbTaskDone, UNCHANGED timers, Head(dbQueue).op # "db_rpc_response",
           NEW ext \in AnyRequest, db_start(ext), DbChain(Head(dbQueue)) <=> ext = NoRequest
    PROVE  Counted
<1>1. /\ Cardinality(DbChains') = Cardinality(DbChains) - One(ext = NoRequest)
      /\ NetChains' = NetChains /\ timers' = timers
      /\ dbQueue' = Tail(dbQueue) /\ UNCHANGED ui_requests_
  BY TakeDbCount, CountsKeep DEF DbTaskDone, One
<1>2. /\ Cardinality(UiChains) \in Nat /\ Cardinality(NetChains) \in Nat
      /\ Cardinality(DbChains) \in Nat /\ timers \in Nat
  BY ChainTypes
<1>3. CASE Cardinality(UiChains') = Cardinality(UiChains) + One(ext = NoRequest)
  BY <1>1, <1>2, <1>3 DEF Counted, PollChains, One
<1>4. CASE /\ MayNotStart /\ Cardinality(UiChains') = Cardinality(UiChains)
           /\ ext = NoRequest => uiQueue' = uiQueue
  <2>1. CASE ext # NoRequest
    BY <1>1, <1>2, <1>4, <2>1 DEF Counted, PollChains, One
  <2>2. CASE ext = NoRequest
    <3>1. PollChains' <= PollChains
      BY <1>1, <1>2, <1>4, <2>2 DEF PollChains, One
    <3>2. ASSUME PollChains' = 0 PROVE Knowingly
      <4>1. CASE db_in_rpc_call_
        BY <1>1, <1>4, <2>2, <3>2, <4>1, CallUnderWay DEF Knowingly
      <4>2. CASE ~db_in_rpc_call_
        BY <1>4, <4>2 DEF MayNotStart, Knowingly, Ready
      <4> QED  BY <4>1, <4>2
    <3> QED  BY <3>1, <3>2 DEF Counted
  <2> QED  BY <2>1, <2>2
<1> QED  BY <1>3, <1>4, StartCount

LEMMA ChainsDb ==
    ASSUME TypeOK, TypeOK', ChainInv, OneCallInFlight, DbStep
    PROVE  Counted
<1>1. /\ Cardinality(UiChains) \in Nat /\ Cardinality(NetChains) \in Nat
      /\ Cardinality(DbChains) \in Nat /\ timers \in Nat /\ IsFiniteSet(NetChains)
  BY ChainTypes DEF ChainInv
<1>2. /\ dbQueue # <<>> /\ dbQueue' = Tail(dbQueue) /\ NetChains' = NetChains /\ DbTaskDone
      /\ Cardinality(DbChains') = Cardinality(DbChains) - One(DbChain(Head(dbQueue)))
  <2>1. dbQueue # <<>> /\ DbTaskDone
    BY DEF DbStep, db_set_token, db_set_first_address, db_start_task,
           db_get_transactions_task, db_rpc_response_stale, db_rpc_response,
           db_check_control_sum, db_rpc_balance_response, DbTaskIs
  <2> QED  BY <2>1, TakeDbCount, CountsKeep DEF DbTaskDone
<1>3. CASE db_set_token \/ db_set_first_address
  <2>1. PICK op \in {"db_set_token", "db_set_first_address"} : DbTaskIs(op)
    BY <1>3 DEF db_set_token, db_set_first_address
  <2>2. Head(dbQueue).op # "db_rpc_response" /\ DbChain(Head(dbQueue))
    BY <2>1 DEF DbTaskIs, DbChain
  <2>3. db_start(NoRequest) /\ UNCHANGED timers
    BY <1>3 DEF db_set_token, db_set_first_address
  <2> QED  BY <1>1, <1>2, <2>2, <2>3, StartCounted DEF AnyRequest
<1>4. CASE db_start_task
  <2>1. Head(dbQueue).ext \in AnyRequest
    BY <1>4, DbHead DEF db_start_task, DbTask
  <2>2. /\ Head(dbQueue).op # "db_rpc_response"
        /\ DbChain(Head(dbQueue)) <=> Head(dbQueue).ext = NoRequest
    BY <1>4 DEF db_start_task, DbTaskIs, DbChain
  <2> QED  BY <1>1, <1>2, <1>4, <2>1, <2>2, StartCounted DEF db_start_task
<1>5. CASE db_get_transactions_task
  <2>1. Head(dbQueue).ext \in AnyRequest
    BY <1>5, DbHead DEF db_get_transactions_task, DbTask
  <2>2. Cardinality(UiChains') = Cardinality(UiChains)
    BY <1>5, <2>1, AnswerCount DEF db_get_transactions_task, TypeOK
  <2>3. ~DbChain(Head(dbQueue)) /\ UNCHANGED timers
    BY <1>5 DEF db_get_transactions_task, DbTaskIs, DbChain
  <2> QED  BY <1>1, <1>2, <2>2, <2>3 DEF Counted, PollChains, One
<1>6. ASSUME DbTaskIs("db_rpc_response") \/ DbTaskIs("db_rpc_balance_response")
      PROVE  /\ Head(dbQueue).sig.ext \in AnyRequest
             /\ DbChain(Head(dbQueue)) <=> Head(dbQueue).sig.ext = NoRequest
  <2>1. Head(dbQueue) \in DbTask /\ Head(dbQueue).op \in {"db_rpc_response", "db_rpc_balance_response"}
    BY <1>6, DbHead
  <2>2. Head(dbQueue).sig \in Signature
    BY <2>1 DEF DbTask
  <2>3. Head(dbQueue).sig.op # "end_http_call" /\ Head(dbQueue).sig.ext \in AnyRequest
    BY <2>2 DEF Signature
  <2> QED  BY <2>1, <2>3 DEF DbChain, Chain
<1>7. CASE db_rpc_response_stale
  <2>1. Cardinality(UiChains') = Cardinality(UiChains)
    BY <1>6, <1>7, AnswerCount DEF db_rpc_response_stale, TypeOK
  <2> QED  BY <1>1, <1>2, <1>7, <2>1
           DEF db_rpc_response_stale, Counted, PollChains, One, Knowingly
<1>8. CASE db_rpc_response
  <2> DEFINE ext == Head(dbQueue).sig.ext
  <2>1. ext \in AnyRequest /\ (DbChain(Head(dbQueue)) <=> ext = NoRequest)
    BY <1>6, <1>8 DEF db_rpc_response
  <2>2. /\ UNCHANGED timers
        /\ uiQueue' = uiQueue \o (IF ext # NoRequest THEN db_get_transactions(ext, TRUE)
                                                    ELSE db_check_synced)
    BY <1>8 DEF db_rpc_response
  <2> HIDE DEF ext
  <2>3. CASE ext # NoRequest
    <3>1. Cardinality(UiChains') = Cardinality(UiChains)
      BY <2>1, <2>2, <2>3, AnswerCount
    <3> QED  BY <1>1, <1>2, <2>1, <2>2, <2>3, <3>1 DEF Counted, PollChains, One
  <2>4. CASE ext = NoRequest
    <3> DEFINE task == [op |-> "mnsync", token |-> db_token_base64_, addr |-> NoAddress,
                        since |-> 0, ext |-> NoRequest]
    <3>1. task \in UiTask /\ Chain(task)
      BY ConstantsAssumption DEF UiTask, Signature, TypeOK, AnyAddress, AnyRequest, Heights, Chain
    <3>2. uiQueue' = Append(uiQueue, task)
      <4>1. uiQueue' = uiQueue \o <<task>> /\ uiQueue \in Seq(UiTask)
        BY <2>2, <2>4 DEF db_check_synced, TypeOK
      <4> QED  BY <3>1, <4>1
    <3> HIDE DEF task
    <3>3. Cardinality(UiChains') = Cardinality(UiChains) + 1
      BY <3>1, <3>2, PostUiCount DEF One
    <3> QED  BY <1>1, <1>2, <2>1, <2>2, <2>4, <3>3 DEF Counted, PollChains, One
  <2> QED  BY <2>3, <2>4
<1>9. CASE db_check_control_sum
  <2> DEFINE task == [op |-> "getbalance", token |-> db_token_base64_,
                      addr |-> db_wallet_first_address_, since |-> 0, ext |-> NoRequest]
  <2>1. task \in UiTask /\ Chain(task)
    BY ConstantsAssumption DEF UiTask, Signature, TypeOK, AnyRequest, Heights, Chain
  <2>2. uiQueue' = Append(uiQueue, task) /\ UNCHANGED timers
    BY <1>9 DEF db_check_control_sum
  <2> HIDE DEF task
  <2>3. Cardinality(UiChains') = Cardinality(UiChains) + 1
    BY <2>1, <2>2, PostUiCount DEF One
  <2>4. DbChain(Head(dbQueue))
    BY <1>9 DEF db_check_control_sum, DbTaskIs, DbChain
  <2> QED  BY <1>1, <1>2, <2>2, <2>3, <2>4 DEF Counted, PollChains, One
<1>10. CASE db_rpc_balance_response
  <2>1. UNCHANGED uiQueue /\ DbTaskIs("db_rpc_balance_response")
    BY <1>10 DEF db_rpc_balance_response
  <2>2. Cardinality(UiChains') = Cardinality(UiChains)
    BY <2>1, CountsKeep
  <2>3. DbChain(Head(dbQueue))
    <3>1. Head(dbQueue) \in Replied
      BY <1>2, EveryTail DEF ChainInv, TypeOK
    <3> QED  BY <1>6, <2>1, <3>1 DEF Replied, DbTaskIs
  <2>4. \/ StaleReply /\ UNCHANGED timers
        \/ timers' = timers + 1
    BY <1>10 DEF db_rpc_balance_response
  <2> QED  BY <1>1, <1>2, <2>1, <2>2, <2>3, <2>4 DEF Counted, PollChains, One, Knowingly
<1> QED  BY <1>3, <1>4, <1>5, <1>7, <1>8, <1>9, <1>10 DEF DbStep

\* The UI thread moves a chain from one place to the next.
LEMMA ChainsUi ==
    ASSUME TypeOK, TypeOK', IsFiniteSet(NetChains),
           \/ ui_start
           \/ \E r \in Requests, invalidate \in BOOLEAN : ui_get_transactions(r, invalidate)
    PROVE  PollChains' = PollChains
<1>1. /\ Cardinality(UiChains) \in Nat /\ Cardinality(NetChains) \in Nat
      /\ Cardinality(DbChains) \in Nat /\ timers \in Nat
  BY ChainTypes
<1>2. UiChains' = UiChains /\ NetChains' = NetChains
  BY CountsKeep DEF ui_start, ui_get_transactions
<1>3. CASE ui_start
  <2> DEFINE task == [op |-> "db_start", ext |-> NoRequest]
  <2>1. task \in DbTask /\ DbChain(task) /\ PostDb(task) /\ timers' = timers - 1
    BY <1>3 DEF ui_start, DbTask, AnyRequest, DbChain
  <2> HIDE DEF task
  <2>2. Cardinality(DbChains') = Cardinality(DbChains) + 1
    BY <2>1, PostDbCount DEF One
  <2> QED  BY <1>1, <1>2, <2>1, <2>2 DEF PollChains
<1>4. ASSUME NEW r \in Requests, NEW invalidate \in BOOLEAN, ui_get_transactions(r, invalidate)
      PROVE  PollChains' = PollChains
  <2> DEFINE task == [op |-> IF invalidate THEN "db_start" ELSE "db_get_transactions", ext |-> r]
  <2>1. task \in DbTask /\ ~DbChain(task)
    BY ConstantsAssumption DEF DbTask, AnyRequest, DbChain
  <2>2. PostDb(task) /\ timers' = timers
    BY <1>4 DEF ui_get_transactions
  <2> HIDE DEF task
  <2>3. Cardinality(DbChains') = Cardinality(DbChains) + 0
    BY <2>1, <2>2, PostDbCount DEF One
  <2> QED  BY <1>1, <1>2, <2>2, <2>3 DEF PollChains
<1> QED  BY <1>3, <1>4

LEMMA ChainsUiTask ==
    ASSUME TypeOK, TypeOK', IsFiniteSet(NetChains), UiTaskStep
    PROVE  PollChains' = PollChains /\ IsFiniteSet(NetChains')
<1>1. /\ Cardinality(UiChains) \in Nat /\ Cardinality(NetChains) \in Nat
      /\ Cardinality(DbChains) \in Nat /\ timers \in Nat
  BY ChainTypes
<1>2. uiQueue # <<>> /\ uiQueue' = Tail(uiQueue) /\ DbChains' = DbChains /\ timers' = timers
  BY CountsKeep DEF UiTaskStep, end_http_call, ui_request
<1>3. Cardinality(UiChains') = Cardinality(UiChains) - One(Chain(Head(uiQueue)))
  BY <1>2, TakeUiCount
<1>4. CASE end_http_call
  <2>1. NetChains' = NetChains /\ ~Chain(Head(uiQueue))
    BY <1>4, CountsKeep DEF end_http_call, Chain
  <2> QED  BY <1>1, <1>2, <1>3, <2>1 DEF PollChains, One
<1>5. ASSUME NEW c \in Calls, ui_request(c)
      PROVE  PollChains' = PollChains /\ IsFiniteSet(NetChains')
  <2>1. Head(uiQueue) \in Signature
    BY <1>5, UiHead DEF ui_request, UiTask
  <2>2. /\ IsFiniteSet(NetChains')
        /\ Cardinality(NetChains') = Cardinality(NetChains) + One(Chain(Head(uiQueue)))
    BY <1>5, <2>1, SendCount DEF ui_request
  <2> QED  BY <1>1, <1>2, <1>3, <2>2 DEF PollChains, One
<1> QED  BY <1>4, <1>5 DEF UiTaskStep

LEMMA ChainsReply ==
    ASSUME TypeOK, TypeOK', ChainInv, NEW c \in Calls, ReplyStep(c)
    PROVE  PollChains' = PollChains /\ IsFiniteSet(NetChains') /\ Every(dbQueue', Replied)
<1> DEFINE sig == ui_requests_[c]
<1> PICK b \in BOOLEAN :
        ui_rpc_response(c, b) \/ ui_mnsync_response(c, b) \/ ui_rpc_balance_response(c, b)
  BY DEF ReplyStep
<1>1. /\ Cardinality(UiChains) \in Nat /\ Cardinality(NetChains) \in Nat
      /\ Cardinality(DbChains) \in Nat /\ timers \in Nat /\ IsFiniteSet(NetChains)
  BY ChainTypes DEF ChainInv
<1>2. /\ sig # NoCall /\ sig \in Signature /\ sig \in Proper
      /\ ui_requests_' = [ui_requests_ EXCEPT ![c] = NoCall] /\ UiChains' = UiChains
  BY CountsKeep DEF ui_rpc_response, ui_mnsync_response, ui_rpc_balance_response, Reply,
                    TypeOK, ChainInv, ExtInv
<1>3. /\ IsFiniteSet(NetChains')
      /\ Cardinality(NetChains') = Cardinality(NetChains) - One(Chain(sig))
  BY <1>1, <1>2, ReleaseCount
<1>4. dbQueue \in Seq(DbTask) /\ Every(dbQueue, Replied)
  BY DEF TypeOK, ChainInv
<1>5. ASSUME NEW task \in DbTask, PostDb(task), UNCHANGED timers,
             DbChain(task) <=> Chain(sig), task \in Replied
      PROVE  PollChains' = PollChains /\ Every(dbQueue', Replied)
  <2>1. Cardinality(DbChains') = Cardinality(DbChains) + One(Chain(sig))
    BY <1>5, PostDbCount DEF One
  <2>2. Every(dbQueue', Replied)
    BY <1>4, <1>5, EveryAppend DEF PostDb
  <2> QED  BY <1>1, <1>2, <1>3, <1>5, <2>1, <2>2 DEF PollChains, One
<1>6. CASE ui_rpc_response(c, b)
  <2> DEFINE rows == {row \in Rows : /\ b /\ row[2] > ui_requests_[c].since
                                     /\ \E answer \in served[c] :
                                           row[1] = answer.addr /\ row[2] <= answer.tip}
             task == [op |-> "db_rpc_response", sig |-> sig, rows |-> rows]
  <2>1. rows \in SUBSET Rows /\ PostDb(task) /\ UNCHANGED timers
    BY <1>6 DEF ui_rpc_response
  <2> HIDE DEF rows, sig
  <2>2. task \in DbTask /\ task \in Replied /\ (DbChain(task) <=> Chain(sig))
    BY <1>2, <2>1 DEF DbTask, Replied, DbChain
  <2> QED  BY <1>3, <1>5, <2>1, <2>2
<1>7. CASE ui_mnsync_response(c, b)
  <2>1. Chain(sig)
    BY <1>2, <1>7 DEF ui_mnsync_response, Reply, Proper, Chain
  <2>2. CASE PostDb([op |-> "db_check_control_sum"]) /\ UNCHANGED timers
    <3> DEFINE task == [op |-> "db_check_control_sum"]
    <3>1. task \in DbTask /\ task \in Replied /\ DbChain(task)
      BY DEF DbTask, Replied, DbChain
    <3> QED  BY <1>3, <1>5, <2>1, <2>2, <3>1
  <2>3. CASE timers' = timers + 1 /\ UNCHANGED dbQueue
    BY <1>1, <1>2, <1>3, <1>4, <2>1, <2>3, CountsKeep DEF PollChains, One
  <2> QED  BY <1>7, <2>2, <2>3 DEF ui_mnsync_response
<1>8. CASE ui_rpc_balance_response(c, b)
  <2>1. PICK balance \in IF b THEN {answer.tip : answer \in served[c]} ELSE {0} :
          PostDb([op |-> "db_rpc_balance_response", sig |-> sig, ok |-> b, balance |-> balance])
    BY <1>8 DEF ui_rpc_balance_response
  <2> DEFINE task == [op |-> "db_rpc_balance_response", sig |-> sig, ok |-> b, balance |-> balance]
  <2>2. balance \in Heights
    <3>1. \A answer \in served[c] : answer.tip \in Heights
      BY DEF TypeOK, Answer, WalletProcess
    <3> QED  BY <2>1, <3>1, ConstantsAssumption DEF Heights
  <2>3. sig.ext = NoRequest /\ UNCHANGED timers
    BY <1>2, <1>8 DEF ui_rpc_balance_response, Reply, Proper
  <2> HIDE DEF sig
  <2>4. task \in DbTask /\ task \in Replied /\ (DbChain(task) <=> Chain(sig))
    BY <1>2, <2>2, <2>3 DEF DbTask, Replied, DbChain
  <2> QED  BY <1>3, <1>5, <2>1, <2>3, <2>4
<1> QED  BY <1>6, <1>7, <1>8

LEMMA ChainsEnvironment ==
    ASSUME \/ NewBlock \/ UNCHANGED vars
           \/ \E c \in Calls : Serve(c)
           \/ \E a \in Addresses : Reseed(a)
    PROVE  PollChains' = PollChains /\ NetChains' = NetChains /\ dbQueue' = dbQueue
<1>1. UNCHANGED <<uiQueue, ui_requests_, dbQueue, timers>>
  BY DEF NewBlock, Serve, Reseed, vars, queueVars
<1> QED  BY <1>1, CountsKeep DEF PollChains

LEMMA ChainsRestart ==
    ASSUME TypeOK, Restart
    PROVE  /\ NetChains' = {} /\ dbQueue' = <<>> /\ ~Ready' /\ used' # used
<1>1. NetChains' = {} /\ dbQueue' = <<>> /\ ~Ready'
  BY DEF Restart, NetChains, Ready
<1>2. used'.restart = used.restart + 1 /\ used.restart \in Nat
  BY DEF Restart, TypeOK
<1> QED  BY <1>1, <1>2

LEMMA ChainInvKept ==
    ASSUME TypeOK, TypeOK', ChainInv, [Next]_vars
    PROVE  ChainInv'
<1>1. ExtInv'
  BY ExtKept DEF ChainInv
<1>2. IsFiniteSet(NetChains) /\ Every(dbQueue, Replied) /\ dbQueue \in Seq(DbTask)
  BY DEF ChainInv, TypeOK
<1>3. CASE DbStep
  <2>1. dbQueue # <<>> /\ dbQueue' = Tail(dbQueue) /\ UNCHANGED ui_requests_
    BY <1>3 DEF DbStep, db_set_token, db_set_first_address, db_start_task,
                db_get_transactions_task, db_rpc_response_stale, db_rpc_response,
                db_check_control_sum, db_rpc_balance_response, DbTaskDone, DbTaskIs
  <2> QED  BY <1>1, <1>2, <2>1, EveryTail, CountsKeep DEF ChainInv
<1>4. ASSUME NEW task \in DbTask, PostDb(task), task.op # "db_rpc_balance_response",
             UNCHANGED ui_requests_
      PROVE  ChainInv'
  <2>1. task \in Replied /\ dbQueue' = Append(dbQueue, task)
    BY <1>4 DEF Replied, PostDb
  <2> QED  BY <1>1, <1>2, <1>4, <2>1, EveryAppend, CountsKeep DEF ChainInv
<1>5. ASSUME NEW token \in NoToken .. wallet.token, ui_set_rpc_token(token) PROVE ChainInv'
  <2>1. [op |-> "db_set_token", token |-> token] \in DbTask
    BY DEF DbTask, NoToken, TypeOK, WalletProcess
  <2> QED  BY <1>4, <1>5, <2>1 DEF ui_set_rpc_token
<1>6. CASE ui_set_first_address
  <2>1. [op |-> "db_set_first_address", addr |-> wallet.addr] \in DbTask
    <3>1. wallet.addr \in Addresses
      BY DEF TypeOK, WalletProcess
    <3> QED  BY <3>1 DEF DbTask
  <2> QED  BY <1>4, <1>6, <2>1 DEF ui_set_first_address
<1>7. ASSUME NEW r \in Requests, NEW invalidate \in BOOLEAN, ui_get_transactions(r, invalidate)
      PROVE  ChainInv'
  <2>1. [op |-> IF invalidate THEN "db_start" ELSE "db_get_transactions", ext |-> r] \in DbTask
    BY DEF DbTask, AnyRequest
  <2> QED  BY <1>4, <1>7, <2>1 DEF ui_get_transactions
<1>8. CASE ui_start
  <2>1. [op |-> "db_start", ext |-> NoRequest] \in DbTask
    BY DEF DbTask, AnyRequest
  <2> QED  BY <1>4, <1>8, <2>1 DEF ui_start
<1>9. CASE UiTaskStep
  <2>1. UNCHANGED dbQueue
    BY <1>9 DEF UiTaskStep, end_http_call, ui_request
  <2> QED  BY <1>1, <1>2, <1>9, <2>1, ChainsUiTask DEF ChainInv
<1>10. ASSUME NEW c \in Calls, ReplyStep(c) PROVE ChainInv'
  BY <1>1, <1>10, ChainsReply DEF ChainInv
<1>11. CASE Restart
  BY <1>1, <1>11, ChainsRestart, FS_EmptySet DEF ChainInv, Every
<1>12. CASE \/ NewBlock \/ UNCHANGED vars
            \/ \E c \in Calls : Serve(c)
            \/ \E a \in Addresses : Reseed(a)
  BY <1>1, <1>2, <1>12, ChainsEnvironment DEF ChainInv
<1> QED  BY <1>3, <1>5, <1>6, <1>7, <1>8, <1>9, <1>10, <1>11, <1>12 DEF Next

LEMMA ChainCorrect == Spec => []ChainInv
<1>1. Init => ChainInv
  <2> SUFFICES ASSUME Init PROVE ChainInv
    OBVIOUS
  <2>1. NetChains = {}
    BY DEF Init, NetChains
  <2> QED  BY <2>1, FS_EmptySet DEF Init, ChainInv, ExtInv, Every
<1>2. TypeOK /\ TypeOK' /\ ChainInv /\ [Next]_vars => ChainInv'
  BY ChainInvKept
<1> QED  BY <1>1, <1>2, TypeCorrect, PTL DEF Spec

\* Every step, counted: only a notification starts a chain, and a step that ends the last
\* one does so knowingly.
LEMMA EveryStepCounted ==
    ASSUME TypeOK, TypeOK', ChainInv, OneCallInFlight, [Next]_vars
    PROVE  /\ PollChains > 0 /\ PollChains' = 0 => Knowingly
           /\ PollChains' > PollChains => used' # used \/ first_address_' # first_address_
<1>1. PollChains \in Nat /\ PollChains \in Int
  <2>1. /\ Cardinality(UiChains) \in Nat /\ Cardinality(NetChains) \in Nat
        /\ Cardinality(DbChains) \in Nat /\ timers \in Nat
    BY ChainTypes DEF ChainInv
  <2> QED  BY <2>1 DEF PollChains
<1>2. PollChains' \in Nat
  <2>1. ChainInv'
    BY ChainInvKept
  <2>2. IsFiniteSet(NetChains')
    BY <2>1 DEF ChainInv
  <2>3. uiQueue' \in Seq(UiTask) /\ dbQueue' \in Seq(DbTask) /\ timers' \in Nat
    BY DEF TypeOK
  <2>4. UiChains' = At(uiQueue', UiChained) /\ DbChains' = At(dbQueue', DbChained)
    BY ChainsAtNext
  <2>5. Cardinality(UiChains') \in Nat /\ Cardinality(DbChains') \in Nat
    BY <2>3, <2>4, CountAt
  <2>6. Cardinality(NetChains') \in Nat
    BY <2>2, FS_CardinalityType
  <2> QED  BY <2>3, <2>5, <2>6 DEF PollChains
<1>3. CASE DbStep
  <2>1. Counted
    BY <1>3, ChainsDb
  <2> QED  BY <1>1, <1>2, <2>1 DEF Counted
<1>4. ASSUME NEW token \in NoToken .. wallet.token, ui_set_rpc_token(token)
      PROVE  ~(PollChains > 0 /\ PollChains' = 0) /\ used' # used
  <2> DEFINE task == [op |-> "db_set_token", token |-> token]
  <2>1. task \in DbTask /\ DbChain(task) /\ PostDb(task)
    BY <1>4 DEF DbTask, NoToken, TypeOK, ui_set_rpc_token, DbChain
  <2>2. UiChains' = UiChains /\ NetChains' = NetChains /\ timers' = timers
    BY <1>4, CountsKeep DEF ui_set_rpc_token
  <2> HIDE DEF task
  <2>3. Cardinality(DbChains') = Cardinality(DbChains) + 1
    BY <2>1, PostDbCount DEF One
  <2>4. PollChains' = PollChains + 1
    BY <2>2, <2>3, ChainTypes DEF PollChains, ChainInv
  <2>5. used'.token = used.token + 1 /\ used.token \in Nat
    BY <1>4 DEF ui_set_rpc_token, TypeOK
  <2> QED  BY <1>1, <2>4, <2>5
<1>5. CASE ui_set_first_address
  <2> DEFINE task == [op |-> "db_set_first_address", addr |-> wallet.addr]
  <2>1. task \in DbTask /\ DbChain(task) /\ PostDb(task)
    <3>1. wallet.addr \in Addresses
      BY DEF TypeOK, WalletProcess
    <3> QED  BY <1>5, <3>1 DEF DbTask, ui_set_first_address, DbChain
  <2>2. UiChains' = UiChains /\ NetChains' = NetChains /\ timers' = timers
    BY <1>5, CountsKeep DEF ui_set_first_address
  <2> HIDE DEF task
  <2>3. Cardinality(DbChains') = Cardinality(DbChains) + 1
    BY <2>1, PostDbCount DEF One
  <2>4. PollChains' = PollChains + 1
    BY <2>2, <2>3, ChainTypes DEF PollChains, ChainInv
  <2>5. first_address_' # first_address_
    BY <1>5 DEF ui_set_first_address
  <2> QED  BY <1>1, <2>4, <2>5
<1>6. CASE Restart
  BY <1>6, ChainsRestart DEF Knowingly
<1>7. ASSUME PollChains' = PollChains
      PROVE  ~(PollChains > 0 /\ PollChains' = 0) /\ ~(PollChains' > PollChains)
  BY <1>1, <1>7
<1> QED  BY <1>3, <1>4, <1>5, <1>6, <1>7, ChainsUi, ChainsUiTask, ChainsReply,
            ChainsEnvironment DEF Next, ChainInv

\* A chain of polls ends only where db_start finds the wallet not ready or a tab's call under
\* way, with a reply for another address (db_rpc_response, db_rpc_balance_response), or with
\* the browser.
THEOREM PollingEnds == Spec => PollingEndsOnlyKnowingly
<1> DEFINE Ends == PollChains > 0 /\ PollChains' = 0 => Knowingly
<1>1. TypeOK /\ TypeOK' /\ ChainInv /\ OneCallInFlight /\ [Next]_vars => [Ends]_vars
  BY EveryStepCounted
<1>2. Spec => [][Ends]_vars
  BY <1>1, TypeCorrect, ChainCorrect, SingleFlight, PTL DEF Spec
<1> QED  BY <1>2 DEF PollingEndsOnlyKnowingly, Knowingly

\* No reply, timer or task makes two chains of polls out of one (schedule_transaction_request,
\* ui_mnsync_response): only the notification of a token or of an address starts one.
THEOREM PollingStaysSingle == Spec => PollingDoesNotMultiply
<1> DEFINE Grows == PollChains' > PollChains =>
                       used' # used \/ first_address_' # first_address_
<1>1. TypeOK /\ TypeOK' /\ ChainInv /\ OneCallInFlight /\ [Next]_vars => [Grows]_vars
  BY EveryStepCounted
<1>2. Spec => [][Grows]_vars
  BY <1>1, TypeCorrect, ChainCorrect, SingleFlight, PTL DEF Spec
<1> QED  BY <1>2 DEF PollingDoesNotMultiply

=============================================================================
