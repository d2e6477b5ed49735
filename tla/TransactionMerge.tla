-------------------------- MODULE TransactionMerge --------------------------
(***************************************************************************)
(* How the desktop browser merges the reply of listsinceblock into its      *)
(* database: parse_transactions_json, get_unconfirmed, insert_or_update,    *)
(* update, set_conflicted and set_latest_block, as db_rpc_response combines *)
(* them.  TransactionService models when a merge runs and leaves its result *)
(* open; this module models one wallet and what each merge does to the rows.*)
(*                                                                         *)
(* Abstractions.  The entries of a reply with the same key are one entry    *)
(* here (append sums their amounts).  A key is a transaction and whether    *)
(* the entry names the address it came from; txid, address and category     *)
(* stand in the number of the transaction, whose order is that of the keys. *)
(* A block is its height: blocks as deep as latest_block are never undone.  *)
(* The wallet is taken to report walletconflicts for a transaction that     *)
(* lost to one in the chain, and for no other.  A statement that fails is    *)
(* not noticed: nobody looks at what insert_or_update, update,              *)
(* set_conflicted and set_latest_block return.                              *)
(***************************************************************************)
EXTENDS Integers, FiniteSets

CONSTANTS
    Txs,                          \* the transactions, numbered in the order of their keys
    Zero,                         \* those whose amount is 0
    ENOUGH_CONFIRMATION_COUNT,    \* 101 in the code
    MaxTip,                       \* bound: height of the chain
    MaxSpoiled                    \* bound: transactions spoiled by failures at a time

ASSUME ConstantsAssumption ==
    /\ Txs \subseteq Nat /\ Zero \subseteq Txs
    /\ ENOUGH_CONFIRMATION_COUNT \in Nat \ {0}
    /\ MaxTip \in Nat

VARIABLES
    wallet,    \* the wallet's transactions, by its own account
    tip,       \* height of the chain
    rows,      \* table transactions
    latest,    \* setting latest_block, 0 when there is none
    merged,    \* history: the last step was a merge
    spoiled    \* history: a statement about the transaction failed, and no merge made up for it

vars == <<wallet, tip, rows, latest, merged, spoiled>>

Heights == 0 .. MaxTip
Keys    == Txs \X BOOLEAN      \* <<transaction, address_from is not empty>>

\* known: the wallet lists it.  height: its block, 0 outside the chain.
\* conflicted: another transaction, in the chain, spends the same coins.
WalletTx == [known : BOOLEAN, conflicted : BOOLEAN, height : Heights]
Unknown    == [known |-> FALSE, conflicted |-> FALSE, height |-> 0]
Conflicted == [known |-> TRUE,  conflicted |-> TRUE,  height |-> 0]
At(height) == [known |-> TRUE,  conflicted |-> FALSE, height |-> height]

Row == [confirmations : -1 .. ENOUGH_CONFIRMATION_COUNT, conflicted : BOOLEAN, block : Heights]

TypeOK ==
    /\ wallet \in [Txs -> WalletTx]
    /\ tip \in Heights
    /\ DOMAIN rows \subseteq Keys /\ rows \in [DOMAIN rows -> Row]
    /\ latest \in Heights
    /\ merged \in BOOLEAN
    /\ spoiled \in SUBSET Txs

Init ==
    /\ wallet = [t \in Txs |-> Unknown]
    /\ tip = 0
    /\ rows = [k \in {} |-> {}]
    /\ latest = 0
    /\ merged = FALSE
    /\ spoiled = {}

-----------------------------------------------------------------------------
(* The wallet process *)

WalletStep == merged' = FALSE /\ UNCHANGED <<rows, latest, spoiled>>

Pool == {t \in Txs : wallet[t] = At(0)}

\* A transaction is made or received, or comes back.
Receive(t) ==
    /\ wallet[t] = Unknown
    /\ wallet' = [wallet EXCEPT ![t] = At(0)]
    /\ UNCHANGED tip /\ WalletStep

\* A transaction that is in no block is removed from the wallet.
Drop(t) ==
    /\ wallet[t] \in {At(0), Conflicted}
    /\ wallet' = [wallet EXCEPT ![t] = Unknown]
    /\ UNCHANGED tip /\ WalletStep

\* A block is added, with some transactions, and makes others impossible.
Mine(included, double_spent) ==
    /\ tip < MaxTip
    /\ tip' = tip + 1
    /\ wallet' = [t \in Txs |-> CASE t \in included     -> At(tip + 1)
                                  [] t \in double_spent -> Conflicted
                                  [] OTHER              -> wallet[t]]
    /\ WalletStep

\* A longer branch replaces the last blocks, fewer than ENOUGH_CONFIRMATION_COUNT of
\* them; what they held, and what they had made impossible, is decided anew.
Reorganize(depth) ==
    /\ tip < MaxTip /\ depth < ENOUGH_CONFIRMATION_COUNT /\ depth <= tip
    /\ tip' = tip + 1
    /\ \E placed \in [{t \in Txs : wallet[t].known
                                   /\ (wallet[t].height = 0 \/ wallet[t].height > tip - depth)}
                       -> {Conflicted, At(0)} \cup {At(h) : h \in tip - depth + 1 .. tip + 1}] :
            wallet' = [t \in Txs |-> IF t \in DOMAIN placed THEN placed[t] ELSE wallet[t]]
    /\ WalletStep

\* The reply of listsinceblock: what is above the block or in no block.  Where the
\* transaction came from may be missing while it is in no block.
Confirmations(t) == IF wallet[t].conflicted THEN -1
                    ELSE IF wallet[t].height = 0 THEN 0 ELSE tip - wallet[t].height + 1

Listed(since) == {t \in Txs : wallet[t].known
                              /\ (wallet[t].height = 0 \/ wallet[t].height > since)}

listsinceblock(since, nameless) ==
    [k \in {<<t, t \notin nameless>> : t \in Listed(since)} |->
        [confirmations |-> Confirmations(k[1]), conflicted |-> wallet[k[1]].conflicted,
         block |-> wallet[k[1]].height]]

-----------------------------------------------------------------------------
(* The merge *)

\* Mutant: the confirmations are not capped.
Capped_Never(confirmations) == confirmations

\* Mutant: the cap is applied one confirmation early.
Capped_Early(confirmations) ==
    IF confirmations >= ENOUGH_CONFIRMATION_COUNT - 1
    THEN ENOUGH_CONFIRMATION_COUNT ELSE confirmations

Capped(confirmations) ==
    IF confirmations > ENOUGH_CONFIRMATION_COUNT
    THEN ENOUGH_CONFIRMATION_COUNT ELSE confirmations

\* rpc_data: the entries by key, their confirmations capped.
parse_transactions_json(json) ==
    [k \in DOMAIN json |-> [json[k] EXCEPT !.confirmations = Capped(@)]]

\* db_data: the rows that may still change.
get_unconfirmed == {k \in DOMAIN rows : /\ rows[k].confirmations < ENOUGH_CONFIRMATION_COUNT
                                        /\ ~rows[k].conflicted}

\* An entry of a conflicted transaction that does not name where it came from is not
\* inserted, unless a row of its key may still change.
NotInserted(rpc_data) ==
    {k \in DOMAIN rpc_data \ get_unconfirmed : ~k[2] /\ rpc_data[k].confirmations = -1}

\* Mutant: the amounts are not compared.
Spared_AnyAmount(rpc_data) ==
    {k \in get_unconfirmed \ DOMAIN rpc_data :
        \E e \in NotInserted(rpc_data) : e[1] = k[1]}

\* Its row with an address_from is spared where is_same_without_address_from holds.
\* The rows of get_unconfirmed have amount 0: it does not select the amount.
Spared(rpc_data) ==
    {k \in get_unconfirmed \ DOMAIN rpc_data :
        \E e \in NotInserted(rpc_data) : e[1] = k[1] /\ e[1] \in Zero}

\* The rows the reply should have listed and did not.
set_conflicted(rpc_data) == (get_unconfirmed \ DOMAIN rpc_data) \ Spared(rpc_data)

\* Mutant: the confirmations are not compared.
EnoughConfirmed_Any(rpc_data) == {k \in DOMAIN rpc_data : rpc_data[k].block > 0}

\* Entries whose block may become latest_block.
EnoughConfirmed(rpc_data) ==
    {k \in DOMAIN rpc_data : /\ rpc_data[k].confirmations >= ENOUGH_CONFIRMATION_COUNT
                             /\ ~rpc_data[k].conflicted}

\* rpc_data is iterated from its last key to its first: the first one has the last word.
\* Storing it may fail.
set_latest_block(rpc_data) ==
    \/ UNCHANGED latest
    \/ \E k \in EnoughConfirmed(rpc_data) :
            /\ \A other \in EnoughConfirmed(rpc_data) : k[1] <= other[1]
            /\ latest' = rpc_data[k].block

\* The rows the merge writes, of which those of failed are not written.
Written(rpc_data) == DOMAIN rpc_data \ NotInserted(rpc_data)

\* The rows after the merge.
insert_or_update(rpc_data, failed) ==
    rows' = [k \in DOMAIN rows \cup (Written(rpc_data) \ failed) |->
                CASE k \in Written(rpc_data) \ failed -> rpc_data[k]
                  [] k \in set_conflicted(rpc_data) \ failed ->
                        [rows[k] EXCEPT !.conflicted = TRUE]
                  [] OTHER -> rows[k]]

\* The transactions latest_block has gone past: no reply lists them.
Passed == {t \in Txs : wallet[t].height \in 1 .. latest}

\* A whole poll.  Nothing else writes the database meanwhile, so asking, answering and
\* merging are one step.  An empty reply changes nothing.
db_rpc_response(rpc_data) ==
    /\ DOMAIN rpc_data # {}
    /\ \E failed \in SUBSET (Written(rpc_data) \cup set_conflicted(rpc_data)) :
            /\ insert_or_update(rpc_data, failed)
            /\ spoiled' = {k[1] : k \in failed} \cup (spoiled \cap Passed)
            /\ failed # {} => Cardinality(spoiled') <= MaxSpoiled
    /\ set_latest_block(rpc_data)
    /\ merged' = TRUE
    /\ UNCHANGED <<wallet, tip>>

-----------------------------------------------------------------------------
(* The specification *)

Next ==
    \/ \E t \in Txs : Receive(t) \/ Drop(t)
    \/ \E included \in SUBSET Pool : \E double_spent \in SUBSET (Pool \ included) :
            Mine(included, double_spent)
    \/ \E depth \in 1 .. MaxTip : Reorganize(depth)
    \/ \E nameless \in SUBSET {t \in Txs : wallet[t].height = 0} :
            db_rpc_response(parse_transactions_json(listsinceblock(latest, nameless)))

Spec == Init /\ [][Next]_vars

-----------------------------------------------------------------------------
(* Properties *)

Live(t)    == wallet[t].known /\ ~wallet[t].conflicted
RowsOf(t)  == {k \in DOMAIN rows : k[1] = t /\ ~rows[k].conflicted}
Settled(k) == ~rows[k].conflicted /\ rows[k].confirmations = ENOUGH_CONFIRMATION_COUNT

\* A merge makes the rows that count for the balance (conflicted=0) those of the
\* wallet: each transaction that counts has one, whatever it was called in earlier
\* replies, and no other transaction has any.  get_balance then agrees with the
\* wallet, as db_rpc_balance_response expects.  Transactions of amount 0 are left out:
\* their rows may outlive them, and they weigh nothing but their fee.  So is one about
\* which a statement failed, in this merge or before latest_block went past it: the
\* failure spoils no other transaction, and the next merge makes up for it otherwise.
MergedIsExact ==
    merged => \A t \in (Txs \ Zero) \ spoiled :
        IF Live(t) THEN \E k \in Keys : RowsOf(t) = {k} ELSE RowsOf(t) = {}

\* No merge looks at a settled row again, unless its block is listed once more.  So it
\* has to stay true: the transaction is in that block, and no reorganisation the
\* wallet accepts undoes it.
SettledIsFinal ==
    \A k \in DOMAIN rows : Settled(k) =>
        /\ wallet[k[1]] = At(rows[k].block)
        /\ tip - rows[k].block + 1 >= ENOUGH_CONFIRMATION_COUNT

\* Every transaction up to latest_block is stored for good, since no later poll lists it;
\* but for one whose row could not be written by the merge that took latest_block past it.
NothingSkipped ==
    \A t \in Passed \ spoiled :
        <<t, TRUE>> \in DOMAIN rows /\ Settled(<<t, TRUE>>)

\* The two together: what no later merge looks at is stored, and true.
SettledRows == SettledIsFinal /\ NothingSkipped

=============================================================================
