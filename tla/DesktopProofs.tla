----------------------------- MODULE DesktopProofs -----------------------------
(***************************************************************************)
(* Proofs about TransactionMerge, for any set of transactions, any number    *)
(* of confirmations that settle one, and a chain of any length; about        *)
(* WalletLaunch, for any numbers of tries, requests and processes; and about  *)
(* MC_Desktop, which puts the two side by side.                             *)
(*                                                                         *)
(* The merge.  latest_block always lies ENOUGH_CONFIRMATION_COUNT deep        *)
(* (LatestDeep), so no reorganisation reaches it, and every transaction up   *)
(* to it has a settled row (NothingSkipped), but for those whose row could   *)
(* not be written.  A settled row is about a transaction in a block that     *)
(* deep (SettledDeep).  So what a reply does not list is either settled and  *)
(* right, or gone from the wallet.                                          *)
(*                                                                         *)
(* The launch.  OneLaunch is inductive, since what a task posts comes in its   *)
(* place.  FreshToken needs what a task counts on before it reads the token  *)
(* (CountsOn): no process up to `after' runs any more, and past               *)
(* delete_old_token no token of such a process is left.                      *)
(***************************************************************************)
EXTENDS MC_Desktop, SequenceTheorems, TLAPS

\* The wallet holds a transaction in one of three ways, never above the tip.
WalletOK == \A t \in Txs : wallet[t] \in {Unknown, Conflicted} \cup {At(h) : h \in 0 .. tip}

\* SettledIsFinal, with the name the row was stored under.
SettledDeep ==
    \A k \in DOMAIN rows : Settled(k) =>
        /\ k = <<k[1], TRUE>>
        /\ rows[k].block \in 1 .. tip
        /\ wallet[k[1]] = At(rows[k].block)
        /\ tip - rows[k].block + 1 >= ENOUGH_CONFIRMATION_COUNT

LatestDeep == latest > 0 => tip - latest + 1 >= ENOUGH_CONFIRMATION_COUNT

Inv == TypeOK /\ WalletOK /\ SettledDeep /\ LatestDeep /\ NothingSkipped /\ MergedIsExact

-----------------------------------------------------------------------------
(* The reply *)

\* What the fields of the three kinds of wallet transactions are.
LEMMA Kinds ==
    ASSUME WalletOK, TypeOK, NEW t \in Txs
    PROVE  /\ wallet[t].height \in 0 .. tip
           /\ wallet[t].known \in BOOLEAN /\ wallet[t].conflicted \in BOOLEAN
           /\ wallet[t].known /\ ~wallet[t].conflicted => wallet[t] = At(wallet[t].height)
           /\ wallet[t].height > 0 => Live(t)
           /\ ~wallet[t].known => wallet[t].height = 0 /\ ~wallet[t].conflicted
<1>1. CASE wallet[t] = Unknown
  BY <1>1 DEF TypeOK, Heights, Unknown, Live
<1>2. CASE wallet[t] = Conflicted
  BY <1>2 DEF TypeOK, Heights, Conflicted, Live
<1>3. ASSUME NEW h \in 0 .. tip, wallet[t] = At(h)
      PROVE  /\ wallet[t].height = h /\ wallet[t].known = TRUE /\ wallet[t].conflicted = FALSE
  BY <1>3 DEF At
<1> QED  BY <1>1, <1>2, <1>3 DEF WalletOK, Live, TypeOK, Heights

\* The name of a transaction in a reply, and the reply as the browser has it.
EntryKey(t, nameless) == <<t, t \notin nameless>>
Reply(nameless) == parse_transactions_json(listsinceblock(latest, nameless))

\* Each transaction the wallet lists has one entry in the reply, with its confirmations
\* capped, and a name whenever it is in a block.
EntryOK(rpc, nameless, t) ==
    /\ EntryKey(t, nameless) \in DOMAIN rpc
    /\ rpc[EntryKey(t, nameless)] =
         [confirmations |-> Capped(Confirmations(t)),
          conflicted |-> wallet[t].conflicted, block |-> wallet[t].height]
    /\ rpc[EntryKey(t, nameless)] \in Row
    /\ Confirmations(t) \in Int
    /\ Confirmations(t) >= -1
    /\ Live(t) => Confirmations(t) >= 0
    /\ Confirmations(t) > 0 => Live(t) /\ wallet[t].height \in 1 .. tip
    /\ wallet[t].height > 0 => /\ EntryKey(t, nameless) = <<t, TRUE>>
                               /\ Confirmations(t) = tip - wallet[t].height + 1

LEMMA Entries ==
    ASSUME TypeOK, WalletOK,
           NEW nameless \in SUBSET {t \in Txs : wallet[t].height = 0},
           NEW rpc, rpc = Reply(nameless)
    PROVE  /\ DOMAIN rpc = {EntryKey(t, nameless) : t \in Listed(latest)}
           /\ \A t \in Listed(latest) : EntryOK(rpc, nameless, t)
<1> DEFINE json == listsinceblock(latest, nameless)
<1>1. /\ DOMAIN json = {<<t, t \notin nameless>> : t \in Listed(latest)}
      /\ \A t \in Listed(latest) :
            json[<<t, t \notin nameless>>] =
              [confirmations |-> Confirmations(t), conflicted |-> wallet[t].conflicted,
               block |-> wallet[t].height]
  BY DEF listsinceblock
<1> HIDE DEF json
<1>2. /\ DOMAIN rpc = DOMAIN json
      /\ \A k \in DOMAIN json :
            rpc[k] = [json[k] EXCEPT !.confirmations = Capped(json[k].confirmations)]
  BY DEF Reply, parse_transactions_json, json
<1>3. ASSUME NEW t \in Listed(latest), NEW k, k = <<t, t \notin nameless>>
      PROVE  /\ k \in DOMAIN rpc
             /\ rpc[k] = [confirmations |-> Capped(Confirmations(t)),
                          conflicted |-> wallet[t].conflicted, block |-> wallet[t].height]
  <2>1. k \in DOMAIN json
    BY <1>1, <1>3
  <2>2. json[k] = [confirmations |-> Confirmations(t), conflicted |-> wallet[t].conflicted,
                   block |-> wallet[t].height]
    BY <1>1, <1>3
  <2>3. rpc[k] = [json[k] EXCEPT !.confirmations = Capped(json[k].confirmations)]
    BY <1>2, <2>1
  <2> QED  BY <1>2, <2>1, <2>2, <2>3
<1>4. ASSUME NEW t \in Listed(latest)
      PROVE  /\ Confirmations(t) \in Int /\ Confirmations(t) >= -1
             /\ Live(t) => Confirmations(t) >= 0
             /\ Confirmations(t) > 0 => Live(t) /\ wallet[t].height \in 1 .. tip
             /\ wallet[t].height > 0 => t \notin nameless /\ Confirmations(t) = tip - wallet[t].height + 1
             /\ wallet[t].height \in Heights /\ wallet[t].conflicted \in BOOLEAN
  <2>1. t \in Txs /\ wallet[t].known
    BY <1>4 DEF Listed
  <2>2. tip \in Nat /\ tip <= MaxTip /\ MaxTip \in Nat
    BY ConstantsAssumption DEF TypeOK, Heights
  <2> QED  BY <2>1, <2>2, Kinds DEF Confirmations, Live, Heights
<1>5. ASSUME NEW t \in Listed(latest), NEW k, k = <<t, t \notin nameless>>
      PROVE  rpc[k] \in Row
  <2>1. Capped(Confirmations(t)) \in -1 .. ENOUGH_CONFIRMATION_COUNT
    BY <1>4, ConstantsAssumption DEF Capped
  <2>2. wallet[t].height \in Heights /\ wallet[t].conflicted \in BOOLEAN
    BY <1>4
  <2>3. [confirmations |-> Capped(Confirmations(t)), conflicted |-> wallet[t].conflicted,
         block |-> wallet[t].height] \in Row
    BY <2>1, <2>2 DEF Row
  <2> QED  BY <1>3, <1>5, <2>3
<1>6. ASSUME NEW t \in Listed(latest)
      PROVE  EntryOK(rpc, nameless, t)
  <2>1. /\ EntryKey(t, nameless) \in DOMAIN rpc /\ rpc[EntryKey(t, nameless)] \in Row
        /\ rpc[EntryKey(t, nameless)] =
             [confirmations |-> Capped(Confirmations(t)),
              conflicted |-> wallet[t].conflicted, block |-> wallet[t].height]
    BY <1>3, <1>5 DEF EntryKey
  <2>2. wallet[t].height > 0 => EntryKey(t, nameless) = <<t, TRUE>>
    BY <1>4 DEF EntryKey
  <2> QED  BY <1>4, <2>1, <2>2 DEF EntryOK
<1>7. DOMAIN rpc = {EntryKey(t, nameless) : t \in Listed(latest)}
  BY <1>1, <1>2 DEF EntryKey
<1> QED  BY <1>6, <1>7

\* What the cap keeps of the confirmations.
LEMMA Cap ==
    ASSUME NEW n \in Int, n >= -1
    PROVE  /\ Capped(n) = -1 <=> n = -1
           /\ Capped(n) >= ENOUGH_CONFIRMATION_COUNT <=> n >= ENOUGH_CONFIRMATION_COUNT
           /\ n >= ENOUGH_CONFIRMATION_COUNT => Capped(n) = ENOUGH_CONFIRMATION_COUNT
BY ConstantsAssumption DEF Capped

-----------------------------------------------------------------------------
(* A merge *)

LEMMA MergeStep ==
    ASSUME Inv, NEW nameless \in SUBSET {t \in Txs : wallet[t].height = 0},
           db_rpc_response(parse_transactions_json(listsinceblock(latest, nameless)))
    PROVE  Inv'
<1> DEFINE key(t) == EntryKey(t, nameless)
<1> PICK rpc : rpc = Reply(nameless)
  OBVIOUS
<1>1. TypeOK /\ WalletOK
  BY DEF Inv
<1>2. /\ DOMAIN rpc = {key(t) : t \in Listed(latest)}
      /\ \A t \in Listed(latest) : EntryOK(rpc, nameless, t)
  BY <1>1, Entries, Zenon
<1>3. ASSUME NEW t \in Listed(latest)
      PROVE  /\ t \in Txs
             /\ key(t) \in DOMAIN rpc
             /\ rpc[key(t)] \in Row
             /\ rpc[key(t)].conflicted = wallet[t].conflicted
             /\ rpc[key(t)].block = wallet[t].height
             /\ rpc[key(t)].confirmations = Capped(Confirmations(t))
             /\ Confirmations(t) \in Int
             /\ Confirmations(t) >= -1
             /\ Live(t) => Confirmations(t) >= 0
             /\ Confirmations(t) > 0 => Live(t)
             /\ Confirmations(t) > 0 => wallet[t].height \in 1 .. tip
             /\ wallet[t].height > 0 => key(t) = <<t, TRUE>>
             /\ wallet[t].height > 0 => Confirmations(t) = tip - wallet[t].height + 1
  <2> DEFINE entry == [confirmations |-> Capped(Confirmations(t)),
                       conflicted |-> wallet[t].conflicted, block |-> wallet[t].height]
  <2>1. EntryOK(rpc, nameless, t)
    BY <1>2
  <2>2. t \in Txs
    BY DEF Listed
  <2>3. rpc[key(t)] = entry
    BY <2>1 DEF EntryOK
  <2>4. /\ entry.conflicted = wallet[t].conflicted
    OBVIOUS
  <2>5. /\ entry.block = wallet[t].height
        /\ entry.confirmations = Capped(Confirmations(t))
    OBVIOUS
  <2>6. /\ key(t) \in DOMAIN rpc /\ rpc[key(t)] \in Row
        /\ wallet[t].height > 0 => key(t) = <<t, TRUE>>
    BY <2>1 DEF EntryOK
  <2>7. /\ Confirmations(t) \in Int
        /\ Confirmations(t) >= -1
        /\ Live(t) => Confirmations(t) >= 0
        /\ Confirmations(t) > 0 => Live(t)
        /\ Confirmations(t) > 0 => wallet[t].height \in 1 .. tip
        /\ wallet[t].height > 0 => Confirmations(t) = tip - wallet[t].height + 1
    BY <2>1 DEF EntryOK
  <2> HIDE DEF entry, key
  <2> QED  BY <2>2, <2>3, <2>4, <2>5, <2>6, <2>7, Zenon
<1>4. /\ UNCHANGED <<wallet, tip>> /\ merged' = TRUE
      /\ set_latest_block(rpc)
  BY DEF db_rpc_response, Reply
<1>a. PICK failed \in SUBSET (Written(rpc) \cup set_conflicted(rpc)) :
          /\ insert_or_update(rpc, failed)
          /\ spoiled' = {k[1] : k \in failed} \cup (spoiled \cap Passed)
  BY DEF db_rpc_response, Reply
<1> DEFINE kept   == Written(rpc) \ failed
           marked == set_conflicted(rpc) \ failed
<1>5. /\ TypeOK /\ WalletOK /\ SettledDeep /\ LatestDeep /\ NothingSkipped
      /\ ENOUGH_CONFIRMATION_COUNT \in Nat /\ ENOUGH_CONFIRMATION_COUNT > 0
      /\ tip \in Nat /\ tip <= MaxTip /\ MaxTip \in Nat /\ latest \in Nat /\ latest <= MaxTip
  BY ConstantsAssumption DEF Inv, TypeOK, Heights
<1>6. Written(rpc) \subseteq DOMAIN rpc
  BY DEF Written
<1>7. \A t : key(t)[1] = t /\ key(t) \in {<<t, TRUE>>, <<t, FALSE>>}
  BY DEF EntryKey
<1>8. \A t \in Txs : key(t) \in Keys
  BY DEF EntryKey, Keys
<1> HIDE DEF key
<1>9. ENOUGH_CONFIRMATION_COUNT \in Nat /\ ENOUGH_CONFIRMATION_COUNT > 0 /\ tip \in Nat
  BY <1>5
<1>b. \A t : t \notin spoiled' => (t \in Passed => t \notin spoiled)
  BY <1>a
<1>c. \A k : k[1] \notin spoiled' => k \notin failed
  BY <1>a
<1>10. DOMAIN rpc \subseteq Keys
  <2>1. \A t \in Listed(latest) : t \in Txs
    BY DEF Listed
  <2> QED  BY <1>2, <1>8, <2>1
<1>11. /\ DOMAIN rows' = DOMAIN rows \cup kept
       /\ \A k \in DOMAIN rows' :
            rows'[k] = CASE k \in kept -> rpc[k]
                         [] k \in marked -> [rows[k] EXCEPT !.conflicted = TRUE]
                         [] OTHER -> rows[k]
       /\ rows' = [k \in DOMAIN rows' |-> rows'[k]]
  BY <1>a DEF insert_or_update
<1>12. marked \cap kept = {} /\ kept \subseteq Written(rpc) /\ marked \subseteq set_conflicted(rpc)
  BY <1>6 DEF set_conflicted
<1> HIDE DEF kept, marked
<1>13. /\ DOMAIN rows' = DOMAIN rows \cup kept
       /\ \A k \in kept : rows'[k] = rpc[k]
       /\ \A k \in DOMAIN rows \ kept :
             rows'[k] = IF k \in marked THEN [rows[k] EXCEPT !.conflicted = TRUE] ELSE rows[k]
       /\ rows' = [k \in DOMAIN rows' |-> rows'[k]]
  BY <1>11, <1>12

\* A live transaction is written, under its key.
<1>14. ASSUME NEW t \in Listed(latest), Live(t)
      PROVE  key(t) \in Written(rpc)
  <2>1. rpc[key(t)].confirmations # -1
    <3>1. Confirmations(t) \in Int /\ Confirmations(t) >= 0
      BY <1>3, <1>14
    <3>2. Capped(Confirmations(t)) # -1
      BY <3>1, Cap
    <3> QED  BY <1>3, <3>2
  <2> QED  BY <1>3, <1>14, <2>1 DEF Written, NotInserted

\* The settled entries are about transactions that lie deep enough.
<1>15. ASSUME NEW t \in Listed(latest), Confirmations(t) >= ENOUGH_CONFIRMATION_COUNT
      PROVE  /\ Live(t) /\ wallet[t].height \in 1 .. tip /\ key(t) = <<t, TRUE>>
             /\ wallet[t] = At(wallet[t].height)
             /\ Confirmations(t) = tip - wallet[t].height + 1
             /\ rpc[key(t)].confirmations = ENOUGH_CONFIRMATION_COUNT
  <2>1. t \in Txs
    BY DEF Listed
  <2>2. Confirmations(t) > 0 /\ Live(t) /\ wallet[t].height \in 1 .. tip
    <3>1. Confirmations(t) \in Int /\ Confirmations(t) > 0
      <4>1. Confirmations(t) \in Int
        BY <1>3
      <4> QED  BY <1>15, <1>9, <4>1
    <3> QED  BY <1>3, <3>1
  <2>3. wallet[t] = At(wallet[t].height)
    BY <1>5, <2>1, <2>2, Kinds DEF Live
  <2>4. rpc[key(t)].confirmations = ENOUGH_CONFIRMATION_COUNT
    BY <1>3, <1>15, Cap
  <2>5. wallet[t].height > 0
    BY <1>5, <2>2
  <2>6. key(t) = <<t, TRUE>> /\ Confirmations(t) = tip - wallet[t].height + 1
    BY <1>3, <2>5
  <2> QED  BY <2>2, <2>3, <2>4, <2>6
<1>16. ASSUME NEW t \in Listed(latest),
             rpc[key(t)].confirmations >= ENOUGH_CONFIRMATION_COUNT
      PROVE  Confirmations(t) >= ENOUGH_CONFIRMATION_COUNT
  BY <1>3, <1>16, Cap

\* latest_block stays, or moves to the block of an entry that is deep enough.
<1>17. \/ latest' = latest
       \/ \E t \in Listed(latest) : /\ Confirmations(t) >= ENOUGH_CONFIRMATION_COUNT
                                     /\ latest' = wallet[t].height
  <2>1. CASE latest' = latest
    BY <2>1
  <2>2. CASE latest' # latest
    <3>1. PICK k \in EnoughConfirmed(rpc) : latest' = rpc[k].block
      BY <1>4, <2>2 DEF set_latest_block
    <3>2. PICK t \in Listed(latest) : k = key(t)
      BY <1>2 DEF EnoughConfirmed
    <3>3. rpc[key(t)].confirmations >= ENOUGH_CONFIRMATION_COUNT
      BY <3>2 DEF EnoughConfirmed
    <3> QED  BY <1>3, <1>16, <3>1, <3>2, <3>3
  <2> QED  BY <2>1, <2>2

<1>18. TypeOK'
  <2>1. rows' \in [DOMAIN rows' -> Row] /\ DOMAIN rows' \subseteq Keys
    <3>1. ASSUME NEW k \in kept
          PROVE  rows'[k] \in Row
      <4>1. PICK t \in Listed(latest) : k = key(t)
        BY <1>2, <1>6, <1>12, <3>1
      <4>2. rpc[key(t)] \in Row
        BY <1>3
      <4> QED  BY <1>13, <3>1, <4>1, <4>2
    <3>2. ASSUME NEW k \in DOMAIN rows \ kept
          PROVE  rows'[k] \in Row
      <4>1. rows[k] \in Row
        BY <1>5 DEF TypeOK
      <4>2. [rows[k] EXCEPT !.conflicted = TRUE] \in Row
        BY <4>1 DEF Row
      <4> QED  BY <1>13, <4>1, <4>2
    <3> QED  BY <1>5, <1>6, <1>12, <1>13, <1>10, <3>1, <3>2 DEF TypeOK
  <2>2. latest' \in Heights
    <3>1. CASE latest' = latest
      BY <1>5, <3>1 DEF Heights
    <3>2. ASSUME NEW t \in Listed(latest), Confirmations(t) >= ENOUGH_CONFIRMATION_COUNT,
                 latest' = wallet[t].height
          PROVE  latest' \in Heights
      <4>1. wallet[t].height \in 1 .. tip
        BY <1>15, <3>2
      <4> QED  BY <1>5, <3>2, <4>1 DEF Heights
    <3> QED  BY <1>17, <3>1, <3>2
  <2>3. spoiled' \in SUBSET Txs
    <3>1. failed \subseteq Keys
      BY <1>5, <1>6, <1>10 DEF set_conflicted, get_unconfirmed, TypeOK
    <3>2. \A k \in failed : k[1] \in Txs
      BY <3>1 DEF Keys
    <3> QED  BY <1>a, <3>2 DEF Passed
  <2> QED  BY <1>4, <1>5, <2>1, <2>2, <2>3 DEF TypeOK
<1>19. WalletOK'
  BY <1>4, <1>5 DEF WalletOK
<1>20. LatestDeep'
  BY <1>4, <1>5, <1>15, <1>17 DEF LatestDeep

\* A row is settled after the merge because its entry is, or because it was before.
<1>21. ASSUME NEW k \in DOMAIN rows', Settled(k)'
       PROVE  /\ k = <<k[1], TRUE>>
              /\ rows'[k].block \in 1 .. tip
              /\ wallet[k[1]] = At(rows'[k].block)
              /\ tip - rows'[k].block + 1 >= ENOUGH_CONFIRMATION_COUNT
  <2>1. CASE k \in kept
    <3>1. PICK t \in Listed(latest) : k = key(t)
      BY <1>2, <1>6, <1>12, <2>1
    <3>2. rpc[key(t)].confirmations >= ENOUGH_CONFIRMATION_COUNT
      BY <1>5, <1>13, <1>21, <2>1, <3>1 DEF Settled
    <3>3. rows'[k].block = wallet[t].height /\ k[1] = t
      BY <1>3, <1>13, <1>7, <2>1, <3>1
    <3> QED  BY <1>5, <1>15, <1>16, <3>1, <3>2, <3>3
  <2>2. CASE k \notin kept
    <3>1. k \in DOMAIN rows /\ rows[k] \in Row
      BY <1>5, <1>13, <2>2 DEF TypeOK
    <3>2. rows'[k] = rows[k]
      BY <1>13, <1>21, <2>2, <3>1 DEF Settled, Row
    <3>3. Settled(k)
      BY <1>21, <3>2 DEF Settled
    <3> QED  BY <1>5, <3>1, <3>2, <3>3 DEF SettledDeep
  <2> QED  BY <2>1, <2>2
<1>22. SettledDeep'
  BY <1>4, <1>21 DEF SettledDeep

\* A row that was settled stays so, unless its transaction is listed.
<1>23. ASSUME NEW k \in DOMAIN rows, Settled(k), k[1] \notin Listed(latest)
       PROVE  k \in DOMAIN rows' /\ rows'[k] = rows[k]
  <2>1. k \notin kept
    BY <1>2, <1>6, <1>12, <1>23, <1>7
  <2>2. k \notin marked
    BY <1>5, <1>12, <1>23 DEF set_conflicted, get_unconfirmed, Settled
  <2> QED  BY <1>13, <2>1, <2>2
<1>24. ASSUME NEW t \in Txs, wallet[t].height \in 1 .. latest', t \notin spoiled'
       PROVE  <<t, TRUE>> \in DOMAIN rows' /\ Settled(<<t, TRUE>>)'
  <2>1. CASE t \in Listed(latest)
    <3>1. latest' > 0 /\ tip - latest' + 1 >= ENOUGH_CONFIRMATION_COUNT /\ latest' \in Nat
      BY <1>4, <1>18, <1>20, <1>24 DEF LatestDeep, TypeOK, Heights
    <3>2. Confirmations(t) >= ENOUGH_CONFIRMATION_COUNT
      <4>1. wallet[t].height \in Nat /\ wallet[t].height > 0 /\ wallet[t].height <= latest'
        BY <1>24, <3>1
      <4>2. Confirmations(t) = tip - wallet[t].height + 1
        BY <1>3, <2>1, <4>1
      <4>3. \A h, l \in Nat : /\ h <= l /\ tip - l + 1 >= ENOUGH_CONFIRMATION_COUNT
                              => tip - h + 1 >= ENOUGH_CONFIRMATION_COUNT
        BY <1>9
      <4> QED  BY <3>1, <4>1, <4>2, <4>3
    <3>3. key(t) \in kept /\ key(t) = <<t, TRUE>>
      BY <1>7, <1>c, <1>14, <1>15, <1>24, <2>1, <3>2 DEF kept
    <3>4. rows'[<<t, TRUE>>] = rpc[key(t)]
      BY <1>13, <3>3
    <3>5. /\ rpc[key(t)].confirmations = ENOUGH_CONFIRMATION_COUNT
          /\ rpc[key(t)].conflicted = wallet[t].conflicted /\ ~wallet[t].conflicted
      BY <1>3, <1>15, <2>1, <3>2 DEF Live
    <3> QED  BY <1>13, <3>3, <3>4, <3>5 DEF Settled
  <2>2. CASE t \notin Listed(latest)
    <3>1. wallet[t].height \in 1 .. latest
      BY <1>5, <1>24, <2>2, Kinds DEF Listed, Live
    <3>2. <<t, TRUE>> \in DOMAIN rows /\ Settled(<<t, TRUE>>)
      BY <1>5, <1>b, <1>24, <3>1 DEF NothingSkipped, Passed
    <3> QED  BY <1>23, <2>2, <3>2 DEF Settled
  <2> QED  BY <2>1, <2>2
<1>25. NothingSkipped'
  BY <1>4, <1>24 DEF NothingSkipped, Passed

\* What counts for the balance.
<1>26. ASSUME NEW t \in (Txs \ Zero) \ spoiled', NEW k \in DOMAIN rows', k[1] = t, ~rows'[k].conflicted
       PROVE  Live(t) /\ k = IF t \in Listed(latest) THEN key(t) ELSE <<t, TRUE>>
  <2>1. CASE k \in kept
    <3>1. PICK u \in Listed(latest) : k = key(u)
      BY <1>2, <1>6, <1>12, <2>1
    <3>2. u = t /\ rpc[k].conflicted = wallet[t].conflicted
      BY <1>3, <1>26, <1>7, <3>1
    <3> QED  BY <1>13, <1>26, <2>1, <3>1, <3>2 DEF Live, Listed
  <2>2. CASE k \notin kept
    <3>1. k \in DOMAIN rows /\ rows[k] \in Row
      BY <1>5, <1>13, <2>2 DEF TypeOK
    <3>0. k \notin failed /\ k \notin Written(rpc)
      BY <1>c, <1>26, <2>2 DEF kept
    <3>2. k \notin set_conflicted(rpc) /\ rows'[k] = rows[k]
      BY <1>13, <1>26, <2>2, <3>0, <3>1 DEF Row, marked
    <3>3. k \notin get_unconfirmed
      <4>1. k \notin Spared(rpc)
        BY <1>26 DEF Spared
      <4>2. k \in get_unconfirmed => k \notin DOMAIN rpc
        BY <3>0 DEF Written, NotInserted
      <4> QED  BY <3>2, <4>1, <4>2 DEF set_conflicted
    <3>4. Settled(k)
      BY <1>5, <1>26, <3>1, <3>2, <3>3 DEF get_unconfirmed, Settled, Row
    <3>5. /\ k = <<t, TRUE>> /\ wallet[t] = At(rows[k].block) /\ rows[k].block \in 1 .. tip
      BY <1>5, <1>26, <3>1, <3>4 DEF SettledDeep
    <3>6. Live(t) /\ wallet[t].height > 0
      BY <1>5, <3>5 DEF At, Live
    <3>7. t \in Listed(latest) => key(t) = <<t, TRUE>>
      BY <1>3, <3>6
    <3> QED  BY <3>5, <3>6, <3>7
  <2> QED  BY <2>1, <2>2
<1>27. ASSUME NEW t \in (Txs \ Zero) \ spoiled', Live(t)
       PROVE  \E k \in Keys : RowsOf(t)' = {k}
  <2> DEFINE k == IF t \in Listed(latest) THEN key(t) ELSE <<t, TRUE>>
  <2>1. k \in DOMAIN rows' /\ ~rows'[k].conflicted
    <3>1. CASE t \in Listed(latest)
      <4>1. key(t) \in kept
        BY <1>7, <1>c, <1>14, <1>27, <3>1 DEF kept
      <4> QED  BY <1>3, <1>13, <1>27, <3>1, <4>1 DEF Live
    <3>2. CASE t \notin Listed(latest)
      <4>1. wallet[t].height \in 1 .. latest
        BY <1>5, <1>27, <3>2, Kinds DEF Listed, Live
      <4>2. <<t, TRUE>> \in DOMAIN rows /\ Settled(<<t, TRUE>>)
        BY <1>5, <1>b, <1>27, <4>1 DEF NothingSkipped, Passed
      <4> QED  BY <1>23, <3>2, <4>2 DEF Settled
    <3> QED  BY <3>1, <3>2
  <2>2. k \in Keys /\ k[1] = t
    <3>1. key(t) \in Keys /\ key(t)[1] = t
      BY <1>7, <1>8
    <3>2. <<t, TRUE>> \in Keys /\ <<t, TRUE>>[1] = t
      BY DEF Keys
    <3> QED  BY <3>1, <3>2
  <2>3. RowsOf(t)' = {k}
    BY <1>26, <2>1, <2>2 DEF RowsOf
  <2> QED  BY <2>2, <2>3
<1>28. ASSUME NEW t \in (Txs \ Zero) \ spoiled', ~Live(t)
       PROVE  RowsOf(t)' = {}
  BY <1>26, <1>28 DEF RowsOf
<1>29. MergedIsExact'
  BY <1>4, <1>27, <1>28 DEF MergedIsExact, Live
<1> QED  BY <1>18, <1>19, <1>20, <1>22, <1>25, <1>29 DEF Inv

-----------------------------------------------------------------------------
(* The wallet *)

\* What a step of the wallet may do: it adds to the chain, and leaves alone the
\* transactions of the blocks that are ENOUGH_CONFIRMATION_COUNT deep.
Deep(t) == wallet[t].height > 0 /\ tip - wallet[t].height + 1 >= ENOUGH_CONFIRMATION_COUNT

LEMMA WalletInv ==
    ASSUME Inv, WalletStep, tip' \in tip .. MaxTip,
           wallet' \in [Txs -> {Unknown, Conflicted} \cup {At(h) : h \in 0 .. tip'}],
           \A t \in Txs : Deep(t) => wallet'[t] = wallet[t],
           \A t \in Txs : wallet'[t].height \in 1 .. latest => wallet'[t].height = wallet[t].height
    PROVE  Inv'
<1>1. /\ TypeOK /\ SettledDeep /\ LatestDeep /\ NothingSkipped
      /\ tip \in Nat /\ tip' \in Nat /\ tip <= tip' /\ tip' <= MaxTip /\ MaxTip \in Nat
      /\ latest \in Nat /\ ENOUGH_CONFIRMATION_COUNT \in Nat /\ ENOUGH_CONFIRMATION_COUNT > 0
  BY ConstantsAssumption DEF Inv, TypeOK, Heights
<1>2. rows' = rows /\ latest' = latest /\ merged' = FALSE /\ spoiled' = spoiled
  BY DEF WalletStep
<1>3. TypeOK'
  <2>1. {Unknown, Conflicted} \cup {At(h) : h \in 0 .. tip'} \subseteq WalletTx
    <3>1. Unknown \in WalletTx
      BY <1>1 DEF Unknown, WalletTx, Heights
    <3>2. Conflicted \in WalletTx
      BY <1>1 DEF Conflicted, WalletTx, Heights
    <3>3. ASSUME NEW h \in 0 .. tip'
          PROVE  At(h) \in WalletTx
      <4>1. h \in Heights
        BY <1>1 DEF Heights
      <4> QED  BY <4>1 DEF At, WalletTx
    <3> QED  BY <3>1, <3>2, <3>3
  <2>2. wallet' \in [Txs -> WalletTx]
    BY <2>1
  <2>3. tip' \in Heights
    BY <1>1 DEF Heights
  <2> QED  BY <1>1, <1>2, <2>2, <2>3 DEF TypeOK
<1>4. WalletOK'
  BY DEF WalletOK
<1>5. SettledDeep'
  <2>1. ASSUME NEW k \in DOMAIN rows, Settled(k)
        PROVE  /\ k = <<k[1], TRUE>>
               /\ rows[k].block \in 1 .. tip'
               /\ wallet'[k[1]] = At(rows[k].block)
               /\ tip' - rows[k].block + 1 >= ENOUGH_CONFIRMATION_COUNT
    <3>1. /\ k = <<k[1], TRUE>>
          /\ rows[k].block \in 1 .. tip
          /\ wallet[k[1]] = At(rows[k].block)
          /\ tip - rows[k].block + 1 >= ENOUGH_CONFIRMATION_COUNT
      BY <1>1, <2>1 DEF SettledDeep
    <3>2. k[1] \in Txs
      BY <1>1 DEF TypeOK, Keys
    <3>3. wallet[k[1]].height = rows[k].block
      BY <3>1 DEF At
    <3>4. Deep(k[1])
      BY <1>1, <3>1, <3>3 DEF Deep
    <3>5. wallet'[k[1]] = wallet[k[1]]
      BY <3>2, <3>4
    <3>6. rows[k].block \in 1 .. tip'
      BY <1>1, <3>1
    <3>7. tip' - rows[k].block + 1 >= ENOUGH_CONFIRMATION_COUNT
      BY <1>1, <3>1
    <3> QED  BY <3>1, <3>5, <3>6, <3>7
  <2> QED  BY <1>2, <2>1 DEF SettledDeep, Settled
<1>6. LatestDeep'
  <2>1. latest > 0 => tip - latest + 1 >= ENOUGH_CONFIRMATION_COUNT
    BY <1>1 DEF LatestDeep
  <2>2. latest > 0 => tip' - latest + 1 >= ENOUGH_CONFIRMATION_COUNT
    <3>1. \A a, b, l, e \in Nat : a <= b /\ a - l + 1 >= e => b - l + 1 >= e
      OBVIOUS
    <3> QED  BY <1>1, <2>1, <3>1
  <2> QED  BY <1>2, <2>2 DEF LatestDeep
<1>7. NothingSkipped'
  <2>1. ASSUME NEW t \in Txs, wallet'[t].height \in 1 .. latest, t \notin spoiled
        PROVE  <<t, TRUE>> \in DOMAIN rows /\ Settled(<<t, TRUE>>)
    BY <1>1, <2>1 DEF NothingSkipped, Passed
  <2> QED  BY <1>2, <2>1 DEF NothingSkipped, Passed, Settled
<1>8. MergedIsExact'
  BY <1>2 DEF MergedIsExact
<1> QED  BY <1>3, <1>4, <1>5, <1>6, <1>7, <1>8 DEF Inv

\* A transaction outside the chain takes another place outside it.
LEMMA Replace ==
    ASSUME Inv, NEW t \in Txs, NEW to \in {Unknown, At(0)}, wallet[t].height = 0,
           wallet' = [wallet EXCEPT ![t] = to], UNCHANGED tip, WalletStep
    PROVE  Inv'
<1>1. TypeOK /\ WalletOK /\ tip \in Nat /\ tip <= MaxTip /\ MaxTip \in Nat /\ latest \in Nat
  BY ConstantsAssumption DEF Inv, TypeOK, Heights
<1>2. to.height = 0 /\ to \in {Unknown} \cup {At(h) : h \in 0 .. tip}
  <2>1. 0 \in 0 .. tip
    BY <1>1
  <2>2. Unknown.height = 0 /\ At(0).height = 0
    BY DEF Unknown, At
  <2> QED  BY <2>1, <2>2
<1>3. \A u \in Txs : wallet'[u] = IF u = t THEN to ELSE wallet[u]
  BY <1>1 DEF TypeOK
<1>4. wallet' \in [Txs -> {Unknown, Conflicted} \cup {At(h) : h \in 0 .. tip}]
  <2>1. \A u \in Txs : wallet[u] \in {Unknown, Conflicted} \cup {At(h) : h \in 0 .. tip}
    BY <1>1 DEF WalletOK
  <2> QED  BY <1>1, <1>2, <1>3, <2>1 DEF TypeOK
<1>5. \A u \in Txs : Deep(u) => wallet'[u] = wallet[u]
  BY <1>3 DEF Deep
<1>6. \A u \in Txs : wallet'[u].height \in 1 .. latest => wallet'[u].height = wallet[u].height
  BY <1>1, <1>2, <1>3
<1>7. tip' \in tip .. MaxTip
  BY <1>1
<1> QED  BY <1>4, <1>5, <1>6, <1>7, WalletInv

LEMMA MineStep ==
    ASSUME Inv, NEW included \in SUBSET Pool, NEW double_spent \in SUBSET (Pool \ included),
           Mine(included, double_spent)
    PROVE  Inv'
<1>1. /\ TypeOK /\ WalletOK /\ LatestDeep /\ tip \in Nat /\ MaxTip \in Nat /\ latest \in Nat
      /\ ENOUGH_CONFIRMATION_COUNT \in Nat /\ ENOUGH_CONFIRMATION_COUNT > 0
  BY ConstantsAssumption DEF Inv, TypeOK, Heights
<1>2. WalletStep /\ tip' = tip + 1 /\ tip < MaxTip
  BY DEF Mine
<1>3. /\ wallet' = [t \in Txs |-> wallet'[t]]
      /\ \A t \in Txs : wallet'[t] = CASE t \in included     -> At(tip + 1)
                                      [] t \in double_spent -> Conflicted
                                      [] OTHER              -> wallet[t]
  BY DEF Mine
<1>4. \A t \in Txs : \/ wallet'[t] = wallet[t]
                     \/ t \in Pool /\ wallet'[t] = At(tip + 1)
                     \/ t \in Pool /\ wallet'[t] = Conflicted
  BY <1>3
<1>5. latest <= tip
  BY <1>1 DEF LatestDeep
<1>6. \A t \in Pool : wallet[t].height = 0
  BY DEF Pool, At
<1>7. At(tip + 1).height = tip + 1 /\ Conflicted.height = 0
  BY DEF At, Conflicted
<1>8. wallet' \in [Txs -> {Unknown, Conflicted} \cup {At(h) : h \in 0 .. tip'}]
  <2>1. \A t \in Txs : wallet[t] \in {Unknown, Conflicted} \cup {At(h) : h \in 0 .. tip}
    BY <1>1 DEF WalletOK
  <2>2. 0 .. tip \subseteq 0 .. tip' /\ tip + 1 \in 0 .. tip'
    BY <1>1, <1>2
  <2>3. \A t \in Txs : wallet'[t] \in {Unknown, Conflicted} \cup {At(h) : h \in 0 .. tip'}
    BY <1>4, <2>1, <2>2
  <2> QED  BY <1>3, <2>3
<1>9. \A t \in Txs : Deep(t) => wallet'[t] = wallet[t]
  BY <1>4, <1>6 DEF Deep
<1>10. \A t \in Txs : wallet'[t].height \in 1 .. latest => wallet'[t].height = wallet[t].height
  BY <1>1, <1>4, <1>5, <1>7
<1>11. tip' \in tip .. MaxTip
  BY <1>1, <1>2
<1> QED  BY <1>2, <1>8, <1>9, <1>10, <1>11, WalletInv

LEMMA ReorganizeStep ==
    ASSUME Inv, NEW depth \in 1 .. MaxTip, Reorganize(depth)
    PROVE  Inv'
<1>1. /\ TypeOK /\ WalletOK /\ LatestDeep /\ tip \in Nat /\ MaxTip \in Nat /\ latest \in Nat
      /\ ENOUGH_CONFIRMATION_COUNT \in Nat /\ ENOUGH_CONFIRMATION_COUNT > 0
  BY ConstantsAssumption DEF Inv, TypeOK, Heights
<1>2. /\ WalletStep /\ tip' = tip + 1 /\ tip < MaxTip
      /\ depth < ENOUGH_CONFIRMATION_COUNT /\ depth <= tip /\ depth \in Nat /\ depth > 0
  BY <1>1 DEF Reorganize
<1> DEFINE moved == {t \in Txs : wallet[t].known
                                 /\ (wallet[t].height = 0 \/ wallet[t].height > tip - depth)}
           places == {Conflicted, At(0)} \cup {At(h) : h \in tip - depth + 1 .. tip + 1}
<1>3. PICK placed \in [moved -> places] :
          wallet' = [t \in Txs |-> IF t \in DOMAIN placed THEN placed[t] ELSE wallet[t]]
  BY DEF Reorganize
<1>4. \A t \in Txs : \/ t \notin moved /\ wallet'[t] = wallet[t]
                     \/ t \in moved /\ wallet'[t] \in places
  BY <1>3
<1>5. latest > 0 => latest < tip - depth + 1
  BY <1>1, <1>2 DEF LatestDeep
<1>6. \A p \in places : p.height \in {0} \cup (tip - depth + 1 .. tip + 1)
  BY DEF At, Conflicted
<1>7. \A p \in places : p \in {Unknown, Conflicted} \cup {At(h) : h \in 0 .. tip'}
  <2>1. (tip - depth + 1 .. tip + 1) \subseteq 0 .. tip' /\ 0 \in 0 .. tip'
    BY <1>1, <1>2
  <2> QED  BY <2>1
<1>8. \A t \in moved : ~Deep(t)
  <2>1. SUFFICES ASSUME NEW t \in moved, Deep(t) PROVE FALSE
    OBVIOUS
  <2>2. wallet[t].height \in 0 .. tip
    BY <1>1, Kinds
  <2> QED  BY <1>1, <1>2, <2>1, <2>2 DEF Deep
<1> HIDE DEF moved, places
<1>9. wallet' \in [Txs -> {Unknown, Conflicted} \cup {At(h) : h \in 0 .. tip'}]
  <2>1. \A t \in Txs : wallet[t] \in {Unknown, Conflicted} \cup {At(h) : h \in 0 .. tip}
    BY <1>1 DEF WalletOK
  <2>2. 0 .. tip \subseteq 0 .. tip'
    BY <1>1, <1>2
  <2>3. \A t \in Txs : wallet'[t] \in {Unknown, Conflicted} \cup {At(h) : h \in 0 .. tip'}
    BY <1>4, <1>7, <2>1, <2>2
  <2> QED  BY <1>3, <2>3
<1>10. \A t \in Txs : Deep(t) => wallet'[t] = wallet[t]
  BY <1>4, <1>8
<1>11. \A t \in Txs : wallet'[t].height \in 1 .. latest => wallet'[t].height = wallet[t].height
  <2>1. SUFFICES ASSUME NEW t \in Txs, wallet'[t].height \in 1 .. latest, t \in moved
                 PROVE  FALSE
    BY <1>4
  <2>2. wallet'[t].height \in {0} \cup (tip - depth + 1 .. tip + 1)
    BY <1>4, <1>6, <2>1
  <2> QED  BY <1>1, <1>2, <1>5, <2>1, <2>2
<1>12. tip' \in tip .. MaxTip
  BY <1>1, <1>2
<1> QED  BY <1>2, <1>9, <1>10, <1>11, <1>12, WalletInv

-----------------------------------------------------------------------------
(* The theorems *)

LEMMA InitInv == Init => Inv
<1> SUFFICES ASSUME Init PROVE Inv
  OBVIOUS
<1>1. 0 \in Heights /\ \A t \in Txs : wallet[t] = Unknown
  BY ConstantsAssumption DEF Init, Heights
<1>2. DOMAIN rows = {}
  BY DEF Init
<1>3. TypeOK
  <2>1. Unknown \in WalletTx
    BY <1>1 DEF Unknown, WalletTx
  <2>2. rows \in [DOMAIN rows -> Row]
    BY <1>2 DEF Init
  <2> QED  BY <1>1, <1>2, <2>1, <2>2 DEF Init, TypeOK
<1>4. WalletOK
  BY <1>1 DEF WalletOK
<1>5. SettledDeep
  BY <1>2 DEF SettledDeep
<1>6. LatestDeep /\ NothingSkipped /\ MergedIsExact
  <2>1. latest = 0 /\ merged = FALSE
    BY DEF Init
  <2> QED  BY <2>1 DEF LatestDeep, NothingSkipped, Passed, MergedIsExact
<1> QED  BY <1>3, <1>4, <1>5, <1>6 DEF Inv

LEMMA NextInv == Inv /\ [Next]_vars => Inv'
<1> SUFFICES ASSUME Inv, [Next]_vars PROVE Inv'
  OBVIOUS
<1>1. ASSUME NEW t \in Txs, Receive(t) PROVE Inv'
  <2>1. wallet[t].height = 0
    BY <1>1 DEF Receive, Unknown
  <2> QED  BY <1>1, <2>1, Replace DEF Receive
<1>2. ASSUME NEW t \in Txs, Drop(t) PROVE Inv'
  <2>1. wallet[t].height = 0
    BY <1>2 DEF Drop, At, Conflicted
  <2> QED  BY <1>2, <2>1, Replace DEF Drop
<1>3. ASSUME NEW included \in SUBSET Pool, NEW double_spent \in SUBSET (Pool \ included),
             Mine(included, double_spent)
      PROVE  Inv'
  BY <1>3, MineStep
<1>4. ASSUME NEW depth \in 1 .. MaxTip, Reorganize(depth)
      PROVE  Inv'
  BY <1>4, ReorganizeStep
<1>5. ASSUME NEW nameless \in SUBSET {t \in Txs : wallet[t].height = 0},
             db_rpc_response(parse_transactions_json(listsinceblock(latest, nameless)))
      PROVE  Inv'
  BY <1>5, MergeStep
<1>6. CASE UNCHANGED vars
  <2>1. UNCHANGED <<wallet, tip, rows, latest, merged, spoiled>>
    BY <1>6 DEF vars
  <2>2. TypeOK' /\ WalletOK' /\ LatestDeep'
    BY <2>1 DEF Inv, TypeOK, WalletOK, LatestDeep
  <2>3. SettledDeep' /\ NothingSkipped'
    BY <2>1 DEF Inv, SettledDeep, NothingSkipped, Passed, Settled
  <2>4. MergedIsExact'
    BY <2>1 DEF Inv, MergedIsExact, Live, RowsOf
  <2> QED  BY <2>2, <2>3, <2>4 DEF Inv
<1> QED  BY <1>1, <1>2, <1>3, <1>4, <1>5, <1>6 DEF Next

LEMMA InvHolds == Spec => []Inv
BY InitInv, NextInv, PTL DEF Spec

\* The types of the tables and of the wallet.
THEOREM MergeTypeCorrect == Spec => []TypeOK
<1>1. Inv => TypeOK
  BY DEF Inv
<1> QED  BY <1>1, InvHolds, PTL

\* Every merge leaves exactly the transactions of the wallet counting for the balance,
\* each once, whatever reorganisations, double spends and failed statements came before it,
\* but for the transactions a failed statement was about and no merge has made up for since.
THEOREM MergeIsExact == Spec => []MergedIsExact
<1>1. Inv => MergedIsExact
  BY DEF Inv
<1> QED  BY <1>1, InvHolds, PTL

\* A settled row stays true without another look at it, and latest_block only moves past
\* transactions that are stored for good, or whose row could not be written.
THEOREM SettledRowsKept == Spec => []SettledRows
<1>1. Inv => SettledRows
  BY DEF Inv, SettledDeep, SettledIsFinal, SettledRows
<1> QED  BY <1>1, InvHolds, PTL

-----------------------------------------------------------------------------
(* The launch.                                                             *)

\* The steps that have not waited for a process to end, and those after the token was deleted.
Early == {"wallet_launch", "stop_previous_processes", "wait_process"}
Late  == {"wallet_launch_raw", "LaunchProcess", "read_token"}

\* What task t counts on: the processes up to t.after are gone for good, and once it has gone past
\* delete_old_token so is the token they left.
CountsOn(t) ==
    /\ t.after <= started
    /\ \A p \in processes : p > t.after
    /\ t.step \in Early => t.after = NoToken
    /\ t.step \in Late  => token_file = NoToken \/ token_file > t.after

LaunchInv ==
    /\ LaunchTypeOK /\ token_file <= started
    /\ LaunchIsSound
    /\ \A t \in BagToSet(tasks) : CountsOn(t)

\* What one task posts comes in its place.
LEMMA PostsKeep ==
    ASSUME IsABag(tasks), NEW t \in BagToSet(tasks), NEW next, Posts(t, next)
    PROVE  IsABag(tasks') /\ BagToSet(tasks') \subseteq BagToSet(tasks) \cup next
<1> DEFINE rest == tasks (-) SetToBag({t})
<1>1. /\ DOMAIN rest \subseteq DOMAIN tasks
      /\ \A e \in DOMAIN rest : rest[e] \in Nat /\ rest[e] > 0
      /\ rest = [e \in DOMAIN rest |-> rest[e]]
  <2> DEFINE B == [e \in DOMAIN tasks |-> IF e \in DOMAIN SetToBag({t})
                                          THEN tasks[e] - SetToBag({t})[e] ELSE tasks[e]]
  <2>1. rest = [e \in {d \in DOMAIN B : B[d] > 0} |-> B[e]]
    BY DEF (-)
  <2>2. \A e \in DOMAIN tasks : tasks[e] \in Nat /\ tasks[e] > 0
    BY DEF IsABag
  <2>3. DOMAIN B = DOMAIN tasks /\ \A e \in DOMAIN tasks : B[e] \in Int
    BY <2>2 DEF SetToBag
  <2> HIDE DEF B, rest
  <2> QED
    BY <2>1, <2>3
<1>2. tasks' = rest (+) SetToBag(next)
  BY DEF Posts
<1> HIDE DEF rest
<1>3. /\ DOMAIN tasks' = DOMAIN rest \cup next
      /\ tasks' = [e \in DOMAIN tasks' |-> tasks'[e]]
      /\ \A e \in DOMAIN tasks' : tasks'[e] \in Nat /\ tasks'[e] > 0
  BY <1>1, <1>2 DEF (+), SetToBag
<1> QED
  BY <1>1, <1>3 DEF IsABag, BagToSet

\* What the only task posts is all there is.
LEMMA OnlyPosts ==
    ASSUME OneTask, NEW t \in BagToSet(tasks), NEW next, Posts(t, next)
    PROVE  tasks' = SetToBag(next)
<1>1. tasks = SetToBag({t})
  BY DEF OneTask, SetToBag, BagToSet
<1> DEFINE rest == SetToBag({t}) (-) SetToBag({t})
<1>2. DOMAIN rest = {}
  BY DEF (-), SetToBag
<1>3. tasks' = rest (+) SetToBag(next)
  BY <1>1 DEF Posts
<1> HIDE DEF rest
<1> QED
  BY <1>2, <1>3 DEF (+), SetToBag

\* What a task or a process does to the processes and to the token file.
MachineMoves ==
    \/ UNCHANGED machineVars
    \/ token_file' = NoToken /\ UNCHANGED <<processes, started>>
    \/ /\ started < MaxProcesses /\ started' = started + 1
       /\ processes' = processes \cup {started'} /\ UNCHANGED token_file
    \/ \E p \in processes : /\ processes' \in {processes, processes \ {p}}
                            /\ token_file' \in {token_file, NoToken, p}
                            /\ UNCHANGED started

\* No process that has ended comes back, and a token is that of a process that ran.
LEMMA MachineKeeps ==
    ASSUME LaunchInv, MachineMoves
    PROVE  /\ processes' \subseteq 1 .. started' /\ started' \in Tokens
           /\ token_file' \in Tokens /\ token_file' <= started'
           /\ \A t \in Task : CountsOn(t) => CountsOn(t)'
<1>0. processes \subseteq 1 .. started /\ started \in Tokens /\ token_file \in Tokens
      /\ token_file <= started
  BY DEF LaunchInv, LaunchTypeOK
<1>a. /\ started \in Nat /\ token_file \in Nat /\ MaxProcesses \in Nat /\ started <= MaxProcesses
      /\ \A p \in processes : p \in Nat /\ p >= 1 /\ p <= started
  BY <1>0, LaunchAssumption DEF Tokens
<1>b. started' = started \/ (started < MaxProcesses /\ started' = started + 1)
  BY DEF MachineMoves, machineVars
<1>c. \A p \in processes' : p \in processes \/ (p = started' /\ started' = started + 1)
  BY DEF MachineMoves, machineVars
<1>d. token_file' \in {token_file, NoToken} \cup processes
  BY DEF MachineMoves, machineVars
<1>1. /\ processes' \subseteq 1 .. started' /\ started' \in Tokens
      /\ token_file' \in Tokens /\ token_file' <= started'
  <2>1. started' \in Nat /\ started' >= started /\ started' <= MaxProcesses
    BY <1>a, <1>b
  <2>2. \A p \in processes' : p \in Nat /\ p >= 1 /\ p <= started'
    BY <1>a, <1>c, <2>1
  <2>3. token_file' \in Nat /\ token_file' <= started
    BY <1>0, <1>a, <1>d DEF NoToken
  <2> QED
    BY <1>a, <2>1, <2>2, <2>3 DEF Tokens
<1>2. ASSUME NEW t \in Task, CountsOn(t) PROVE CountsOn(t)'
  <2>1. t.after \in Nat
    BY LaunchAssumption DEF Task, Tokens
  <2>2. t.after <= started' /\ \A p \in processes' : p > t.after
    BY <1>2, <1>a, <1>b, <1>c, <2>1 DEF CountsOn
  <2>3. (t.step \in Late)' => (token_file' = NoToken \/ token_file' > t.after)
    BY <1>2, <1>d DEF CountsOn
  <2> QED
    BY <1>2, <2>2, <2>3 DEF CountsOn, Late, Early, NoToken
<1> QED
  BY <1>1, <1>2

\* A task that posts others.
LEMMA GoesOn ==
    ASSUME LaunchInv, NEW t \in BagToSet(tasks), NEW next \in SUBSET Task,
           Posts(t, next), MachineMoves, UNCHANGED <<managerVars, requests, results>>,
           forked' \in BOOLEAN, forked => forked', forked' \/ \E u \in next : next = {u},
           \A u \in next : CountsOn(u)'
    PROVE  LaunchInv'
<1>1. IsABag(tasks') /\ BagToSet(tasks') \subseteq BagToSet(tasks) \cup next
  BY PostsKeep DEF LaunchInv, LaunchTypeOK
<1>2. BagToSet(tasks) \subseteq Task
  BY DEF LaunchInv, LaunchTypeOK
<1>3. LaunchTypeOK' /\ token_file' <= started'
  BY <1>1, <1>2, MachineKeeps DEF LaunchInv, LaunchTypeOK, managerVars
<1>4. OneLaunch'
  <2> SUFFICES ASSUME ~forked' PROVE OneLaunch'
    BY DEF OneLaunch
  <2>1. t \in DOMAIN tasks /\ tasks # EmptyBag
    BY DEF BagToSet, EmptyBag, SetToBag
  <2>2. wallet_restarting_ /\ OneTask /\ results = <<>>
    BY <2>1 DEF LaunchInv, LaunchIsSound, OneLaunch
  <2>3. PICK u \in next : next = {u}
    OBVIOUS
  <2>4. tasks' = SetToBag({u})
    BY <2>2, <2>3, OnlyPosts
  <2>5. OneTask'
    BY <2>4 DEF OneTask, BagToSet, SetToBag
  <2> QED
    BY <2>2, <2>5 DEF OneLaunch, managerVars
<1>5. FreshToken'
  BY DEF LaunchInv, LaunchIsSound, FreshToken
<1>6. \A u \in BagToSet(tasks') : CountsOn(u)'
  BY <1>1, <1>2, MachineKeeps DEF LaunchInv
<1> QED
  BY <1>3, <1>4, <1>5, <1>6 DEF LaunchInv, LaunchIsSound

\* A task that ends the launch.
LEMMA Ends ==
    ASSUME LaunchInv, NEW t \in BagToSet(tasks), NEW state \in States, NEW token \in Tokens,
           wallet_launch_result(t, state, token), MachineMoves,
           UNCHANGED <<managerVars, requests>>, state = "DS_OK" => token > t.after
    PROVE  LaunchInv'
<1>1. IsABag(tasks') /\ BagToSet(tasks') \subseteq BagToSet(tasks)
  BY PostsKeep DEF LaunchInv, LaunchTypeOK, wallet_launch_result
<1>2. BagToSet(tasks) \subseteq Task
  BY DEF LaunchInv, LaunchTypeOK
<1> DEFINE r == [state |-> state, token |-> token, after |-> t.after]
<1>3. r \in Result /\ r.state = state /\ r.token = token /\ r.after = t.after
  BY <1>2 DEF Result, Task
<1>4. results' = Append(results, r)
  BY DEF wallet_launch_result
<1> HIDE DEF r
<1>5. results \in Seq(Result)
  BY DEF LaunchInv, LaunchTypeOK
<1>6. /\ results' \in Seq(Result) /\ Len(results') = Len(results) + 1
      /\ \A i \in 1 .. Len(results) : results'[i] = results[i]
      /\ results'[Len(results) + 1] = r
  BY <1>3, <1>4, <1>5, AppendProperties
<1>7. LaunchTypeOK' /\ token_file' <= started'
  BY <1>1, <1>2, <1>6, MachineKeeps DEF LaunchInv, LaunchTypeOK, managerVars, wallet_launch_result
<1>8. OneLaunch'
  <2> SUFFICES ASSUME ~forked PROVE OneLaunch'
    BY DEF OneLaunch, wallet_launch_result
  <2>1. t \in DOMAIN tasks /\ tasks # EmptyBag
    BY DEF BagToSet, EmptyBag, SetToBag
  <2>2. wallet_restarting_ /\ OneTask /\ results = <<>>
    BY <2>1 DEF LaunchInv, LaunchIsSound, OneLaunch
  <2>3. tasks' = EmptyBag
    BY <2>2, OnlyPosts DEF wallet_launch_result, EmptyBag
  <2>4. Len(results') = 1
    BY <1>6, <2>2
  <2> QED
    BY <2>2, <2>3, <2>4 DEF OneLaunch, managerVars
<1>9. FreshToken'
  <2>1. Len(results) \in Nat /\ DOMAIN results = 1 .. Len(results)
        /\ DOMAIN results' = 1 .. Len(results) + 1
    BY <1>5, <1>6, LenProperties
  <2>2. ASSUME NEW i \in 1 .. Len(results) + 1, results'[i].state = "DS_OK"
        PROVE  results'[i].token > results'[i].after
    <3>1. CASE i \in 1 .. Len(results)
      BY <1>6, <2>1, <2>2, <3>1 DEF LaunchInv, LaunchIsSound, FreshToken
    <3>2. CASE i = Len(results) + 1
      BY <1>3, <1>6, <2>2, <3>2
    <3> QED  BY <2>1, <3>1, <3>2
  <2> QED
    BY <2>1, <2>2 DEF FreshToken
<1>10. \A u \in BagToSet(tasks') : CountsOn(u)'
  BY <1>1, <1>2, MachineKeeps DEF LaunchInv
<1> QED
  BY <1>7, <1>8, <1>9, <1>10 DEF LaunchInv, LaunchIsSound

\* A task that goes on as one other task.
LEMMA GoesOnAsOne ==
    ASSUME LaunchInv, NEW t \in BagToSet(tasks), NEW u \in Task,
           Continue(t, {u}), MachineMoves, UNCHANGED <<managerVars, requests>>, CountsOn(u)'
    PROVE  LaunchInv'
<1>1. Posts(t, {u}) /\ results' = results /\ forked' = forked
  BY DEF Continue
<1>2. forked \in BOOLEAN
  BY DEF LaunchInv, LaunchTypeOK
<1> QED
  BY <1>1, <1>2, GoesOn

\* ... at another step, or once more.
LEMMA NextStep ==
    ASSUME NEW t \in Task, NEW step \in {"stop_previous_processes", "wait_process", "delete_old_token",
                                         "wallet_launch_raw", "LaunchProcess", "read_token"}
    PROVE  LET u == [t EXCEPT !.step = step, !.iteration = 0]
           IN  u \in Task /\ u.step = step /\ u.after = t.after
BY DEF Task

LEMMA OnceMore ==
    ASSUME NEW t \in Task
    PROVE  LET u == [t EXCEPT !.iteration = @ + 1]
           IN  u \in Task /\ u.step = t.step /\ u.after = t.after
BY DEF Task

LEMMA GoKeeps ==
    ASSUME LaunchInv, NEW t \in BagToSet(tasks),
           NEW step \in {"stop_previous_processes", "wait_process", "delete_old_token",
                         "wallet_launch_raw", "LaunchProcess", "read_token"},
           Go(t, step), MachineMoves, UNCHANGED <<managerVars, requests>>,
           t.step \in Early \/ (t.step \in Late /\ step \in Late)
    PROVE  LaunchInv'
<1>1. t \in Task /\ CountsOn(t)
  BY DEF LaunchInv, LaunchTypeOK
<1> DEFINE u == [t EXCEPT !.step = step, !.iteration = 0]
<1>2. u \in Task /\ u.step = step /\ u.after = t.after
  BY <1>1, NextStep
<1>3. Continue(t, {u})
  BY DEF Go
<1> HIDE DEF u
<1>4. t.after \in Nat /\ token_file \in Nat
  BY <1>1, LaunchAssumption DEF Task, Tokens, LaunchInv, LaunchTypeOK
<1>5. t.step \in Early => t.after = NoToken
  BY <1>1 DEF CountsOn
<1>6. CountsOn(u)
  <2>1. u.step \in Early => u.after = NoToken
    BY <1>2, <1>5 DEF Early, Late
  <2>2. u.step \in Late => token_file = NoToken \/ token_file > u.after
    BY <1>1, <1>2, <1>4, <1>5 DEF NoToken, CountsOn
  <2> QED
    BY <1>1, <1>2, <2>1, <2>2 DEF CountsOn
<1>7. CountsOn(u)'
  BY <1>2, <1>6, MachineKeeps
<1> QED
  BY <1>2, <1>3, <1>7, GoesOnAsOne

LEMMA AgainKeeps ==
    ASSUME LaunchInv, NEW t \in BagToSet(tasks), Again(t), MachineMoves,
           UNCHANGED <<managerVars, requests>>
    PROVE  LaunchInv'
<1>1. t \in Task /\ CountsOn(t)
  BY DEF LaunchInv, LaunchTypeOK
<1> DEFINE u == [t EXCEPT !.iteration = @ + 1]
<1>2. u \in Task /\ u.step = t.step /\ u.after = t.after
  BY <1>1, OnceMore
<1>3. Continue(t, {u})
  BY DEF Again
<1> HIDE DEF u
<1>4. CountsOn(u)'
  BY <1>1, <1>2, MachineKeeps DEF CountsOn
<1> QED
  BY <1>2, <1>3, <1>4, GoesOnAsOne

\* The steps of a launch.
LEMMA TaskKeeps ==
    ASSUME LaunchInv, NEW t \in BagToSet(tasks),
           \/ wallet_launch(t) \/ stop_previous_processes(t) \/ wait_process(t)
           \/ delete_old_token(t) \/ wallet_launch_raw(t) \/ LaunchProcess(t) \/ read_token(t)
    PROVE  LaunchInv'
<1>0. t \in Task /\ CountsOn(t) /\ t.after \in Nat
  BY LaunchAssumption DEF LaunchInv, LaunchTypeOK, Task, Tokens
<1>a. UNCHANGED <<managerVars, requests>>
  BY DEF wallet_launch, stop_previous_processes, wait_process, delete_old_token, wallet_launch_raw,
         LaunchProcess, read_token, Runs
<1>b. NoToken \in Tokens /\ started \in Tokens /\ token_file \in Tokens
  BY LaunchAssumption DEF Tokens, NoToken, LaunchInv, LaunchTypeOK
<1>1. CASE wallet_launch(t)
  <2>1. t.step \in Early /\ MachineMoves
    BY <1>1 DEF wallet_launch, Runs, Early, MachineMoves
  <2>2. t.mode \in Modes
    BY <1>0 DEF Task
  <2>3. \E step \in {"stop_previous_processes", "wait_process", "wallet_launch_raw"} : Go(t, step)
    BY <1>1, <2>2 DEF wallet_launch, Modes
  <2> QED
    BY <1>a, <2>1, <2>3, GoKeeps
<1>2. CASE stop_previous_processes(t)
  <2>1. t.step \in Early /\ MachineMoves
    BY <1>2 DEF stop_previous_processes, Runs, Early, MachineMoves
  <2>2. \E step \in {"wallet_launch_raw", "wait_process"} : Go(t, step)
    BY <1>2 DEF stop_previous_processes
  <2> QED
    BY <1>a, <2>1, <2>2, GoKeeps
<1>3. CASE wait_process(t)
  <2>1. MachineMoves
    BY <1>3 DEF wait_process, MachineMoves
  <2>2. CASE wallet_launch_result(t, "DS_WALLET_PROCESS_STOPPED_WITH_ERROR", NoToken)
    BY <1>a, <1>b, <2>1, <2>2, Ends DEF States
  <2>3. CASE Again(t)
    BY <1>a, <2>1, <2>3, AgainKeeps
  <2>4. CASE processes = {} /\ Continue(t, {[t EXCEPT !.step = "delete_old_token", !.iteration = 0,
                                                     !.after = started]})
    <3>0. PICK after \in Tokens : after = started
      BY <1>b
    <3> DEFINE u == [t EXCEPT !.step = "delete_old_token", !.iteration = 0, !.after = after]
    <3>1. u \in Task /\ u.step = "delete_old_token" /\ u.after = after
      BY <1>0 DEF Task
    <3>a. Continue(t, {u})
      BY <2>4, <3>0
    <3> HIDE DEF u
    <3>2. CountsOn(u)
      BY <1>b, <2>4, <3>0, <3>1, LaunchAssumption DEF CountsOn, Early, Late, Tokens
    <3>3. CountsOn(u)'
      BY <2>1, <3>1, <3>2, MachineKeeps
    <3> QED
      BY <1>a, <2>1, <3>1, <3>3, <3>a, GoesOnAsOne
  <2>5. CASE Go(t, "delete_old_token")
    <3>1. t.step \in Early
      BY <1>3 DEF wait_process, Runs, Early
    <3> QED
      BY <1>a, <2>1, <2>5, <3>1, GoKeeps
  <2> QED
    BY <1>3, <2>2, <2>3, <2>4, <2>5 DEF wait_process
<1>4. CASE delete_old_token(t)
  <2>1. MachineMoves /\ t.step = "delete_old_token" /\ token_file' \in {token_file, NoToken}
    BY <1>4 DEF delete_old_token, MachineMoves, machineVars, Runs
  <2>a. PICK after \in Tokens : after = IF token_file' = NoToken THEN t.after ELSE NoToken
    BY <1>0, <1>b DEF Task
  <2>b. PICK retries \in BOOLEAN :
            retries = (token_file' # NoToken /\ t.iteration <= DELETE_TOKEN_TRIES_CNT)
    OBVIOUS
  <2> DEFINE launch == [t EXCEPT !.step = "wallet_launch_raw", !.iteration = 0, !.after = after]
             retry  == [t EXCEPT !.iteration = @ + 1]
             next   == {launch} \cup (IF retries THEN {retry} ELSE {})
  <2>2. launch \in Task /\ launch.step = "wallet_launch_raw" /\ launch.after = after
    BY <1>0 DEF Task
  <2>3. retry \in Task /\ retry.step = t.step /\ retry.after = t.after
    BY <1>0, OnceMore
  <2>4. Posts(t, next) /\ forked' = (forked \/ retries) /\ results' = results
    <3>1. [t EXCEPT !.step = "wallet_launch_raw", !.iteration = 0,
                    !.after = IF token_file' = NoToken THEN @ ELSE NoToken] = launch
      BY <1>0, <2>a DEF Task
    <3> HIDE DEF launch, retry
    <3> QED
      BY <1>4, <2>b, <3>1 DEF delete_old_token, retry
  <2> HIDE DEF launch, retry
  <2>5. CountsOn(t)'
    BY <1>0, <2>1, MachineKeeps
  <2>6. CountsOn(retry)'
    BY <2>3, <2>5 DEF CountsOn
  <2>7. CountsOn(launch)'
    <3>1. processes' \subseteq 1 .. started' /\ started' \in Nat /\ token_file' \in Nat
      BY <2>1, MachineKeeps, LaunchAssumption DEF Tokens
    <3>2. CASE token_file' = NoToken
      BY <2>2, <2>5, <2>a, <3>2 DEF CountsOn, Early
    <3>3. CASE token_file' # NoToken
      <4>1. launch.after = 0
        BY <2>2, <2>a, <3>3 DEF NoToken
      <4>2. \A p \in processes' : p \in Nat /\ p > 0
        BY <3>1
      <4>3. token_file' = 0 \/ token_file' > 0
        BY <3>1
      <4> QED
        BY <2>2, <3>1, <4>1, <4>2, <4>3 DEF CountsOn, NoToken, Early
    <3> QED  BY <3>2, <3>3
  <2>8. next \in SUBSET Task /\ \A u \in next : CountsOn(u)'
    BY <2>2, <2>3, <2>6, <2>7
  <2>9. /\ forked' \in BOOLEAN /\ (forked => forked')
        /\ forked' \/ \E u \in next : next = {u}
    <3>1. forked \in BOOLEAN
      BY DEF LaunchInv, LaunchTypeOK
    <3>2. CASE retries
      BY <2>4, <3>1, <3>2
    <3>3. CASE ~retries
      BY <2>4, <3>1, <3>3
    <3> QED  BY <3>2, <3>3
  <2> HIDE DEF next
  <2> QED
    BY <1>a, <2>1, <2>4, <2>8, <2>9, GoesOn
<1>5. CASE wallet_launch_raw(t)
  <2>1. t.step \in Late /\ MachineMoves
    BY <1>5 DEF wallet_launch_raw, Runs, Late, MachineMoves
  <2>2. \/ \E state \in {"DS_WALLET_DIR_NOT_FOUND", "DS_WALLET_FILE_NOT_FOUND",
                         "DS_WALLET_PROCESS_STARTED_WITH_ERROR"} :
                wallet_launch_result(t, state, NoToken)
        \/ Again(t) \/ Go(t, "LaunchProcess") \/ Go(t, "read_token")
    BY <1>5 DEF wallet_launch_raw
  <2>3. "LaunchProcess" \in Late /\ "read_token" \in Late
    BY DEF Late
  <2> QED
    BY <1>a, <1>b, <2>1, <2>2, <2>3, Ends, AgainKeeps, GoKeeps DEF States
<1>6. CASE LaunchProcess(t)
  <2>1. t.step \in Late /\ MachineMoves
    BY <1>6 DEF LaunchProcess, Runs, Late, MachineMoves
  <2>2. \/ \E state \in {"DS_WALLET_PROCESS_NOT_FOUND", "DS_WALLET_PROCESS_STARTED_WITH_ERROR"} :
                wallet_launch_result(t, state, NoToken)
        \/ Go(t, "read_token")
    BY <1>6 DEF LaunchProcess
  <2>3. "read_token" \in Late
    BY DEF Late
  <2> QED
    BY <1>a, <1>b, <2>1, <2>2, <2>3, Ends, GoKeeps DEF States
<1>7. CASE read_token(t)
  <2>1. t.step \in Late /\ MachineMoves
    BY <1>7 DEF read_token, Runs, Late, MachineMoves
  <2>2. token_file = NoToken \/ token_file > t.after
    BY <1>0, <2>1 DEF CountsOn
  <2>3. \/ token_file # NoToken /\ wallet_launch_result(t, "DS_OK", token_file)
        \/ wallet_launch_result(t, "DS_WALLET_RPC_TOKEN_ERROR", NoToken)
        \/ Again(t)
    BY <1>7 DEF read_token
  <2> QED
    BY <1>a, <1>b, <2>1, <2>2, <2>3, Ends, AgainKeeps DEF States
<1> QED
  BY <1>1, <1>2, <1>3, <1>4, <1>5, <1>6, <1>7

LEMMA LaunchInvInit == LaunchInit => LaunchInv
<1> SUFFICES ASSUME LaunchInit PROVE LaunchInv
  OBVIOUS
<1>1. BagToSet(EmptyBag) = {} /\ IsABag(EmptyBag)
  BY DEF BagToSet, EmptyBag, SetToBag, IsABag
<1>2. LaunchTypeOK /\ token_file <= started
  <2>1. processes \subseteq 1 .. started /\ token_file <= started
    BY DEF LaunchInit, NoToken
  <2>2. started \in Tokens /\ token_file \in Tokens /\ token_base64_ \in Tokens
        /\ requests \in 0 .. MaxRequests
    BY LaunchAssumption DEF LaunchInit, Tokens, NoToken
  <2>3. results \in Seq(Result)
    BY DEF LaunchInit
  <2> QED
    BY <1>1, <2>1, <2>2, <2>3 DEF LaunchInit, LaunchTypeOK, States
<1>3. LaunchIsSound
  BY DEF LaunchInit, LaunchIsSound, OneLaunch, FreshToken
<1> QED
  BY <1>1, <1>2, <1>3 DEF LaunchInv, LaunchInit

\* A request starts a launch only when there is none.
LEMMA StartKeeps ==
    ASSUME LaunchInv, NEW mode \in Modes, wallet_start(mode)
    PROVE  LaunchInv'
<1> DEFINE t == [step |-> "wallet_launch", mode |-> mode, iteration |-> 0, after |-> NoToken]
<1>1. t \in Task /\ t.step = "wallet_launch" /\ t.after = NoToken
  BY LaunchAssumption DEF Task, Tokens, NoToken
<1>2. tasks' = IF wallet_restarting_ THEN tasks ELSE tasks (+) SetToBag({t})
  BY DEF wallet_start
<1> HIDE DEF t
<1>3. /\ UNCHANGED <<wallet_state_, token_base64_, results, processes, started, token_file, forked>>
      /\ wallet_restarting_' = TRUE /\ requests' = requests + 1 /\ requests < MaxRequests
  BY DEF wallet_start, machineVars
<1>4. IsABag(tasks') /\ BagToSet(tasks') \subseteq BagToSet(tasks) \cup {t}
  <2>1. IsABag(tasks)
    BY DEF LaunchInv, LaunchTypeOK
  <2>2. CASE wallet_restarting_
    BY <1>2, <2>1, <2>2
  <2>3. CASE ~wallet_restarting_
    <3>1. /\ DOMAIN tasks' = DOMAIN tasks \cup {t}
          /\ tasks' = [e \in DOMAIN tasks' |-> tasks'[e]]
          /\ \A e \in DOMAIN tasks' : tasks'[e] \in Nat /\ tasks'[e] > 0
      BY <1>2, <2>1, <2>3 DEF (+), SetToBag, IsABag
    <3> QED
      BY <3>1 DEF IsABag, BagToSet
  <2> QED  BY <2>2, <2>3
<1>5. LaunchTypeOK' /\ token_file' <= started'
  BY <1>1, <1>3, <1>4, LaunchAssumption DEF LaunchInv, LaunchTypeOK
<1>6. OneLaunch'
  <2> SUFFICES ASSUME ~forked PROVE OneLaunch'
    BY <1>3 DEF OneLaunch
  <2>1. CASE wallet_restarting_
    <3>1. tasks' = tasks
      BY <1>2, <2>1
    <3> QED
      BY <1>3, <2>1, <3>1 DEF LaunchInv, LaunchIsSound, OneLaunch, OneTask
  <2>2. CASE ~wallet_restarting_
    <3>1. tasks = EmptyBag /\ results = <<>>
      BY <2>2 DEF LaunchInv, LaunchIsSound, OneLaunch
    <3>2. tasks' = SetToBag({t})
      BY <1>2, <2>2, <3>1 DEF (+), SetToBag, EmptyBag
    <3>3. OneTask'
      BY <3>2 DEF OneTask, BagToSet, SetToBag
    <3> QED
      BY <1>3, <3>1, <3>3 DEF OneLaunch
  <2> QED  BY <2>1, <2>2
<1>7. FreshToken'
  BY <1>3 DEF LaunchInv, LaunchIsSound, FreshToken
<1>8. \A u \in BagToSet(tasks') : CountsOn(u)'
  <2>1. CountsOn(t)
    BY <1>1, LaunchAssumption DEF CountsOn, Late, NoToken, LaunchInv, LaunchTypeOK, Tokens
  <2> QED
    BY <1>3, <1>4, <2>1 DEF LaunchInv, CountsOn
<1> QED
  BY <1>5, <1>6, <1>7, <1>8 DEF LaunchInv, LaunchIsSound

\* The result is taken.
LEMMA TakenKeeps ==
    ASSUME LaunchInv, on_wallet_start
    PROVE  LaunchInv'
<1>1. /\ results \in Seq(Result) /\ results # <<>> /\ results' = Tail(results)
      /\ wallet_restarting_' = FALSE
      /\ wallet_state_' = Head(results).state /\ token_base64_' = Head(results).token
      /\ UNCHANGED <<tasks, processes, started, token_file, requests, forked>>
  BY DEF LaunchInv, LaunchTypeOK, on_wallet_start, machineVars
<1>2. /\ Head(results) \in Result /\ results' \in Seq(Result)
      /\ DOMAIN results = 1 .. Len(results) /\ DOMAIN results' = 1 .. Len(results) - 1
      /\ \A i \in 1 .. Len(results) - 1 : results'[i] = results[i + 1]
      /\ Len(results) \in Nat /\ Len(results') = Len(results) - 1
  BY <1>1, EmptySeq, LenProperties, HeadTailProperties
<1>3. LaunchTypeOK' /\ token_file' <= started'
  BY <1>1, <1>2 DEF LaunchInv, LaunchTypeOK, Result
<1>4. OneLaunch'
  <2> SUFFICES ASSUME ~forked PROVE OneLaunch'
    BY <1>1 DEF OneLaunch
  <2>1. tasks = EmptyBag /\ Len(results) = 1
    BY <1>1 DEF LaunchInv, LaunchIsSound, OneLaunch
  <2>2. results' = <<>>
    BY <1>2, <2>1, EmptySeq
  <2> QED
    BY <1>1, <2>1, <2>2 DEF OneLaunch
<1>5. FreshToken'
  BY <1>2 DEF LaunchInv, LaunchIsSound, FreshToken
<1>6. \A u \in BagToSet(tasks') : CountsOn(u)'
  BY <1>1 DEF LaunchInv, CountsOn
<1> QED
  BY <1>3, <1>4, <1>5, <1>6 DEF LaunchInv, LaunchIsSound

\* The wallet process and the user.
LEMMA ProcessKeeps ==
    ASSUME LaunchInv, MachineMoves, UNCHANGED <<managerVars, tasks, results, requests, forked>>
    PROVE  LaunchInv'
<1>1. LaunchTypeOK' /\ token_file' <= started'
  BY MachineKeeps DEF LaunchInv, LaunchTypeOK, managerVars
<1>2. OneLaunch' /\ FreshToken'
  BY DEF LaunchInv, LaunchIsSound, OneLaunch, OneTask, FreshToken, managerVars
<1>3. \A t \in BagToSet(tasks') : CountsOn(t)'
  BY MachineKeeps DEF LaunchInv, LaunchTypeOK
<1> QED
  BY <1>1, <1>2, <1>3 DEF LaunchInv, LaunchIsSound

LEMMA LaunchInvNext == LaunchInv /\ [LaunchNext]_launchVars => LaunchInv'
<1> SUFFICES ASSUME LaunchInv, [LaunchNext]_launchVars PROVE LaunchInv'
  OBVIOUS
<1>1. CASE \E mode \in Modes : wallet_start(mode)
  BY <1>1, StartKeeps
<1>2. CASE on_wallet_start
  BY <1>2, TakenKeeps
<1>3. CASE PoolStep
  BY <1>3, TaskKeeps DEF PoolStep
<1>4. CASE \E p \in processes : WriteToken(p)
  <2>1. MachineMoves /\ MachineStep
    BY <1>4 DEF WriteToken, MachineMoves, MachineStep
  <2> QED
    BY <2>1, ProcessKeeps DEF MachineStep
<1>5. CASE \E p \in processes : Exit(p)
  <2>1. MachineMoves /\ MachineStep
    BY <1>5 DEF Exit, MachineMoves, MachineStep
  <2> QED
    BY <2>1, ProcessKeeps DEF MachineStep
<1>6. CASE UserStarts
  <2>1. MachineMoves /\ MachineStep
    BY <1>6 DEF UserStarts, MachineMoves, MachineStep
  <2> QED
    BY <2>1, ProcessKeeps DEF MachineStep
<1>7. CASE UNCHANGED launchVars
  <2>1. MachineMoves
    BY <1>7 DEF launchVars, MachineMoves
  <2> QED
    BY <1>7, <2>1, ProcessKeeps DEF launchVars
<1> QED
  BY <1>1, <1>2, <1>3, <1>4, <1>5, <1>6, <1>7 DEF LaunchNext

\* Every variable of the launch keeps its type, so the tokens are those of processes that ran
\* (wallet_launch_helper.cc).
THEOREM LaunchTypeCorrect == LaunchSpec => []LaunchTypeOK
<1>1. LaunchInv => LaunchTypeOK
  BY DEF LaunchInv
<1> QED
  BY <1>1, LaunchInvInit, LaunchInvNext, PTL DEF LaunchSpec

\* wallet_restarting_ is set exactly while one launch is under way, unless delete_old_token has gone
\* on twice, and a launch that has seen the old processes end and the token file deleted reports the
\* token of a later one, however many requests, processes and retries there are.
THEOREM LaunchStaysSound == LaunchSpec => []LaunchIsSound
<1>1. LaunchInv => LaunchIsSound
  BY DEF LaunchInv
<1> QED
  BY <1>1, LaunchInvInit, LaunchInvNext, PTL DEF LaunchSpec

-----------------------------------------------------------------------------
(* Both parts.  A behaviour is about one of them, and a step of the other is none of this one.   *)

LEMMA PartsRun == MCFairSpec => Spec /\ LaunchSpec
<1>1. MCInit => Init /\ LaunchInit
  BY DEF MCInit
<1>2. [MCNext]_<<part, vars, launchVars>> => [Next]_vars
  BY DEF MCNext
<1>3. [MCNext]_<<part, vars, launchVars>> => [LaunchNext]_launchVars
  BY DEF MCNext
<1> QED
  BY <1>1, <1>2, <1>3, PTL DEF MCFairSpec, Spec, LaunchSpec

\* Every variable of the merge and of the launch keeps its type (transaction_model.cc,
\* wallet_launch_helper.cc).
THEOREM DesktopTypesCorrect == MCFairSpec => []TypesOK
<1>1. TypeOK /\ LaunchTypeOK => TypesOK
  BY DEF TypesOK
<1> QED
  BY <1>1, PartsRun, MergeTypeCorrect, LaunchTypeCorrect, PTL

=============================================================================
