------------------------ MODULE WalletSessionProofs ------------------------
(***************************************************************************)
(* Proofs about WalletSession, for any number of logins, launches, failed   *)
(* guid requests and restarts of the browser.                              *)
(***************************************************************************)
EXTENDS WalletSession, SequenceTheorems, TLAPS

-----------------------------------------------------------------------------
(* What the observers are told *)

Notice == [state : DataStates, auth : AuthStates]

AllFine(auth, wallet, init) == auth = "AUTH_LOGGED" /\ wallet = "DS_OK" /\ init = "DS_OK"

InitStates == {"DS_NONE", "DS_OK"} \cup InitErrors
WalletStates == {"DS_NONE", "DS_OK"} \cup LaunchErrors

\* The last of two runs of notices is the last of the second, if it has one.
LEMMA LastOfConcat ==
    ASSUME NEW S, NEW s \in Seq(S), NEW t \in Seq(S), t # <<>>,
           NEW n, n = s \o t
    PROVE  n \in Seq(S) /\ n # <<>> /\ n[Len(n)] = t[Len(t)]
<1>1. /\ n \in Seq(S) /\ Len(n) = Len(s) + Len(t)
      /\ Len(s) \in Nat /\ Len(t) \in Nat \ {0}
  BY ConcatProperties, EmptySeq
<1>2. \A i \in 1 .. Len(n) : n[i] = IF i <= Len(s) THEN s[i] ELSE t[i - Len(s)]
  BY ConcatProperties
<1>3. n # <<>>
  BY <1>1, EmptySeq
<1>4. Len(n) \in 1 .. Len(n) /\ ~(Len(n) <= Len(s)) /\ Len(n) - Len(s) = Len(t)
  BY <1>1
<1>5. n[Len(n)] = t[Len(t)]
  BY <1>2, <1>4
<1> QED  BY <1>1, <1>3, <1>5

\* The last notice is DS_OK exactly when all is fine, and there is none only while a part
\* of the start is not over yet.
LEMMA NoticesTell ==
    ASSUME NEW auth \in AuthStates, NEW wallet \in WalletStates, NEW init \in InitStates,
           init = "DS_OK" => auth # "AUTH_UNDEFINED",
           NEW n, n = Notices(auth, wallet, init)
    PROVE  /\ n \in Seq(Notice)
           /\ n = <<>> => "DS_NONE" \in {wallet, init}
           /\ n # <<>> => n[Len(n)].state = "DS_OK" <=> AllFine(auth, wallet, init)
<1> DEFINE tell(state) == <<[state |-> state, auth |-> auth]>>
           unknown == IF auth = "AUTH_UNDEFINED" THEN tell("DS_NONE") ELSE <<>>
           first == IF auth = "AUTH_NOT_LOGGED" THEN tell("DS_AUTH_COOKIE_ERROR")
                    ELSE IF wallet \notin Fine THEN tell(wallet)
                    ELSE IF init \notin Fine THEN tell(init)
                    ELSE IF wallet = "DS_OK" /\ init = "DS_OK" THEN tell("DS_OK")
                    ELSE <<>>
           says(s) == s = "DS_OK" <=> auth # "AUTH_NOT_LOGGED" /\ wallet = "DS_OK" /\ init = "DS_OK"
<1>1. n = unknown \o first
  BY DEF Notices
<1>2. \/ unknown = <<>> /\ auth # "AUTH_UNDEFINED"
      \/ unknown = tell("DS_NONE") /\ auth = "AUTH_UNDEFINED"
  <2> HIDE DEF tell
  <2> QED  OBVIOUS
<1>3. \/ first = <<>> /\ "DS_NONE" \in {wallet, init}
      \/ \E s \in DataStates : first = tell(s) /\ says(s)
  BY DEF Fine, InitStates, WalletStates, DataStates, InitErrors, LaunchErrors
<1>4. /\ \A s \in DataStates : /\ tell(s) \in Seq(Notice) /\ tell(s) # <<>>
                               /\ Len(tell(s)) = 1 /\ tell(s)[1].state = s
      /\ "DS_NONE" \in DataStates
  BY DEF Notice, DataStates
<1> HIDE DEF tell, unknown, first
<1>5. unknown \in Seq(Notice)
  <2>1. tell("DS_NONE") \in Seq(Notice)
    BY <1>4
  <2>2. <<>> \in Seq(Notice)
    OBVIOUS
  <2> QED  BY <1>2, <2>1, <2>2
<1>6. CASE first = <<>> /\ "DS_NONE" \in {wallet, init}
  <2>1. n = unknown
    BY <1>1, <1>5, <1>6, ConcatEmptySeq
  <2>2. ~AllFine(auth, wallet, init)
    BY <1>6 DEF AllFine
  <2> QED  BY <2>1, <2>2, <1>2, <1>4, <1>5, <1>6
<1>7. ASSUME NEW s \in DataStates, first = tell(s), says(s)
      PROVE  /\ n \in Seq(Notice) /\ n # <<>>
             /\ n[Len(n)].state = "DS_OK" <=> AllFine(auth, wallet, init)
  <2>1. first \in Seq(Notice) /\ first # <<>> /\ first[Len(first)].state = s
    BY <1>4, <1>7
  <2>2. n \in Seq(Notice) /\ n # <<>> /\ n[Len(n)].state = s
    BY <1>1, <1>5, <2>1, LastOfConcat
  <2> QED  BY <1>7, <2>2 DEF AllFine, AuthStates
<1> QED  BY <1>3, <1>6, <1>7

\* The states, and what the observers heard.  The login is known before the startup is
\* over: with it unknown, notify_state_observers would go on to say that all is well.
StatesOK ==
    /\ auth_state_ \in AuthStates /\ init_state_ \in InitStates /\ wallet_state_ \in WalletStates
    /\ init_state_ = "DS_OK" => auth_state_ # "AUTH_UNDEFINED"
    /\ announced \in Seq(Notice) /\ heard \in DataStates

LEMMA AnnounceTells ==
    ASSUME StatesOK,
           auth_state_' \in AuthStates, init_state_' \in InitStates, wallet_state_' \in WalletStates,
           init_state_' = "DS_OK" => auth_state_' # "AUTH_UNDEFINED",
           NEW n \in Seq(Notice), Announce(n),
           n = <<>> => /\ ~AllFine(auth_state_, wallet_state_, init_state_)
                       /\ ~AllFine(auth_state_, wallet_state_, init_state_)',
           n # <<>> => n[Len(n)].state = "DS_OK" <=> AllFine(auth_state_, wallet_state_, init_state_)'
    PROVE  StatesOK' /\ (ReadyIsAll => ReadyIsAll')
<1>1. n # <<>> => n[Len(n)] \in Notice
  <2>1. n # <<>> => Len(n) \in 1 .. Len(n)
    BY EmptySeq
  <2> QED  BY <2>1
<1>2. n # <<>> => heard' = n[Len(n)].state /\ heard' \in DataStates
  BY <1>1 DEF Announce, Notice
<1>3. n = <<>> => heard' = heard
  BY DEF Announce
<1>4. announced' = n
  BY DEF Announce
<1>5. StatesOK'
  BY <1>2, <1>3, <1>4 DEF StatesOK
<1>6. ReadyIsAll => ReadyIsAll'
  BY <1>2, <1>3 DEF ReadyIsAll, AllFine
<1> QED  BY <1>5, <1>6

LEMMA SilentTells ==
    ASSUME StatesOK, Silent, UNCHANGED stateVars
    PROVE  StatesOK' /\ (ReadyIsAll => ReadyIsAll')
BY DEF StatesOK, Silent, stateVars, ReadyIsAll

\* Each of the three change_ functions keeps the observers right.
LEMMA ChangeTells ==
    ASSUME StatesOK,
           \/ \E state \in AuthStates \ {"AUTH_UNDEFINED"} : change_auth_state(state)
           \/ \E state \in InitErrors : change_init_state(state)
           \/ \E state \in LaunchErrors \cup {"DS_OK"} : change_wallet_state(state)
    PROVE  StatesOK' /\ (ReadyIsAll => ReadyIsAll')
<1>1. ASSUME NEW state \in AuthStates \ {"AUTH_UNDEFINED"}, change_auth_state(state)
      PROVE  StatesOK' /\ (ReadyIsAll => ReadyIsAll')
  <2> DEFINE n == Notices(state, wallet_state_, init_state_)
  <2>1. /\ auth_state_' = state /\ Announce(n)
        /\ init_state_' = init_state_ /\ wallet_state_' = wallet_state_
    BY <1>1 DEF change_auth_state
  <2>2. /\ n \in Seq(Notice)
        /\ n = <<>> => "DS_NONE" \in {wallet_state_, init_state_}
        /\ n # <<>> => n[Len(n)].state = "DS_OK" <=> AllFine(state, wallet_state_, init_state_)
    BY NoticesTell DEF StatesOK
  <2> HIDE DEF n
  <2>3. AllFine(auth_state_, wallet_state_, init_state_)' = AllFine(state, wallet_state_, init_state_)
    BY <2>1 DEF AllFine
  <2>4. "DS_NONE" \in {wallet_state_, init_state_}
        => /\ ~AllFine(auth_state_, wallet_state_, init_state_)
           /\ ~AllFine(state, wallet_state_, init_state_)
    BY DEF AllFine
  <2> QED  BY <2>1, <2>2, <2>3, <2>4, AnnounceTells DEF StatesOK
<1>2. ASSUME NEW state \in InitErrors, change_init_state(state)
      PROVE  StatesOK' /\ (ReadyIsAll => ReadyIsAll')
  <2> DEFINE n == Notices(auth_state_, wallet_state_, state)
  <2>1. /\ init_state_' = state /\ Announce(n)
        /\ auth_state_' = auth_state_ /\ wallet_state_' = wallet_state_
    BY <1>2 DEF change_init_state
  <2>2. state \in InitStates /\ state # "DS_OK" /\ state # "DS_NONE"
    BY DEF InitStates, InitErrors
  <2>3. /\ n \in Seq(Notice)
        /\ n = <<>> => "DS_NONE" \in {wallet_state_, state}
        /\ n # <<>> => n[Len(n)].state = "DS_OK" <=> AllFine(auth_state_, wallet_state_, state)
    BY <2>2, NoticesTell DEF StatesOK
  <2> HIDE DEF n
  <2>4. AllFine(auth_state_, wallet_state_, init_state_)' = AllFine(auth_state_, wallet_state_, state)
    BY <2>1 DEF AllFine
  <2>5. "DS_NONE" \in {wallet_state_, state}
        => /\ ~AllFine(auth_state_, wallet_state_, init_state_)
           /\ ~AllFine(auth_state_, wallet_state_, state)
    BY <2>2 DEF AllFine
  <2> QED  BY <2>1, <2>2, <2>3, <2>4, <2>5, AnnounceTells DEF StatesOK
<1>3. ASSUME NEW state \in LaunchErrors \cup {"DS_OK"}, change_wallet_state(state)
      PROVE  StatesOK' /\ (ReadyIsAll => ReadyIsAll')
  <2> DEFINE n == Notices(auth_state_, state, init_state_)
  <2>1. /\ wallet_state_' = state /\ Announce(n)
        /\ auth_state_' = auth_state_ /\ init_state_' = init_state_
    BY <1>3 DEF change_wallet_state
  <2>2. state \in WalletStates /\ state # "DS_NONE"
    BY DEF WalletStates, LaunchErrors
  <2>3. /\ n \in Seq(Notice)
        /\ n = <<>> => "DS_NONE" \in {state, init_state_}
        /\ n # <<>> => n[Len(n)].state = "DS_OK" <=> AllFine(auth_state_, state, init_state_)
    BY <2>2, NoticesTell DEF StatesOK
  <2> HIDE DEF n
  <2>4. AllFine(auth_state_, wallet_state_, init_state_)' = AllFine(auth_state_, state, init_state_)
    BY <2>1 DEF AllFine
  <2>5. "DS_NONE" \in {state, init_state_}
        => /\ ~AllFine(auth_state_, wallet_state_, init_state_)
           /\ ~AllFine(auth_state_, state, init_state_)
    BY <2>2 DEF AllFine
  <2> QED  BY <2>1, <2>2, <2>3, <2>4, <2>5, AnnounceTells DEF StatesOK
<1> QED  BY <1>1, <1>2, <1>3

-----------------------------------------------------------------------------
(* Types *)

\* Callbacks before the guid of this start was taken from the server.
BeforeGuid == {"on_get_hardware_info", "set_session_cookie", "on_set_session_cookie",
               "process_guid", "on_get_guid_from_cookie", "send_new_guid_request",
               "on_guid_request_response"}

\* Each start takes one guid at most, and the startup chain runs before anything is known.
ChainInv ==
    /\ used.restart <= MaxRestarts
    /\ used.guid <= used.restart + 1
    /\ callback \in BeforeGuid => used.guid <= used.restart
    /\ callback # "none" => init_state_ = "DS_NONE" /\ listener = "none"
    /\ listener # "added" => changes = <<>>
    /\ listener # "none" => auth_state_ # "AUTH_UNDEFINED"

StartInv == TypeOK /\ StatesOK /\ ReadyIsAll /\ ChainInv

LEMMA StartInvInit == Init => StartInv
<1> SUFFICES ASSUME Init PROVE StartInv
  OBVIOUS
<1> USE DEF Init, Started
<1>1. TypeOK
  <2>1. launches \in [Modes -> Nat] /\ results \in Seq(Result) /\ changes \in Seq(Change)
        /\ announced \in Seq([state : DataStates, auth : AuthStates])
    BY DEF FirstLaunch
  <2>2. NoGuid \in Guids
    BY ConstantsAssumption DEF Guids, NoGuid
  <2>3. PICK login \in BOOLEAN : cookies = [login |-> login, guid |-> NoGuid, sign |-> NoGuid]
    OBVIOUS
  <2>4. cookies \in [login : BOOLEAN, guid : Guids, sign : Guids]
    BY <2>2, <2>3
  <2>5. used \in [cookie : Nat, error : Nat, launch : Nat, restart : Nat, guid : Nat]
    OBVIOUS
  <2> QED  BY <2>1, <2>2, <2>4, <2>5 DEF TypeOK, AuthStates, Callbacks, DataStates
<1>2. StatesOK /\ ReadyIsAll
  BY DEF StatesOK, ReadyIsAll, AuthStates, InitStates, WalletStates, DataStates
<1>3. ChainInv
  BY ConstantsAssumption DEF ChainInv, BeforeGuid
<1> QED  BY <1>1, <1>2, <1>3 DEF StartInv

\* What the steps of the chain do to the states.
LEMMA ChainTells ==
    ASSUME StartInv, ChainStep
    PROVE  StatesOK' /\ ReadyIsAll'
<1>1. ASSUME NEW name, Awaits(name)
      PROVE  StatesOK' /\ ReadyIsAll'
  BY <1>1, SilentTells DEF Awaits, StartInv
<1>2. ASSUME NEW state \in InitErrors, Fails(state)
      PROVE  StatesOK' /\ ReadyIsAll'
  BY <1>2, ChangeTells DEF Fails, StartInv
<1>3. ASSUME io_get_auth_cookie
      PROVE  StatesOK' /\ ReadyIsAll'
  <2>1. CASE change_auth_state("AUTH_NOT_LOGGED")
    BY <2>1, ChangeTells DEF StartInv, AuthStates
  <2> QED  BY <1>1, <1>3, <2>1 DEF io_get_auth_cookie
<1>4. InitErrors = {"DS_SESSION_ERROR", "DS_GUID_ERROR"}
  BY DEF InitErrors
<1>5. ASSUME on_get_auth_cookies_list
      PROVE  StatesOK' /\ ReadyIsAll'
  <2>1. init_state_ = "DS_NONE" /\ StatesOK /\ ReadyIsAll
    BY <1>5 DEF on_get_auth_cookies_list, Callback, StartInv, ChainInv
  <2>2. PICK login \in read :
          LET auth == IF login THEN "AUTH_LOGGED" ELSE "AUTH_NOT_LOGGED"
              told == Notices(auth, wallet_state_, init_state_)
          IN  \/ /\ auth_state_' = auth /\ init_state_' = "DS_OK"
                 /\ Announce(told \o Notices(auth, wallet_state_, "DS_OK"))
              \/ /\ auth_state_' = "AUTH_NOT_LOGGED" /\ init_state_' = init_state_
                 /\ Announce(told \o Notices("AUTH_NOT_LOGGED", wallet_state_, init_state_))
    BY <1>5 DEF on_get_auth_cookies_list
  <2> DEFINE first == IF login THEN "AUTH_LOGGED" ELSE "AUTH_NOT_LOGGED"
             told == Notices(first, wallet_state_, init_state_)
             again == Notices(auth_state_', wallet_state_, init_state_')
             n == told \o again
  <2>3. /\ auth_state_' \in {"AUTH_LOGGED", "AUTH_NOT_LOGGED"} /\ first \in {"AUTH_LOGGED", "AUTH_NOT_LOGGED"}
        /\ init_state_' \in {"DS_OK", "DS_NONE"}
        /\ wallet_state_' = wallet_state_
        /\ Announce(n)
    BY <1>5, <2>1, <2>2 DEF on_get_auth_cookies_list
  <2>4. /\ wallet_state_ \in WalletStates
        /\ {"AUTH_LOGGED", "AUTH_NOT_LOGGED"} \subseteq AuthStates \ {"AUTH_UNDEFINED"}
        /\ {"DS_OK", "DS_NONE"} \subseteq InitStates
    BY <2>1 DEF StatesOK, AuthStates, InitStates
  <2>5. /\ told \in Seq(Notice)
        /\ told # <<>> => told[Len(told)].state = "DS_OK" <=> AllFine(first, wallet_state_, init_state_)
    BY <2>1, <2>3, <2>4, NoticesTell
  <2>6. /\ again \in Seq(Notice)
        /\ again = <<>> => "DS_NONE" \in {wallet_state_, init_state_'}
        /\ again # <<>> => again[Len(again)].state = "DS_OK"
                           <=> AllFine(auth_state_', wallet_state_, init_state_')
    BY <2>3, <2>4, NoticesTell
  <2>7. AllFine(auth_state_, wallet_state_, init_state_)' = AllFine(auth_state_', wallet_state_, init_state_')
    BY <2>3 DEF AllFine
  <2> HIDE DEF told, again, first
  <2>8. n \in Seq(Notice)
    BY <2>5, <2>6, ConcatProperties
  <2>9. ~AllFine(first, wallet_state_, init_state_) /\ ~AllFine(auth_state_, wallet_state_, init_state_)
    BY <2>1 DEF AllFine
  <2>10. CASE again = <<>>
    <3>1. n = told
      BY <2>5, <2>10, ConcatEmptySeq
    <3>2. ~AllFine(auth_state_, wallet_state_, init_state_)'
      BY <2>6, <2>7, <2>10 DEF AllFine
    <3> HIDE DEF n
    <3> QED  BY <2>1, <2>3, <2>4, <2>5, <2>8, <2>9, <3>1, <3>2, AnnounceTells
  <2>11. CASE again # <<>>
    <3>1. n # <<>> /\ n[Len(n)] = again[Len(again)]
      BY <2>5, <2>6, <2>11, LastOfConcat
    <3> HIDE DEF n
    <3> QED  BY <2>1, <2>3, <2>4, <2>6, <2>7, <2>8, <2>11, <3>1, AnnounceTells
  <2> QED  BY <2>10, <2>11
<1>6. CASE on_get_hardware_info \/ send_new_guid_request
  BY <1>1, <1>6 DEF on_get_hardware_info, send_new_guid_request
<1>7. CASE set_session_cookie \/ on_set_session_cookie \/ process_guid
  BY <1>1, <1>2, <1>4, <1>7 DEF set_session_cookie, on_set_session_cookie, process_guid
<1>8. CASE on_get_guid_from_cookie
  BY <1>1, <1>3, <1>8 DEF on_get_guid_from_cookie
<1>9. CASE on_guid_request_response
  BY <1>1, <1>2, <1>4, <1>9 DEF on_guid_request_response
<1>10. CASE on_set_guid_cookie_result
  BY <1>1, <1>2, <1>4, <1>10 DEF on_set_guid_cookie_result
<1>11. CASE on_set_guid_sign_cookie_result
  BY <1>2, <1>3, <1>4, <1>11 DEF on_set_guid_sign_cookie_result
<1>12. CASE StoreReads
  BY <1>12, SilentTells DEF StoreReads, StoreStep, StartInv
<1> QED  BY <1>5, <1>6, <1>7, <1>8, <1>9, <1>10, <1>11, <1>12 DEF ChainStep

\* The chains of the launches stay counted when one ends and others are left.
LEMMA ChainsCounted ==
    ASSUME launches \in [Modes -> Nat], NEW mode \in Modes, NEW forks \in Nat, ChainEnds(mode, forks)
    PROVE  launches' \in [Modes -> Nat] /\ UNCHANGED wallet_restarting_
<1> DEFINE left == [launches EXCEPT ![mode] = @ - 1]
<1>1. launches[mode] > 0 /\ launches' = [left EXCEPT !["START"] = @ + forks]
      /\ UNCHANGED wallet_restarting_
  BY DEF ChainEnds
<1>2. left \in [Modes -> Nat]
  <2>1. launches[mode] - 1 \in Nat
    BY <1>1
  <2> QED  BY <2>1
<1> HIDE DEF left
<1>3. "START" \in Modes
  BY DEF Modes
<1>4. left["START"] + forks \in Nat
  BY <1>2, <1>3
<1> QED  BY <1>1, <1>2, <1>4

\* Every variable keeps its type, and the facts of ChainInv hold with it.
LEMMA StartInvNext == StartInv /\ [Next]_vars => StartInv'
<1> SUFFICES ASSUME StartInv, [Next]_vars PROVE StartInv'
  OBVIOUS
<1> DEFINE Cookies == [login : BOOLEAN, guid : Guids, sign : Guids]
           Counts == [cookie : Nat, error : Nat, launch : Nat, restart : Nat, guid : Nat]
           Rest == /\ guid \in Guids /\ kept \in Guids /\ is_first_launch_ \in BOOLEAN
                   /\ cookies \in Cookies /\ read \in SUBSET BOOLEAN
                   /\ listener \in {"none", "requested", "added"}
                   /\ changes \in Seq(Change) /\ missed \in BOOLEAN /\ used \in Counts
                   /\ callback \in Callbacks
           Launching == /\ wallet_restarting_ \in BOOLEAN /\ token_base64_ \in Tokens \cup {NoToken}
                        /\ launches \in [Modes -> Nat] /\ results \in Seq(Result)
<1>1. /\ Rest /\ Launching /\ ChainInv /\ StatesOK /\ ReadyIsAll
      /\ MaxRestarts \in Nat /\ NoGuid \in Guids
  BY ConstantsAssumption DEF StartInv, TypeOK, Guids, NoGuid
<1>2. ASSUME StatesOK', ReadyIsAll', Rest', Launching', ChainInv'
      PROVE  StartInv'
  BY <1>2 DEF StartInv, TypeOK, StatesOK, InitStates, WalletStates, Notice
<1>3. CASE UNCHANGED vars
  <2>1. UNCHANGED <<stateVars, guidVars, launchVars, callback, storeVars, announced, heard, kept, used>>
    BY <1>3 DEF vars
  <2> QED  BY <1>1, <1>2, <2>1 DEF ChainInv, StatesOK, ReadyIsAll, stateVars, guidVars, launchVars, storeVars
<1>4. CASE ChainStep
  <2>1. StatesOK' /\ ReadyIsAll'
    BY <1>4, ChainTells
  <2>2. Launching'
    BY <1>1, <1>4 DEF ChainStep, Callback, StoreReads, StoreStep, launchVars, on_get_hardware_info,
       set_session_cookie, on_set_session_cookie, process_guid, on_get_guid_from_cookie,
       send_new_guid_request, on_guid_request_response, on_set_guid_cookie_result,
       on_set_guid_sign_cookie_result, on_get_auth_cookies_list
  <2>3. Rest' /\ ChainInv'
    <3> DEFINE Goes(name) == callback' = name /\ UNCHANGED init_state_
    <3>1. /\ \A name : Awaits(name) => Goes(name) /\ UNCHANGED auth_state_
          /\ \A state : Fails(state) => callback' = "none" /\ UNCHANGED auth_state_
          /\ io_get_auth_cookie => /\ Goes("on_get_auth_cookies_list") \/ Goes("none")
                                   /\ auth_state_' \in {auth_state_, "AUTH_NOT_LOGGED"}
      BY DEF Awaits, Fails, io_get_auth_cookie, change_init_state, change_auth_state, stateVars
    <3> HIDE DEF Goes
    <3>2. CASE /\ on_get_hardware_info \/ set_session_cookie \/ on_set_session_cookie \/ process_guid
      <4>1. callback \in BeforeGuid /\ UNCHANGED <<guidVars, storeVars, used, kept>>
        BY <3>2 DEF on_get_hardware_info, set_session_cookie, on_set_session_cookie, process_guid,
           Callback, BeforeGuid
      <4>2. \/ \E name \in BeforeGuid : Goes(name) /\ UNCHANGED auth_state_
            \/ callback' = "none" /\ UNCHANGED auth_state_
        BY <3>1, <3>2 DEF on_get_hardware_info, set_session_cookie, on_set_session_cookie,
           process_guid, BeforeGuid
      <4> QED  BY <1>1, <4>1, <4>2 DEF ChainInv, BeforeGuid, guidVars, storeVars, Goes, Callbacks
    <3>3. CASE on_get_guid_from_cookie
      <4>1. /\ callback = "on_get_guid_from_cookie" /\ UNCHANGED <<is_first_launch_, storeVars, used, kept>>
            /\ guid' \in {guid, cookies.guid}
            /\ \/ Goes("send_new_guid_request") /\ UNCHANGED auth_state_
               \/ Goes("on_get_auth_cookies_list") \/ Goes("none")
        BY <3>1, <3>3 DEF on_get_guid_from_cookie, Callback
      <4>2. guid' \in Guids
        BY <1>1, <4>1
      <4> QED  BY <1>1, <4>1, <4>2 DEF ChainInv, BeforeGuid, storeVars, Goes, Callbacks
    <3>4. CASE send_new_guid_request
      BY <1>1, <3>1, <3>4 DEF send_new_guid_request, Callback, ChainInv, BeforeGuid, storeVars, Goes, Callbacks
    <3>5. CASE on_guid_request_response
      <4>1. /\ callback = "on_guid_request_response" /\ UNCHANGED <<is_first_launch_, storeVars, kept>>
            /\ \/ /\ used' = [used EXCEPT !.error = @ + 1] /\ UNCHANGED guid
                  /\ Goes("send_new_guid_request") /\ UNCHANGED auth_state_
               \/ callback' = "none" /\ guid' = NoGuid /\ UNCHANGED <<used, auth_state_>>
               \/ /\ used' = [used EXCEPT !.guid = @ + 1] /\ guid' = used'.guid /\ UNCHANGED auth_state_
                  /\ Goes("on_set_guid_cookie_result") \/ callback' = "none"
        BY <3>1, <3>5 DEF on_guid_request_response, Callback
      <4>2. used \in Counts /\ used.guid \in Nat /\ used.error \in Nat /\ used.restart \in Nat
        BY <1>1
      <4>3. /\ used' \in Counts /\ used'.restart = used.restart
            /\ used'.guid = used.guid \/ used'.guid = used.guid + 1
        BY <4>1, <4>2
      <4>4. used'.guid <= used.restart + 1 /\ used.restart <= MaxRestarts /\ used.guid <= used.restart
        BY <1>1, <4>1, <4>2, <4>3 DEF ChainInv, BeforeGuid
      <4>5. callback' \in BeforeGuid => used'.guid <= used.restart
        BY <4>1, <4>2, <4>4 DEF BeforeGuid, Goes
      <4>6. guid' \in {guid, NoGuid, used'.guid}
        BY <4>1
      <4>7. used'.guid \in 0 .. MaxRestarts + 1
        BY <1>1, <4>2, <4>3, <4>4
      <4>8. guid' \in Guids
        BY <1>1, <4>6, <4>7 DEF Guids
      <4>9. Rest'
        BY <1>1, <4>1, <4>3, <4>8 DEF storeVars, Goes, Callbacks
      <4>10. listener = "none" /\ init_state_ = "DS_NONE" /\ changes = <<>>
        BY <1>1, <4>1 DEF ChainInv
      <4> QED  BY <4>1, <4>3, <4>4, <4>9, <4>10, <4>5 DEF ChainInv, storeVars, Goes
    <3>6. CASE on_set_guid_cookie_result \/ on_set_guid_sign_cookie_result
      <4>1. /\ callback \in {"on_set_guid_cookie_result", "on_set_guid_sign_cookie_result"}
            /\ UNCHANGED <<guidVars, used, kept, read, listener, changes, missed>>
            /\ \/ UNCHANGED cookies
               \/ cookies' = [cookies EXCEPT !.guid = guid] \/ cookies' = [cookies EXCEPT !.sign = guid]
            /\ \/ Goes("on_set_guid_sign_cookie_result") \/ Goes("on_get_auth_cookies_list")
               \/ callback' = "none"
        BY <3>1, <3>6 DEF on_set_guid_cookie_result, on_set_guid_sign_cookie_result, Callback,
           SetCookie, storeVars, Goes
      <4>2. cookies' \in Cookies
        BY <1>1, <4>1
      <4> QED  BY <1>1, <4>1, <4>2 DEF ChainInv, BeforeGuid, guidVars, Goes, Callbacks
    <3>7. CASE StoreReads
      BY <1>1, <3>7 DEF StoreReads, StoreStep, stateVars, guidVars, ChainInv
    <3>8. CASE on_get_auth_cookies_list
      <4>1. /\ callback = "on_get_auth_cookies_list" /\ callback' = "none" /\ read' = {}
            /\ UNCHANGED <<guidVars, cookies, changes, missed, used, kept>>
            /\ listener' = "requested" \/ UNCHANGED listener
            /\ auth_state_' \in {"AUTH_LOGGED", "AUTH_NOT_LOGGED"}
        BY <3>8 DEF on_get_auth_cookies_list, Callback
      <4>2. Rest'
        BY <1>1, <4>1 DEF guidVars, Callbacks
      <4>3. ChainInv'
        BY <1>1, <4>1 DEF ChainInv, BeforeGuid
      <4> QED  BY <4>2, <4>3
    <3> QED  BY <1>4, <3>2, <3>3, <3>4, <3>5, <3>6, <3>7, <3>8 DEF ChainStep
  <2> QED  BY <1>2, <2>1, <2>2, <2>3
<1>5. CASE AddCookieChangeListener \/ \E login \in BOOLEAN : ChangeLogin(login)
  <2>1. Silent /\ UNCHANGED <<stateVars, guidVars, launchVars, callback, kept>>
    BY <1>5 DEF AddCookieChangeListener, ChangeLogin, StoreStep
  <2>2. StatesOK' /\ ReadyIsAll'
    BY <1>1, <2>1, SilentTells
  <2>3. CASE AddCookieChangeListener
    <3>1. Rest' /\ ChainInv'
      BY <1>1, <2>1, <2>3 DEF AddCookieChangeListener, ChainInv, stateVars, guidVars
    <3> QED  BY <1>1, <1>2, <2>1, <2>2, <3>1 DEF launchVars
  <2>4. ASSUME NEW login \in BOOLEAN, ChangeLogin(login)
        PROVE  Rest' /\ ChainInv'
    <3>1. /\ used' = [used EXCEPT !.cookie = @ + 1] /\ cookies' = [cookies EXCEPT !.login = login]
          /\ UNCHANGED <<read, listener, missed>>
      BY <2>4 DEF ChangeLogin
    <3>2. /\ used' \in Counts /\ used'.restart = used.restart /\ used'.guid = used.guid
          /\ cookies' \in Cookies
      <4>1. used \in Counts /\ used.cookie \in Nat /\ cookies \in Cookies
        BY <1>1
      <4>2. cookies' \in Cookies
        BY <3>1, <4>1
      <4>3. used' \in Counts /\ used'.restart = used.restart /\ used'.guid = used.guid
        BY <3>1, <4>1
      <4> QED  BY <4>2, <4>3
    <3>3. listener # "added" => changes' = changes
      BY <2>4 DEF ChangeLogin
    <3>4. changes' \in Seq(Change)
      <4> DEFINE change(cause) == [cause |-> cause, before |-> cookies.login]
                 old == change(IF login THEN "OVERWRITE" ELSE "EXPLICIT")
                 gone == IF cookies.login THEN Append(changes, old) ELSE changes
      <4>1. old \in Change /\ change("INSERTED") \in Change
        BY <1>1 DEF Change
      <4>2. \/ changes' = changes \/ changes' = gone
            \/ changes' = Append(gone, change("INSERTED"))
        BY <1>1, <2>4 DEF ChangeLogin
      <4>3. gone \in Seq(Change)
        BY <1>1, <4>1, AppendProperties
      <4>4. Append(gone, change("INSERTED")) \in Seq(Change)
        BY <4>1, <4>3, AppendProperties
      <4> HIDE DEF gone, change
      <4> QED  BY <1>1, <4>2, <4>3, <4>4
    <3>5. Rest'
      BY <1>1, <2>1, <3>1, <3>2, <3>4 DEF guidVars
    <3>6. ChainInv'
      BY <1>1, <2>1, <3>1, <3>2, <3>3 DEF ChainInv, stateVars
    <3> QED  BY <3>5, <3>6
  <2> QED  BY <1>1, <1>2, <1>5, <2>1, <2>2, <2>3, <2>4 DEF launchVars
<1>6. CASE OnCookieChange
  <2>1. /\ changes # <<>> /\ changes' = Tail(changes)
        /\ \/ change_auth_state("AUTH_LOGGED") /\ UNCHANGED is_first_launch_
           \/ change_auth_state("AUTH_NOT_LOGGED") /\ is_first_launch_' = FALSE
        /\ UNCHANGED <<guid, launchVars, callback, cookies, read, listener, missed, kept, used>>
    BY <1>6 DEF OnCookieChange
  <2>2. StatesOK' /\ ReadyIsAll'
    BY <1>1, <2>1, ChangeTells DEF AuthStates
  <2>3. changes' \in Seq(Change) /\ listener = "added" /\ UNCHANGED init_state_
        /\ auth_state_' # "AUTH_UNDEFINED"
    BY <1>1, <2>1, HeadTailProperties DEF ChainInv, change_auth_state
  <2>4. Rest' /\ Launching'
    BY <1>1, <2>1, <2>3 DEF launchVars
  <2>5. ChainInv'
    BY <1>1, <2>1, <2>3 DEF ChainInv
  <2> QED  BY <1>2, <2>2, <2>4, <2>5
<1>7. CASE \/ \E mode \in Modes : Relaunch(mode)
           \/ PoolStep
  <2>1. Silent /\ UNCHANGED <<stateVars, guidVars, callback, storeVars, kept>>
    BY <1>7 DEF Relaunch, PoolStep, LaunchEnds, LaunchStep
  <2>2. StatesOK' /\ ReadyIsAll'
    BY <1>1, <2>1, SilentTells
  <2>3. used' \in Counts /\ used'.restart = used.restart /\ used'.guid = used.guid
    BY <1>1, <1>7 DEF Relaunch, PoolStep, LaunchEnds
  <2>4. Rest' /\ ChainInv'
    BY <1>1, <2>1, <2>3 DEF ChainInv, stateVars, guidVars, storeVars
  <2>5. Launching'
    <3>1. ASSUME NEW mode \in Modes, Relaunch(mode) PROVE Launching'
      BY <1>1, <3>1 DEF Relaunch, wallet_start
    <3>2. ASSUME NEW mode \in Modes, NEW forks \in 0 .. MaxForks, NEW result \in Result,
                 LaunchEnds(mode, forks, result)
          PROVE  Launching'
      <4>1. ChainEnds(mode, forks) /\ results' = Append(results, result) /\ UNCHANGED token_base64_
        BY <3>2 DEF LaunchEnds, wallet_launch
      <4>2. launches' \in [Modes -> Nat] /\ UNCHANGED wallet_restarting_
        <5>1. forks \in Nat
          BY ConstantsAssumption
        <5> QED  BY <1>1, <4>1, <5>1, ChainsCounted
      <4> QED  BY <1>1, <4>1, <4>2, AppendProperties
    <3> QED  BY <1>7, <3>1, <3>2 DEF PoolStep
  <2> QED  BY <1>2, <2>2, <2>4, <2>5
<1>8. CASE on_wallet_start
  <2>1. /\ results # <<>> /\ results' = Tail(results) /\ wallet_restarting_' = FALSE
        /\ token_base64_' = Head(results).token
        /\ change_wallet_state(Head(results).state)
        /\ UNCHANGED <<launches, guidVars, callback, storeVars, kept, used>>
    BY <1>8 DEF on_wallet_start
  <2>2. Head(results) \in Result /\ Tail(results) \in Seq(Result)
    BY <1>1, <2>1, HeadTailProperties
  <2>3. Head(results).state \in LaunchErrors \cup {"DS_OK"} /\ Head(results).token \in Tokens \cup {NoToken}
    BY <2>2 DEF Result
  <2>4. StatesOK' /\ ReadyIsAll'
    BY <1>1, <2>1, <2>3, ChangeTells
  <2>5. Rest' /\ ChainInv'
    BY <1>1, <2>1 DEF ChainInv, guidVars, storeVars, change_wallet_state
  <2>6. Launching'
    BY <1>1, <2>1, <2>2, <2>3
  <2> QED  BY <1>2, <2>4, <2>5, <2>6
<1>9. CASE Restart
  <2>1. /\ used.restart < MaxRestarts /\ used' = [used EXCEPT !.restart = @ + 1]
        /\ guid' = NoGuid /\ kept' \in {kept, guid} /\ is_first_launch_' = FALSE
        /\ callback' = "on_get_hardware_info"
        /\ read' = {} /\ listener' = "none" /\ changes' = <<>> /\ missed' = FALSE
        /\ UNCHANGED cookies
    BY <1>9 DEF Restart
  <2>2. used \in Counts /\ used.restart \in Nat /\ used.guid \in Nat
    BY <1>1
  <2>3. used' \in Counts /\ used'.restart = used.restart + 1 /\ used'.guid = used.guid
    BY <2>1, <2>2
  <2>4. Rest'
    <3>1. guid' \in Guids /\ kept' \in Guids
      BY <1>1, <2>1
    <3>2. changes' \in Seq(Change) /\ cookies' \in Cookies
      BY <1>1, <2>1
    <3>3. callback' \in Callbacks
      BY <2>1 DEF Callbacks
    <3> HIDE DEF Cookies, Counts
    <3> QED  BY <2>1, <2>3, <3>1, <3>2, <3>3
  <2>5. Launching'
    BY <1>9 DEF Restart, FirstLaunch
  <2>6. ChainInv'
    BY <1>1, <1>9, <2>1, <2>2, <2>3 DEF Restart, ChainInv
  <2>7. StatesOK' /\ ReadyIsAll'
    BY <1>9 DEF Restart, StatesOK, ReadyIsAll, AuthStates, InitStates, WalletStates, DataStates
  <2> QED  BY <1>2, <2>4, <2>5, <2>6, <2>7
<1> QED  BY <1>3, <1>4, <1>5, <1>6, <1>7, <1>8, <1>9 DEF Next

\* Every variable of the session manager keeps its type: the states and the results of
\* launches are among those of the enumerations, a start takes one guid at most.
THEOREM SessionTypeCorrect == Spec => []TypeOK
<1>1. StartInv => TypeOK
  BY DEF StartInv
<1> QED  BY <1>1, StartInvInit, StartInvNext, PTL DEF Spec

\* The observers of notify_state_observers were told DS_OK last exactly when startup, launch
\* and login are all fine, whatever the order in which the three end.
THEOREM ReadyMeansAll == Spec => []ReadyIsAll
<1>1. StartInv => ReadyIsAll
  BY DEF StartInv
<1> QED  BY <1>1, StartInvInit, StartInvNext, PTL DEF Spec

-----------------------------------------------------------------------------
(* The login *)

\* What a change makes auth_state_.
LoggedBy(change) == change.cause \in {"INSERTED", "OVERWRITE"}

\* The login before change i of a list that ends with the login being last.
LoginAt(list, last, i) == IF i <= Len(list) THEN list[i].before ELSE last

\* Each change starts where the one before it ended.
Linked(list, last) == \A i \in 1 .. Len(list) : LoggedBy(list[i]) <=> LoginAt(list, last, i + 1)

LEMMA LinkedTail ==
    ASSUME NEW list \in Seq(Change), list # <<>>, NEW last \in BOOLEAN, Linked(list, last)
    PROVE  /\ Linked(Tail(list), last)
           /\ LoggedBy(list[1]) <=> LoginAt(Tail(list), last, 1)
<1> DEFINE t == Tail(list)
<1>1. /\ Len(list) \in Nat \ {0} /\ Len(t) = Len(list) - 1
      /\ \A i \in 1 .. Len(t) : t[i] = list[i + 1]
  BY HeadTailProperties, EmptySeq
<1> HIDE DEF t
<1>2. ASSUME NEW i \in 1 .. Len(list)
      PROVE  LoginAt(list, last, i + 1) <=> LoginAt(t, last, i)
  BY <1>1 DEF LoginAt
<1>3. Linked(t, last)
  <2> SUFFICES ASSUME NEW i \in 1 .. Len(t)
               PROVE  LoggedBy(t[i]) <=> LoginAt(t, last, i + 1)
    BY DEF Linked
  <2>1. i + 1 \in 1 .. Len(list) /\ t[i] = list[i + 1]
    BY <1>1
  <2>2. LoggedBy(list[i + 1]) <=> LoginAt(list, last, (i + 1) + 1)
    BY <2>1 DEF Linked
  <2>3. LoginAt(list, last, (i + 1) + 1) <=> LoginAt(t, last, i + 1)
    BY <1>2, <2>1
  <2> QED  BY <2>1, <2>2, <2>3
<1>4. LoggedBy(list[1]) <=> LoginAt(t, last, 1)
  <2>1. 1 \in 1 .. Len(list)
    BY <1>1
  <2> QED  BY <1>2, <2>1 DEF Linked
<1> QED  BY <1>3, <1>4 DEF t

LEMMA LinkedAppend ==
    ASSUME NEW list \in Seq(Change), NEW last \in BOOLEAN, Linked(list, last),
           NEW e \in Change, e.before = last,
           NEW next \in BOOLEAN, LoggedBy(e) <=> next
    PROVE  LET more == Append(list, e) IN
           /\ more \in Seq(Change)
           /\ Linked(more, next)
           /\ LoginAt(more, next, 1) <=> LoginAt(list, last, 1)
<1> DEFINE more == Append(list, e)
<1>1. /\ Len(list) \in Nat /\ more \in Seq(Change) /\ Len(more) = Len(list) + 1
      /\ \A i \in 1 .. Len(list) : more[i] = list[i]
      /\ more[Len(list) + 1] = e
  BY AppendProperties
<1> HIDE DEF more
<1>2. ASSUME NEW i \in 1 .. Len(list) + 1
      PROVE  LoginAt(more, next, i) <=> LoginAt(list, last, i)
  <2>1. CASE i = Len(list) + 1
    BY <1>1, <2>1 DEF LoginAt
  <2>2. CASE i \in 1 .. Len(list)
    BY <1>1, <2>2 DEF LoginAt
  <2> QED  BY <1>1, <2>1, <2>2
<1>3. Linked(more, next)
  <2> SUFFICES ASSUME NEW i \in 1 .. Len(more)
               PROVE  LoggedBy(more[i]) <=> LoginAt(more, next, i + 1)
    BY DEF Linked
  <2>1. CASE i = Len(more)
    BY <1>1, <2>1 DEF LoginAt
  <2>2. CASE i # Len(more)
    <3>1. i \in 1 .. Len(list) /\ i + 1 \in 1 .. Len(list) + 1
      BY <1>1, <2>2
    <3>2. LoggedBy(list[i]) <=> LoginAt(list, last, i + 1)
      BY <3>1 DEF Linked
    <3> QED  BY <1>1, <1>2, <3>1, <3>2
  <2> QED  BY <2>1, <2>2
<1> QED  BY <1>1, <1>2, <1>3 DEF more

\* The changes on their way lead from the login that auth_state_ stands for to that of the
\* cookie.
LoginInv ==
    listener = "added" /\ ~missed =>
        /\ auth_state_ = "AUTH_LOGGED" <=> LoginAt(changes, cookies.login, 1)
        /\ Linked(changes, cookies.login)

\* LoginInv is inductive.
LEMMA LoginInvNext == StartInv /\ LoginInv /\ [Next]_vars => LoginInv'
<1> SUFFICES ASSUME StartInv, LoginInv, [Next]_vars PROVE LoginInv'
  OBVIOUS
<1>1. /\ changes \in Seq(Change) /\ Len(changes) \in Nat /\ DOMAIN changes = 1 .. Len(changes)
      /\ cookies \in [login : BOOLEAN, guid : Guids, sign : Guids]
      /\ callback # "none" => listener = "none"
  BY DEF StartInv, TypeOK, ChainInv
<1>2. ASSUME UNCHANGED <<auth_state_, listener, missed, changes>>, cookies'.login = cookies.login
      PROVE  LoginInv'
  BY <1>2 DEF LoginInv
<1>3. CASE UNCHANGED vars
  BY <1>2, <1>3 DEF vars, stateVars, storeVars
<1>4. CASE ChainStep
  <2>1. listener' # "added"
    BY <1>1, <1>4 DEF ChainStep, Callback, StoreReads, StoreStep, on_get_hardware_info,
       set_session_cookie, on_set_session_cookie, process_guid, on_get_guid_from_cookie,
       send_new_guid_request, on_guid_request_response, on_set_guid_cookie_result, SetCookie,
       on_set_guid_sign_cookie_result, on_get_auth_cookies_list, storeVars
  <2> QED  BY <2>1 DEF LoginInv
<1>5. CASE AddCookieChangeListener
  <2>1. changes' = <<>> /\ Len(changes') = 0
    BY <1>5 DEF AddCookieChangeListener, StartInv, ChainInv
  <2>2. UNCHANGED <<auth_state_, cookies>>
    BY <1>5 DEF AddCookieChangeListener, StoreStep, stateVars
  <2>3. ~missed' => (auth_state_ = "AUTH_LOGGED" <=> cookies.login)
    BY <1>5 DEF AddCookieChangeListener
  <2> QED  BY <1>1, <2>1, <2>2, <2>3 DEF LoginInv, LoginAt, Linked
<1>6. CASE OnCookieChange
  <2>1. /\ changes # <<>> /\ changes' = Tail(changes) /\ UNCHANGED <<cookies, listener, missed>>
        /\ auth_state_' = "AUTH_LOGGED" <=> LoggedBy(changes[1])
    BY <1>1, <1>6 DEF OnCookieChange, LoggedBy, change_auth_state
  <2>2. CASE listener = "added" /\ ~missed
    <3>1. Linked(changes, cookies.login) /\ cookies.login \in BOOLEAN
      BY <1>1, <2>2 DEF LoginInv
    <3>2. /\ Linked(Tail(changes), cookies.login)
          /\ LoggedBy(changes[1]) <=> LoginAt(Tail(changes), cookies.login, 1)
      BY <1>1, <2>1, <3>1, LinkedTail
    <3> QED  BY <2>1, <3>2 DEF LoginInv
  <2> QED  BY <2>1, <2>2 DEF LoginInv
<1>7. ASSUME NEW login \in BOOLEAN, ChangeLogin(login)
      PROVE  LoginInv'
  <2> DEFINE change(cause) == [cause |-> cause, before |-> cookies.login]
             old == change(IF login THEN "OVERWRITE" ELSE "EXPLICIT")
             gone == IF cookies.login THEN Append(changes, old) ELSE changes
             now == IF login THEN Append(gone, change("INSERTED")) ELSE gone
  <2>1. /\ cookies'.login = login /\ UNCHANGED <<auth_state_, listener, missed>>
        /\ listener = "added" => changes' = now
        /\ login \/ cookies.login
    BY <1>1, <1>7 DEF ChangeLogin, StoreStep, stateVars
  <2>2. /\ cookies.login \in BOOLEAN
        /\ old \in Change /\ old.before = cookies.login
        /\ LoggedBy(old) <=> login
        /\ change("INSERTED") \in Change /\ change("INSERTED").before = cookies.login
        /\ LoggedBy(change("INSERTED"))
    BY <1>1 DEF Change, LoggedBy
  <2> HIDE DEF old, change
  <2>3. SUFFICES ASSUME listener = "added", ~missed
                 PROVE  /\ auth_state_ = "AUTH_LOGGED" <=> LoginAt(now, login, 1)
                        /\ Linked(now, login)
    BY <2>1 DEF LoginInv
  <2>4. /\ Linked(changes, cookies.login)
        /\ auth_state_ = "AUTH_LOGGED" <=> LoginAt(changes, cookies.login, 1)
    BY <2>3 DEF LoginInv
  <2> DEFINE Leads(list, to) == /\ list \in Seq(Change) /\ Linked(list, to)
                                /\ auth_state_ = "AUTH_LOGGED" <=> LoginAt(list, to, 1)
  <2>5. ASSUME NEW list, NEW from \in BOOLEAN, NEW to \in BOOLEAN, Leads(list, from),
               NEW e \in Change, e.before = from, LoggedBy(e) <=> to
        PROVE  Leads(Append(list, e), to)
    BY <2>5, LinkedAppend
  <2>6. Leads(changes, cookies.login)
    BY <1>1, <2>4
  <2> HIDE DEF Leads
  <2>7. CASE ~login
    <3>1. now = Append(changes, old)
      BY <2>1, <2>7
    <3> HIDE DEF now, gone
    <3>2. Leads(now, login)
      BY <2>2, <2>5, <2>6, <2>7, <3>1
    <3> QED  BY <3>2 DEF Leads
  <2>8. CASE login /\ ~cookies.login
    <3>1. now = Append(changes, change("INSERTED"))
      BY <2>8
    <3>2. Leads(now, login)
      BY <2>2, <2>5, <2>6, <2>8, <3>1
    <3> QED  BY <3>2 DEF Leads
  <2>9. CASE login /\ cookies.login
    <3>1. gone = Append(changes, old) /\ now = Append(gone, change("INSERTED"))
      BY <2>9
    <3>2. Leads(gone, login)
      BY <2>2, <2>5, <2>6, <3>1
    <3> HIDE DEF gone
    <3>3. login = cookies.login
      BY <2>2, <2>9
    <3>4. Leads(now, login)
      BY <2>2, <2>5, <2>9, <3>1, <3>2, <3>3
    <3> QED  BY <3>4 DEF Leads
  <2> QED  BY <2>2, <2>7, <2>8, <2>9
<1>8. CASE \/ \E mode \in Modes : Relaunch(mode)
           \/ PoolStep
           \/ on_wallet_start
  BY <1>2, <1>8 DEF Relaunch, PoolStep, LaunchEnds, LaunchStep, on_wallet_start, change_wallet_state, stateVars, storeVars
<1>9. CASE Restart
  BY <1>9 DEF Restart, LoginInv
<1> QED  BY <1>3, <1>4, <1>5, <1>6, <1>7, <1>8, <1>9 DEF Next

\* Once OnCookieChange is subscribed, the state of the login is that of the cookie as of the
\* changes delivered so far, for any number of logins, logouts and replaced cookies.
THEOREM LoginFollowsCookie == Spec => []AuthFollowsCookie
<1>1. Init => LoginInv
  BY DEF Init, Started, LoginInv
<1>2. StartInv /\ LoginInv => AuthFollowsCookie
  <2> SUFFICES ASSUME StartInv, LoginInv, listener = "added", ~missed
               PROVE  auth_state_ = "AUTH_LOGGED"
                      <=> IF changes = <<>> THEN cookies.login ELSE Head(changes).before
    BY DEF AuthFollowsCookie
  <2>1. /\ Len(changes) \in Nat /\ (changes = <<>> <=> Len(changes) = 0)
        /\ changes # <<>> => Head(changes) = changes[1]
    BY EmptySeq DEF StartInv, TypeOK
  <2>2. auth_state_ = "AUTH_LOGGED" <=> LoginAt(changes, cookies.login, 1)
    BY DEF LoginInv
  <2>3. CASE changes = <<>>
    BY <2>1, <2>2, <2>3 DEF LoginAt
  <2>4. CASE changes # <<>>
    BY <2>1, <2>2, <2>4 DEF LoginAt
  <2> QED  BY <2>3, <2>4
<1> QED  BY <1>1, <1>2, StartInvInit, StartInvNext, LoginInvNext, PTL DEF Spec

-----------------------------------------------------------------------------
(* The guid *)

\* Where the guid of this start is, along the chain.  A browser that was ready once has two
\* cookies that agree, so later starts do not request another guid.
GuidInv ==
    /\ callback = "on_set_guid_cookie_result" => guid # NoGuid
    /\ callback = "on_set_guid_sign_cookie_result" => guid # NoGuid /\ cookies.guid = guid
    /\ callback = "on_get_auth_cookies_list" \/ init_state_ = "DS_OK"
       => guid # NoGuid /\ cookies.guid = guid /\ cookies.sign = guid
    /\ kept # NoGuid => /\ cookies.guid = kept /\ cookies.sign = kept
                        /\ callback \notin {"send_new_guid_request", "on_guid_request_response",
                                            "on_set_guid_cookie_result", "on_set_guid_sign_cookie_result"}

LEMMA GuidInvNext == StartInv /\ GuidInv /\ [Next]_vars => GuidInv'
<1> SUFFICES ASSUME StartInv, GuidInv, [Next]_vars PROVE GuidInv'
  OBVIOUS
<1>1. /\ cookies \in [login : BOOLEAN, guid : Guids, sign : Guids] /\ guid \in Guids
      /\ used.guid \in Nat
      /\ callback # "none" => init_state_ = "DS_NONE"
  BY DEF StartInv, TypeOK, ChainInv
<1> DEFINE Goes(name) == callback' = name /\ UNCHANGED init_state_
           Ends == callback' = "none" /\ init_state_' # "DS_OK"
           SameJar == cookies'.guid = cookies.guid /\ cookies'.sign = cookies.sign
<1>2. ASSUME UNCHANGED <<guid, kept, callback, init_state_>>, SameJar
      PROVE  GuidInv'
  BY <1>2 DEF GuidInv
<1>3. /\ \A name : Awaits(name) => Goes(name)
      /\ Fails("DS_SESSION_ERROR") => Ends
      /\ Fails("DS_GUID_ERROR") => Ends
      /\ io_get_auth_cookie => Goes("on_get_auth_cookies_list") \/ Goes("none")
  BY DEF Awaits, Fails, io_get_auth_cookie, change_init_state, change_auth_state, stateVars
<1>4. CASE UNCHANGED vars
  BY <1>2, <1>4 DEF vars, stateVars, guidVars, storeVars
<1>5. CASE on_get_hardware_info \/ set_session_cookie \/ on_set_session_cookie \/ process_guid
  <2>1. /\ init_state_ = "DS_NONE" /\ UNCHANGED <<guid, cookies, kept>>
        /\ \/ \E name \in {"set_session_cookie", "on_set_session_cookie", "process_guid",
                          "on_get_guid_from_cookie"} : Goes(name)
           \/ Ends
    BY <1>1, <1>3, <1>5 DEF on_get_hardware_info, set_session_cookie, on_set_session_cookie,
       process_guid, Callback, guidVars, storeVars
  <2> QED  BY <2>1 DEF GuidInv
<1>6. CASE on_get_guid_from_cookie
  <2>1. /\ init_state_ = "DS_NONE" /\ UNCHANGED <<cookies, kept>>
        /\ \/ /\ read_guid_from_cookies /\ guid' = cookies.guid
              /\ Goes("on_get_auth_cookies_list") \/ Goes("none")
           \/ ~read_guid_from_cookies /\ UNCHANGED guid /\ Goes("send_new_guid_request")
    BY <1>1, <1>3, <1>6 DEF on_get_guid_from_cookie, Callback, storeVars
  <2> QED  BY <2>1 DEF GuidInv, read_guid_from_cookies
<1>7. CASE send_new_guid_request \/ on_guid_request_response
  <2>1. /\ kept = NoGuid /\ init_state_ = "DS_NONE" /\ UNCHANGED <<cookies, kept>>
        /\ \/ Goes("on_guid_request_response") \/ Goes("send_new_guid_request") \/ Ends
           \/ Goes("on_set_guid_cookie_result") /\ guid' = used.guid + 1
    BY <1>1, <1>3, <1>7 DEF send_new_guid_request, on_guid_request_response, Callback, storeVars,
       GuidInv, StartInv, TypeOK
  <2> QED  BY <1>1, <2>1 DEF GuidInv, NoGuid
<1>8. CASE on_set_guid_cookie_result
  <2>1. /\ kept = NoGuid /\ init_state_ = "DS_NONE" /\ guid # NoGuid /\ UNCHANGED <<guid, kept>>
        /\ Goes("on_set_guid_sign_cookie_result") => cookies'.guid = guid
        /\ Goes("on_set_guid_sign_cookie_result") \/ Ends
    BY <1>1, <1>3, <1>8 DEF on_set_guid_cookie_result, Callback, SetCookie, guidVars, GuidInv,
       Fails
  <2> QED  BY <2>1 DEF GuidInv
<1>9. CASE on_set_guid_sign_cookie_result
  <2>1. /\ kept = NoGuid /\ init_state_ = "DS_NONE" /\ guid # NoGuid /\ UNCHANGED <<guid, kept>>
        /\ \/ /\ cookies'.guid = guid /\ cookies'.sign = guid
              /\ Goes("on_get_auth_cookies_list") \/ Goes("none")
           \/ Ends
    BY <1>1, <1>3, <1>9 DEF on_set_guid_sign_cookie_result, Callback, SetCookie, guidVars, GuidInv
  <2> QED  BY <2>1 DEF GuidInv
<1>10. CASE StoreReads
  BY <1>2, <1>10 DEF StoreReads, StoreStep, stateVars, guidVars
<1>11. CASE on_get_auth_cookies_list
  <2>1. callback' = "none" /\ callback = "on_get_auth_cookies_list" /\ UNCHANGED <<guid, cookies, kept>>
    BY <1>11 DEF on_get_auth_cookies_list, Callback, guidVars
  <2> QED  BY <2>1 DEF GuidInv
<1>12. CASE \/ AddCookieChangeListener \/ \E login \in BOOLEAN : ChangeLogin(login)
            \/ OnCookieChange
            \/ \E mode \in Modes : Relaunch(mode)
            \/ PoolStep
            \/ on_wallet_start
  <2>1. UNCHANGED <<guid, kept, callback, init_state_>> /\ SameJar
    BY <1>1, <1>12 DEF AddCookieChangeListener, ChangeLogin, StoreStep, OnCookieChange, Relaunch,
       PoolStep, LaunchEnds, LaunchStep, on_wallet_start, change_auth_state, change_wallet_state,
       stateVars, guidVars, storeVars
  <2> QED  BY <1>2, <2>1
<1>13. CASE Restart
  <2>1. /\ callback' = "on_get_hardware_info" /\ init_state_' = "DS_NONE" /\ UNCHANGED cookies
        /\ kept' = IF heard = "DS_OK" THEN guid ELSE kept
    BY <1>13 DEF Restart
  <2>2. heard = "DS_OK" => init_state_ = "DS_OK"
    BY DEF StartInv, ReadyIsAll
  <2> QED  BY <2>1, <2>2 DEF GuidInv
<1> QED  BY <1>4, <1>5, <1>6, <1>7, <1>8, <1>9, <1>10, <1>11, <1>12, <1>13 DEF Next, ChainStep

\* A browser that was ready once is ready with the same guid after any number of restarts,
\* also of restarts between the two guid cookies.
THEOREM GuidStays == Spec => []GuidIsKept
<1>1. Init => GuidInv
  BY DEF Init, Started, GuidInv
<1>2. StartInv /\ GuidInv => GuidIsKept
  BY DEF StartInv, ReadyIsAll, GuidInv, GuidIsKept
<1> QED  BY <1>1, <1>2, StartInvInit, StartInvNext, GuidInvNext, PTL DEF Spec
-----------------------------------------------------------------------------
(* For the manager that observes the session                                *)

\* A launch keeps everything but itself: for steps of the rest of the browser.
Launching ==
    /\ wallet_restarting_ \in BOOLEAN /\ token_base64_ \in Tokens \cup {NoToken}
    /\ launches \in [Modes -> Nat] /\ results \in Seq(Result)

LEMMA LaunchStepKeeps ==
    ASSUME StartInv, LaunchStep, UNCHANGED used, Launching'
    PROVE  StartInv'
<1>1. StatesOK' /\ ReadyIsAll'
  BY SilentTells DEF LaunchStep, StartInv
<1>2. /\ Silent
      /\ UNCHANGED <<auth_state_, init_state_, wallet_state_, guid, is_first_launch_, callback,
                     cookies, read, listener, changes, missed, kept, used>>
  BY DEF LaunchStep, stateVars, guidVars, storeVars
<1>3. ChainInv'
  BY <1>2 DEF StartInv, ChainInv
<1>4. TypeOK'
  BY <1>2 DEF StartInv, TypeOK, Launching, Silent
<1> QED  BY <1>1, <1>3, <1>4 DEF StartInv

\* The last notice for a login, a launch and a startup, if there is one.
Told(auth, wallet, init) ==
    IF auth = "AUTH_NOT_LOGGED" THEN "DS_AUTH_COOKIE_ERROR"
    ELSE IF wallet \notin Fine THEN wallet
    ELSE IF init \notin Fine THEN init
    ELSE IF wallet = "DS_OK" /\ init = "DS_OK" THEN "DS_OK"
    ELSE "nothing"

Says(state, auth) == [state |-> state, auth |-> auth]

LEMMA NoticesAre ==
    ASSUME NEW auth \in AuthStates, NEW wallet \in WalletStates, NEW init \in InitStates
    PROVE  /\ Told(auth, wallet, init) = "nothing" =>
                Notices(auth, wallet, init)
                = IF auth = "AUTH_UNDEFINED" THEN <<Says("DS_NONE", auth)>> ELSE <<>>
           /\ Told(auth, wallet, init) # "nothing" =>
                Notices(auth, wallet, init)
                = IF auth = "AUTH_UNDEFINED"
                  THEN <<Says("DS_NONE", auth), Says(Told(auth, wallet, init), auth)>>
                  ELSE <<Says(Told(auth, wallet, init), auth)>>
<1> DEFINE tell(state) == <<Says(state, auth)>>
           told == Told(auth, wallet, init)
           unknown == IF auth = "AUTH_UNDEFINED" THEN tell("DS_NONE") ELSE <<>>
           known == IF auth = "AUTH_NOT_LOGGED" THEN tell("DS_AUTH_COOKIE_ERROR")
                    ELSE IF wallet \notin Fine THEN tell(wallet)
                    ELSE IF init \notin Fine THEN tell(init)
                    ELSE IF wallet = "DS_OK" /\ init = "DS_OK" THEN tell("DS_OK")
                    ELSE <<>>
<1>1. Notices(auth, wallet, init) = unknown \o known
  BY DEF Notices, Says
<1>2. "nothing" \notin WalletStates \cup InitStates
  BY DEF WalletStates, InitStates, LaunchErrors, InitErrors
<1>3. known = IF told = "nothing" THEN <<>> ELSE tell(told)
  <2> HIDE DEF tell
  <2> QED  BY <1>2 DEF Told
<1>4. <<>> \o <<>> = <<>>
  OBVIOUS
<1>5. ASSUME NEW a
      PROVE  <<>> \o <<a>> = <<a>> /\ <<a>> \o <<>> = <<a>>
  OBVIOUS
<1>6. ASSUME NEW a, NEW b
      PROVE  <<a>> \o <<b>> = <<a, b>>
  <2> DEFINE S == {a, b}
             n == <<a>> \o <<b>>
  <2>1. <<a>> \in Seq(S) /\ <<b>> \in Seq(S) /\ <<a, b>> \in Seq(S) /\ Len(<<a>>) = 1 /\ Len(<<b>>) = 1
    OBVIOUS
  <2>2. n \in Seq(S) /\ Len(n) = 2 /\ n[1] = a /\ n[2] = b
    BY <2>1, ConcatProperties
  <2>3. Len(<<a, b>>) = 2 /\ <<a, b>>[1] = a /\ <<a, b>>[2] = b
    OBVIOUS
  <2> HIDE DEF n
  <2>4. \A i \in 1 .. 2 : n[i] = <<a, b>>[i]
    BY <2>2, <2>3
  <2> DEFINE pair == <<a, b>>
  <2>5. pair \in Seq(S) /\ Len(pair) = 2 /\ \A i \in 1 .. 2 : n[i] = pair[i]
    BY <2>1, <2>3, <2>4
  <2> HIDE DEF S, pair
  <2>6. n = pair
    BY <2>2, <2>5, SeqEqual
  <2> QED  BY <2>6 DEF n, pair
<1> HIDE DEF known, told
<1> QED  BY <1>1, <1>3, <1>4, <1>5, <1>6 DEF told

\* The steps that the rest of the browser leaves to the session alone.
OwnStep ==
    \/ ChainStep
    \/ AddCookieChangeListener
    \/ OnCookieChange
    \/ \E login \in BOOLEAN : ChangeLogin(login)
    \/ on_wallet_start

\* What a step announces: nothing, the new states, or, when the login is read, first the login
\* as read and then the new states.
LEMMA OwnStepAnnounces ==
    ASSUME StartInv, OwnStep
    PROVE  \/ announced' = <<>> /\ UNCHANGED stateVars
           \/ announced' = Notices(auth_state_', wallet_state_', init_state_')
           \/ /\ auth_state_' \in {"AUTH_LOGGED", "AUTH_NOT_LOGGED"}
              /\ init_state_ = "DS_NONE" /\ UNCHANGED wallet_state_
              /\ \E first \in {auth_state_', "AUTH_LOGGED"} :
                    announced' = Notices(first, wallet_state_, init_state_)
                                 \o Notices(auth_state_', wallet_state_, init_state_')
<1> DEFINE Quietly == announced' = <<>> /\ UNCHANGED stateVars
           Once == announced' = Notices(auth_state_', wallet_state_', init_state_')
<1>1. ASSUME NEW name, Awaits(name) PROVE Quietly
  BY <1>1 DEF Awaits, Silent
<1>2. ASSUME NEW state, change_auth_state(state) \/ change_init_state(state) \/ change_wallet_state(state)
      PROVE  Once
  BY <1>2 DEF change_auth_state, change_init_state, change_wallet_state, Announce
<1>3. ASSUME NEW state, Fails(state) PROVE Once
  BY <1>2, <1>3 DEF Fails
<1>4. ASSUME io_get_auth_cookie PROVE Quietly \/ Once
  BY <1>1, <1>2, <1>4 DEF io_get_auth_cookie
<1>5. ASSUME StoreStep PROVE Quietly
  BY <1>5 DEF StoreStep, Silent
<1>6. (on_get_hardware_info \/ send_new_guid_request) => Quietly \/ Once
  BY <1>1 DEF on_get_hardware_info, send_new_guid_request
<1>7. (set_session_cookie \/ on_set_session_cookie \/ process_guid) => Quietly \/ Once
  BY <1>1, <1>3 DEF set_session_cookie, on_set_session_cookie, process_guid
<1>8. on_get_guid_from_cookie => Quietly \/ Once
  BY <1>1, <1>4 DEF on_get_guid_from_cookie
<1>9. on_guid_request_response => Quietly \/ Once
  BY <1>1, <1>3 DEF on_guid_request_response
<1>10. on_set_guid_cookie_result => Quietly \/ Once
  BY <1>1, <1>3 DEF on_set_guid_cookie_result
<1>11. on_set_guid_sign_cookie_result => Quietly \/ Once
  BY <1>3, <1>4 DEF on_set_guid_sign_cookie_result
<1>12. (StoreReads \/ AddCookieChangeListener \/ \E login \in BOOLEAN : ChangeLogin(login)) => Quietly \/ Once
  BY <1>5 DEF StoreReads, AddCookieChangeListener, ChangeLogin
<1>13. OnCookieChange => Quietly \/ Once
  BY <1>2 DEF OnCookieChange
<1>14. on_wallet_start => Quietly \/ Once
  BY <1>2 DEF on_wallet_start
<1>15. CASE on_get_auth_cookies_list
  <2>1. init_state_ = "DS_NONE" /\ UNCHANGED wallet_state_
    BY <1>15 DEF on_get_auth_cookies_list, Callback, StartInv, ChainInv
  <2>2. PICK login \in read :
          LET auth == IF login THEN "AUTH_LOGGED" ELSE "AUTH_NOT_LOGGED"
              told == Notices(auth, wallet_state_, init_state_)
          IN  \/ /\ auth_state_' = auth /\ init_state_' = "DS_OK"
                 /\ Announce(told \o Notices(auth, wallet_state_, "DS_OK"))
              \/ /\ auth_state_' = "AUTH_NOT_LOGGED" /\ init_state_' = init_state_
                 /\ Announce(told \o Notices("AUTH_NOT_LOGGED", wallet_state_, init_state_))
    BY <1>15 DEF on_get_auth_cookies_list
  <2> DEFINE auth == IF login THEN "AUTH_LOGGED" ELSE "AUTH_NOT_LOGGED"
  <2>3. /\ auth_state_' \in {"AUTH_LOGGED", "AUTH_NOT_LOGGED"}
        /\ auth \in {auth_state_', "AUTH_LOGGED"}
        /\ Announce(Notices(auth, wallet_state_, init_state_)
                    \o Notices(auth_state_', wallet_state_, init_state_'))
    BY <2>2
  <2> HIDE DEF auth
  <2> QED  BY <2>1, <2>3 DEF Announce
<1> HIDE DEF Quietly, Once
<1>16. Quietly \/ Once \/ on_get_auth_cookies_list
  BY <1>6, <1>7, <1>8, <1>9, <1>10, <1>11, <1>12, <1>13, <1>14 DEF OwnStep, ChainStep
<1> QED  BY <1>15, <1>16 DEF Quietly, Once
\* A login that is known stays known.
LEMMA LoginStaysKnown ==
    ASSUME OwnStep
    PROVE  auth_state_' \in {auth_state_, "AUTH_LOGGED", "AUTH_NOT_LOGGED"}
<1>1. /\ \A s : change_init_state(s) \/ change_wallet_state(s) \/ Fails(s) => UNCHANGED auth_state_
      /\ \A s : Awaits(s) => UNCHANGED auth_state_
      /\ \A s : change_auth_state(s) => auth_state_' = s
      /\ StoreStep => UNCHANGED auth_state_
  BY DEF change_init_state, change_wallet_state, Fails, Awaits, change_auth_state, StoreStep, stateVars
<1>2. io_get_auth_cookie => auth_state_' \in {auth_state_, "AUTH_NOT_LOGGED"}
  BY <1>1 DEF io_get_auth_cookie
<1>3. ChainStep => auth_state_' \in {auth_state_, "AUTH_LOGGED", "AUTH_NOT_LOGGED"}
  BY <1>1, <1>2 DEF ChainStep, on_get_hardware_info, set_session_cookie, on_set_session_cookie, process_guid,
     on_get_guid_from_cookie, send_new_guid_request, on_guid_request_response, on_set_guid_cookie_result,
     on_set_guid_sign_cookie_result, StoreReads, on_get_auth_cookies_list
<1> QED  BY <1>1, <1>3 DEF OwnStep, AddCookieChangeListener, OnCookieChange, ChangeLogin, on_wallet_start
\* Only the end of a launch changes what is known of the wallet, and it is always announced.
LEMMA LaunchEndsAloud ==
    ASSUME StartInv, OwnStep
    PROVE  \/ UNCHANGED <<wallet_restarting_, wallet_state_>>
           \/ /\ wallet_state_' # "DS_NONE"
              /\ announced' = Notices(auth_state_', wallet_state_', init_state_')
<1> DEFINE Still == UNCHANGED <<wallet_restarting_, wallet_state_>>
<1>1. /\ \A s : change_init_state(s) \/ change_auth_state(s) \/ Fails(s) => UNCHANGED wallet_state_
      /\ \A s : Awaits(s) => UNCHANGED wallet_state_
      /\ io_get_auth_cookie => UNCHANGED wallet_state_
      /\ \A s : Callback(s) => UNCHANGED wallet_restarting_
      /\ StoreStep => Still
  BY DEF change_init_state, change_auth_state, io_get_auth_cookie, Fails, Awaits, StoreStep, Callback,
     stateVars, launchVars
<1>2. ChainStep => Still
  BY <1>1 DEF ChainStep, on_get_hardware_info, set_session_cookie, on_set_session_cookie, process_guid,
     on_get_guid_from_cookie, send_new_guid_request, on_guid_request_response, on_set_guid_cookie_result,
     on_set_guid_sign_cookie_result, StoreReads, on_get_auth_cookies_list
<1>3. AddCookieChangeListener \/ OnCookieChange \/ (\E login \in BOOLEAN : ChangeLogin(login)) => Still
  BY <1>1 DEF AddCookieChangeListener, OnCookieChange, ChangeLogin, launchVars
<1>4. ASSUME on_wallet_start
      PROVE  /\ wallet_state_' # "DS_NONE"
             /\ announced' = Notices(auth_state_', wallet_state_', init_state_')
  <2>1. results \in Seq(Result) /\ results # <<>> /\ change_wallet_state(Head(results).state)
    BY <1>4 DEF on_wallet_start, StartInv, TypeOK
  <2>2. Head(results) \in Result
    BY <2>1, HeadTailProperties
  <2>3. Head(results).state # "DS_NONE"
    BY <2>2 DEF Result, LaunchErrors
  <2> QED  BY <2>1, <2>3 DEF change_wallet_state, Announce
<1> QED  BY <1>2, <1>3, <1>4 DEF OwnStep

=============================================================================
