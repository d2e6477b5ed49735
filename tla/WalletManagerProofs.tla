------------------------ MODULE WalletManagerProofs ------------------------
(***************************************************************************)
(* Proofs about WalletManager, for any number of calls, tabs, addresses,    *)
(* logins and faults.  What the session does is proved in                   *)
(* WalletSessionProofs; its lemmas are used here through SP.                *)
(***************************************************************************)
EXTENDS WalletManager, SequenceTheorems, TLAPS

SP == INSTANCE WalletSessionProofs WITH
    Tokens <- {Current, Stale}, NoToken <- "none", MaxLaunches <- 0, MaxForks <- MaxFaults,
    MaxRestarts <- 0

-----------------------------------------------------------------------------
(* The session of the manager is the session of those proofs *)

\* What WalletSession assumes of its constants.
LEMMA SessionConstants ==
    /\ "none" \notin {Current, Stale}
    /\ MaxCookieChanges \in Nat /\ MaxGuidErrors \in Nat /\ MaxFaults \in Nat /\ 0 \in Nat
BY ManagerAssumption DEF Current, Stale

LEMMA SameInit == Session!Init => SP!Init
BY DEF Session!Init, SP!Init, Session!Started, SP!Started, Session!NoGuid, SP!NoGuid,
   Session!FirstLaunch, SP!FirstLaunch, Session!Modes, SP!Modes

LEMMA SameTypes == SP!StartInv => Session!TypeOK
<1>1. /\ SP!AuthStates = Session!AuthStates /\ SP!Callbacks = Session!Callbacks
      /\ SP!Guids = Session!Guids /\ SP!Modes = Session!Modes /\ SP!Change = Session!Change
      /\ SP!InitErrors = Session!InitErrors /\ SP!LaunchErrors = Session!LaunchErrors
  BY DEF SP!AuthStates, Session!AuthStates, SP!Callbacks, Session!Callbacks, SP!Guids, Session!Guids,
     SP!Modes, Session!Modes, SP!Change, Session!Change, SP!InitErrors, Session!InitErrors,
     SP!LaunchErrors, Session!LaunchErrors
<1>2. SP!DataStates = Session!DataStates /\ SP!Result = Session!Result
  BY <1>1 DEF SP!DataStates, Session!DataStates, SP!Result, Session!Result
<1>3. SP!TypeOK => Session!TypeOK
  BY <1>1, <1>2 DEF SP!TypeOK, Session!TypeOK
<1> QED  BY <1>3 DEF SP!StartInv

SessionsOwn ==
    \/ Session!ChainStep
    \/ Session!AddCookieChangeListener
    \/ Session!OnCookieChange
    \/ \E login \in BOOLEAN : Session!ChangeLogin(login)
    \/ Session!on_wallet_start

LEMMA SameNotices ==
    ASSUME NEW auth, NEW w, NEW i
    PROVE  Session!Notices(auth, w, i) = SP!Notices(auth, w, i)
BY DEF Session!Notices, SP!Notices, Session!Fine, SP!Fine

LEMMA SameSteps == SessionsOwn => SP!OwnStep
<1>1. /\ \A n : Session!Announce(n) => SP!Announce(n)
      /\ Session!Silent => SP!Silent
  BY DEF Session!Announce, SP!Announce, Session!Silent, SP!Silent
<1>2. /\ \A s : Session!change_auth_state(s) => SP!change_auth_state(s)
      /\ \A s : Session!change_init_state(s) => SP!change_init_state(s)
      /\ \A s : Session!change_wallet_state(s) => SP!change_wallet_state(s)
  BY <1>1, SameNotices DEF Session!change_auth_state, SP!change_auth_state, Session!change_init_state,
     SP!change_init_state, Session!change_wallet_state, SP!change_wallet_state
<1>3. /\ \A s : Session!Callback(s) => SP!Callback(s)
      /\ \A s : Session!Awaits(s) => SP!Awaits(s)
      /\ \A s : Session!Fails(s) => SP!Fails(s)
  BY <1>1, <1>2 DEF Session!Callback, SP!Callback, Session!Awaits, SP!Awaits, Session!Fails, SP!Fails,
     Session!stateVars, SP!stateVars, Session!launchVars, SP!launchVars
<1>4. /\ Session!io_get_auth_cookie => SP!io_get_auth_cookie
      /\ Session!StoreStep => SP!StoreStep
  BY <1>1, <1>2, <1>3 DEF Session!io_get_auth_cookie, SP!io_get_auth_cookie, Session!StoreStep, SP!StoreStep,
     Session!stateVars, SP!stateVars, Session!guidVars, SP!guidVars, Session!launchVars, SP!launchVars
<1> USE DEF Session!guidVars, SP!guidVars, Session!storeVars, SP!storeVars
<1>5. /\ Session!on_get_hardware_info => SP!on_get_hardware_info
      /\ Session!send_new_guid_request => SP!send_new_guid_request
  BY <1>3 DEF Session!on_get_hardware_info, SP!on_get_hardware_info, Session!send_new_guid_request,
     SP!send_new_guid_request
<1>6. /\ Session!set_session_cookie => SP!set_session_cookie
      /\ Session!on_set_session_cookie => SP!on_set_session_cookie
      /\ Session!process_guid => SP!process_guid
  BY <1>3 DEF Session!set_session_cookie, SP!set_session_cookie, Session!on_set_session_cookie,
     SP!on_set_session_cookie, Session!process_guid, SP!process_guid
<1>7. Session!on_get_guid_from_cookie => SP!on_get_guid_from_cookie
  BY <1>3, <1>4 DEF Session!on_get_guid_from_cookie, SP!on_get_guid_from_cookie,
     Session!read_guid_from_cookies, SP!read_guid_from_cookies, Session!NoGuid, SP!NoGuid
<1>8. Session!on_guid_request_response => SP!on_guid_request_response
  BY <1>3 DEF Session!on_guid_request_response, SP!on_guid_request_response, Session!NoGuid, SP!NoGuid
<1>9. /\ Session!on_set_guid_cookie_result => SP!on_set_guid_cookie_result
      /\ Session!on_set_guid_sign_cookie_result => SP!on_set_guid_sign_cookie_result
  BY <1>3, <1>4 DEF Session!on_set_guid_cookie_result, SP!on_set_guid_cookie_result,
     Session!on_set_guid_sign_cookie_result, SP!on_set_guid_sign_cookie_result,
     Session!SetCookie, SP!SetCookie
<1>10. /\ Session!StoreReads => SP!StoreReads
       /\ Session!AddCookieChangeListener => SP!AddCookieChangeListener
       /\ \A login : Session!ChangeLogin(login) => SP!ChangeLogin(login)
  BY <1>4 DEF Session!StoreReads, SP!StoreReads, Session!AddCookieChangeListener,
     SP!AddCookieChangeListener, Session!ChangeLogin, SP!ChangeLogin
<1>11. Session!on_get_auth_cookies_list => SP!on_get_auth_cookies_list
  BY <1>1, <1>3, SameNotices DEF Session!on_get_auth_cookies_list, SP!on_get_auth_cookies_list
<1>12. Session!OnCookieChange => SP!OnCookieChange
  BY <1>2 DEF Session!OnCookieChange, SP!OnCookieChange, Session!launchVars, SP!launchVars
<1>13. Session!on_wallet_start => SP!on_wallet_start
  BY <1>2 DEF Session!on_wallet_start, SP!on_wallet_start
<1> QED  BY <1>5, <1>6, <1>7, <1>8, <1>9, <1>10, <1>11, <1>12, <1>13
            DEF SessionsOwn, SP!OwnStep, Session!ChainStep, SP!ChainStep

\* A step of the session alone keeps what is proved of the session, and so does a step of the
\* manager that changes nothing of it but the launch.
LEMMA OwnKeeps == SP!StartInv /\ SessionsOwn => SP!StartInv'
<1>1. SP!OwnStep => SP!Next
  BY DEF SP!OwnStep, SP!Next
<1>2. SP!StartInv /\ [SP!Next]_(SP!vars) => SP!StartInv'
  BY SP!StartInvNext, SessionConstants
<1> QED  BY <1>1, <1>2, SameSteps

LEMMA LaunchKeeps ==
    ASSUME SP!StartInv, Session!LaunchStep, UNCHANGED used, SP!Launching'
    PROVE  SP!StartInv'
<1>1. SP!LaunchStep
  BY DEF Session!LaunchStep, SP!LaunchStep, Session!Silent, SP!Silent, Session!stateVars, SP!stateVars,
     Session!guidVars, SP!guidVars, Session!storeVars, SP!storeVars
<1> QED  BY <1>1, SP!LaunchStepKeeps, SessionConstants

LEMMA SessionStarts == Session!Init => SP!StartInv
BY SameInit, SP!StartInvInit, SessionConstants

-----------------------------------------------------------------------------
(* The fold over what is announced: there are two notices at most           *)

\* Which element of a set of positions the fold takes first: the last.
LEMMA LastPosition == Max({1}) = 1 /\ Max({2}) = 2 /\ Max({1, 2}) = 2
BY DEF Max

\* Putting two short sequences together.
LEMMA ConcatOne ==
    /\ \A y : <<>> \o <<y>> = <<y>>
    /\ \A x, y : <<x>> \o <<y>> = <<x, y>>
<1>1. ASSUME NEW a PROVE <<>> \o <<a>> = <<a>>
  OBVIOUS
<1>2. ASSUME NEW a, NEW b PROVE <<a>> \o <<b>> = <<a, b>>
  <2> DEFINE S == {a, b}
             n == <<a>> \o <<b>>
             pair == <<a, b>>
  <2>1. <<a>> \in Seq(S) /\ <<b>> \in Seq(S) /\ pair \in Seq(S) /\ Len(<<a>>) = 1 /\ Len(<<b>>) = 1
    OBVIOUS
  <2>2. n \in Seq(S) /\ Len(n) = 2 /\ n[1] = a /\ n[2] = b
    BY <2>1, ConcatProperties
  <2>3. Len(pair) = 2 /\ pair[1] = a /\ pair[2] = b
    OBVIOUS
  <2> HIDE DEF n, pair
  <2>4. \A i \in 1 .. 2 : n[i] = pair[i]
    BY <2>2, <2>3
  <2> HIDE DEF S
  <2>5. n = pair
    BY <2>1, <2>2, <2>3, <2>4, SeqEqual
  <2> QED  BY <2>5 DEF n, pair
<1> QED  BY <1>1, <1>2

\* What the notices of a step make of state s.
Handled(s, notices) == FoldLeft(on_environment_ready, s, notices)

LEMMA FoldNone == ASSUME NEW s PROVE Handled(s, <<>>) = s
<1>1. DOMAIN <<>> = {}
  OBVIOUS
<1> QED  BY <1>1 DEF Handled, FoldLeft, MapThenFoldSet

\* The fold over one notice, and over two: the first is handled first.
LEMMA FoldOne ==
    ASSUME NEW s, NEW m
    PROVE  Handled(s, <<m>>) = on_environment_ready(s, m)
<1> DEFINE op(x, y) == on_environment_ready(y, x)
           step(f, x) == IF x = {} THEN s ELSE op(<<m>>[Max(x)], f[x \ {Max(x)}])
           iter == [x \in {{}, {1}} |-> IF x = {} THEN s ELSE on_environment_ready(s, m)]
<1>1. DOMAIN <<m>> = {1} /\ SUBSET {1} = {{}, {1}} /\ {1} \ {1} = {} /\ {1} # {} /\ <<m>>[1] = m
  OBVIOUS
<1>2. Handled(s, <<m>>)
      = (CHOOSE f : f = [x \in SUBSET {1} |-> step(f, x)])[{1}]
  BY <1>1 DEF Handled, FoldLeft, MapThenFoldSet
<1>3. iter = [x \in SUBSET {1} |-> step(iter, x)]
  <2>1. iter[{1}] = on_environment_ready(s, m) /\ iter[{}] = s
    OBVIOUS
  <2> HIDE DEF iter
  <2>2. step(iter, {}) = s /\ step(iter, {1}) = on_environment_ready(s, m)
    BY <1>1, <2>1, LastPosition
  <2>3. \A x \in {{}, {1}} : iter[x] = step(iter, x)
    BY <2>1, <2>2
  <2> HIDE DEF step
  <2> QED  BY <2>3, <1>1 DEF iter
<1>4. ASSUME NEW f, f = [x \in SUBSET {1} |-> step(f, x)]
      PROVE  f[{1}] = on_environment_ready(s, m)
  <2>1. f[{}] = step(f, {}) /\ f[{1}] = step(f, {1})
    <3> HIDE DEF step
    <3> QED  BY <1>1, <1>4
  <2>2. step(f, {}) = s /\ step(f, {1}) = on_environment_ready(f[{}], m)
    BY <1>1, LastPosition
  <2> QED  BY <2>1, <2>2
<1> HIDE DEF iter, step
<1> QED  BY <1>2, <1>3, <1>4

LEMMA FoldTwo ==
    ASSUME NEW s, NEW m, NEW n
    PROVE  Handled(s, <<m, n>>)
           = on_environment_ready(on_environment_ready(s, m), n)
<1> DEFINE op(x, y) == on_environment_ready(y, x)
           step(f, x) == IF x = {} THEN s ELSE op(<<m, n>>[Max(x)], f[x \ {Max(x)}])
           first == on_environment_ready(s, m)
           both == on_environment_ready(first, n)
           other == on_environment_ready(s, n)
           Places == {{}, {1}, {2}, {1, 2}}
           iter == [x \in Places |-> IF x = {} THEN s ELSE IF x = {1} THEN first
                                     ELSE IF x = {2} THEN other ELSE both]
<1>1. /\ DOMAIN <<m, n>> = {1, 2} /\ <<m, n>>[1] = m /\ <<m, n>>[2] = n
      /\ {1} \ {1} = {} /\ {2} \ {2} = {} /\ {1, 2} \ {2} = {1}
      /\ {1} # {} /\ {2} # {} /\ {1, 2} # {} /\ {1} # {2} /\ {1, 2} # {1} /\ {1, 2} # {2}
  OBVIOUS
<1>2. SUBSET {1, 2} = Places
  OBVIOUS
<1>3. Handled(s, <<m, n>>)
      = (CHOOSE f : f = [x \in SUBSET {1, 2} |-> step(f, x)])[{1, 2}]
  BY <1>1 DEF Handled, FoldLeft, MapThenFoldSet
<1>4. iter = [x \in SUBSET {1, 2} |-> step(iter, x)]
  <2>0. iter = [x \in Places |-> iter[x]]
    OBVIOUS
  <2>1. iter[{}] = s /\ iter[{1}] = first /\ iter[{2}] = other /\ iter[{1, 2}] = both
    <3> HIDE DEF first, both, other
    <3> QED  BY <1>1
  <2> HIDE DEF iter
  <2>2. /\ step(iter, {}) = s /\ step(iter, {1}) = first
        /\ step(iter, {2}) = other /\ step(iter, {1, 2}) = both
    BY <1>1, <2>1, LastPosition
  <2>3. \A x \in Places : iter[x] = step(iter, x)
    BY <2>1, <2>2
  <2> HIDE DEF step, Places
  <2> QED  BY <2>0, <2>3, <1>2
<1>5. ASSUME NEW f, f = [x \in SUBSET {1, 2} |-> step(f, x)]
      PROVE  f[{1, 2}] = both
  <2>1. f[{}] = step(f, {}) /\ f[{1}] = step(f, {1}) /\ f[{1, 2}] = step(f, {1, 2})
    <3> HIDE DEF step
    <3> QED  BY <1>2, <1>5
  <2>2. /\ step(f, {}) = s /\ step(f, {1}) = on_environment_ready(f[{}], m)
        /\ step(f, {1, 2}) = on_environment_ready(f[{1}], n)
    BY <1>1, LastPosition
  <2> QED  BY <2>1, <2>2
<1> HIDE DEF iter, step
<1> QED  BY <1>3, <1>4, <1>5

-----------------------------------------------------------------------------
(* What a notice makes of the manager                                       *)

Managers == [is_loaded : BOOLEAN,
             environment_error : {"DS_OK"} \cup Session!InitErrors \cup Session!LaunchErrors,
             first_address_ : Addresses \cup {NoAddress}, polling_timer_ : BOOLEAN]
States == [m : Managers, status : Session!DataStates, tasks : [TaskKinds -> Nat]]

Ask  == "initialize_rpc_first_address"
Stop == "schedule_wallet_stop_and_start"

\* r has all the tasks of s.
Keeps(s, r) == \A kind \in TaskKinds : r.tasks[kind] >= s.tasks[kind]

\* How notice n turns s into r: the states of the session that are neither DS_NONE nor DS_OK
\* set the button, DS_OK asks for the first address, a missing executable is tried again.
Turns(s, n, r) ==
    /\ r \in States /\ Keeps(s, r)
    /\ r.m.is_loaded = IF n.state = "DS_NONE" THEN FALSE ELSE s.m.is_loaded
    /\ n.state = "DS_OK" => r.m.environment_error = "DS_OK" /\ r.tasks[Ask] > 0
    /\ n.state # "DS_OK" => r.tasks[Ask] = s.tasks[Ask]
    /\ n.state = "DS_WALLET_FILE_NOT_FOUND" /\ n.auth # "AUTH_NOT_LOGGED" => r.tasks[Stop] > 0
    /\ n.state \in {"DS_NONE", "DS_OK"} => r.status = s.status
    /\ n.state \notin {"DS_NONE", "DS_OK"} => r.status # "DS_OK"

LEMMA NoticeDoes ==
    ASSUME NEW s \in States, NEW n, n.state \in Session!DataStates,
           n.state = "DS_AUTH_COOKIE_ERROR" => n.auth = "AUTH_NOT_LOGGED",
           NEW r, r = on_environment_ready(s, n)
    PROVE  Turns(s, n, r)
<1> DEFINE Errors == Session!InitErrors \cup Session!LaunchErrors
<1>1. /\ s.m \in Managers /\ s.status \in Session!DataStates /\ s.tasks \in [TaskKinds -> Nat]
      /\ Ask \in TaskKinds /\ Stop \in TaskKinds /\ Ask # Stop
  BY DEF States, TaskKinds, Ask, Stop
<1>2. /\ Session!DataStates = {"DS_OK", "DS_NONE", "DS_AUTH_COOKIE_ERROR"} \cup Errors
      /\ {"DS_OK", "DS_NONE", "DS_AUTH_COOKIE_ERROR"} \cap Errors = {}
      /\ "DS_WALLET_FILE_NOT_FOUND" \in Errors
  BY DEF Session!DataStates, Session!InitErrors, Session!LaunchErrors
<1>9. \A kind \in TaskKinds : s.tasks[kind] >= s.tasks[kind]
  BY <1>1
<1> HIDE DEF Errors
<1> DEFINE Put(m, status_, tasks_) == [m |-> m, status |-> status_, tasks |-> tasks_]
           Typed(m, status_, tasks_) == /\ m \in Managers /\ status_ \in Session!DataStates
                                        /\ tasks_ \in [TaskKinds -> Nat]
<1>3. s = Put(s.m, s.status, s.tasks)
  BY DEF States
<1>4. ASSUME NEW m, NEW u, NEW t, Typed(m, u, t), r = Put(m, u, t)
      PROVE  r \in States /\ r.m = m /\ r.status = u /\ r.tasks = t
  BY <1>4 DEF States
<1>5. CASE n.state = "DS_NONE"
  <2> DEFINE m == [s.m EXCEPT !.is_loaded = FALSE]
  <2>1. r = Put(m, s.status, s.tasks)
    BY <1>3, <1>5 DEF on_environment_ready
  <2>2. m \in Managers /\ m.is_loaded = FALSE
    BY <1>1 DEF Managers
  <2> HIDE DEF m
  <2>3. r \in States /\ r.m = m /\ r.status = s.status /\ r.tasks = s.tasks
    BY <1>1, <1>4, <2>1, <2>2
  <2> QED  BY <1>5, <1>9, <2>2, <2>3 DEF Turns, Keeps
<1>6. CASE n.state = "DS_OK"
  <2> DEFINE m == [s.m EXCEPT !.environment_error = "DS_OK"]
             t == [s.tasks EXCEPT ![Ask] = @ + 1]
  <2>1. r = Put(m, s.status, t)
    BY <1>3, <1>6 DEF on_environment_ready, Ask
  <2>2. m \in Managers /\ m.is_loaded = s.m.is_loaded /\ m.environment_error = "DS_OK"
    BY <1>1 DEF Managers
  <2>3. t \in [TaskKinds -> Nat] /\ t[Ask] > 0 /\ \A kind \in TaskKinds : t[kind] >= s.tasks[kind]
    BY <1>1
  <2> HIDE DEF m, t
  <2>4. r \in States /\ r.m = m /\ r.status = s.status /\ r.tasks = t
    BY <1>1, <1>4, <2>1, <2>2, <2>3
  <2> QED  BY <1>6, <2>2, <2>3, <2>4 DEF Turns, Keeps
<1>7. CASE n.state \notin {"DS_NONE", "DS_OK"} /\ n.auth = "AUTH_NOT_LOGGED"
  <2>1. r = Put(s.m, "DS_AUTH_COOKIE_ERROR", s.tasks)
    BY <1>3, <1>7 DEF on_environment_ready, Notified, Status
  <2>2. r \in States /\ r.m = s.m /\ r.status = "DS_AUTH_COOKIE_ERROR" /\ r.tasks = s.tasks
    BY <1>1, <1>2, <1>4, <2>1
  <2> QED  BY <1>7, <1>9, <2>2 DEF Turns, Keeps
<1>8. CASE n.state \notin {"DS_NONE", "DS_OK"} /\ n.auth # "AUTH_NOT_LOGGED"
  <2> DEFINE m == [s.m EXCEPT !.environment_error = n.state]
             t == [s.tasks EXCEPT ![Stop] = IF n.state = "DS_WALLET_FILE_NOT_FOUND" THEN @ + 1 ELSE @]
             f == [s EXCEPT !.m.environment_error = n.state,
                            !.tasks[Stop] = IF n.state = "DS_WALLET_FILE_NOT_FOUND" THEN @ + 1 ELSE @]
  <2>1. n.state \in Errors
    BY <1>2, <1>8
  <2>2. f = Put(m, s.status, t)
    <3> DEFINE g == [s EXCEPT !.m = m]
    <3>1. f = [g EXCEPT !.tasks = t]
      BY <1>3
    <3> HIDE DEF m, t, f
    <3> QED  BY <1>3, <3>1
  <2>3. /\ m \in Managers /\ m.is_loaded = s.m.is_loaded /\ m.environment_error = n.state
        /\ m.is_loaded \in BOOLEAN
    BY <1>1, <2>1 DEF Managers, Errors
  <2>4. /\ t \in [TaskKinds -> Nat] /\ t[Ask] = s.tasks[Ask]
        /\ n.state = "DS_WALLET_FILE_NOT_FOUND" => t[Stop] > 0
        /\ \A kind \in TaskKinds : t[kind] >= s.tasks[kind]
    BY <1>1
  <2>5. r = [f EXCEPT !.status = Status(f.m, n.auth)]
    BY <1>8 DEF on_environment_ready, Notified, Failed, Stop
  <2> HIDE DEF m, t, f
  <2>6. r = Put(m, Status(m, n.auth), t)
    BY <2>2, <2>5
  <2>7. Status(m, n.auth) \in Session!DataStates /\ Status(m, n.auth) # "DS_OK"
    BY <1>2, <1>8, <2>1, <2>3 DEF Status
  <2>8. r \in States /\ r.m = m /\ r.status = Status(m, n.auth) /\ r.tasks = t
    BY <1>4, <2>3, <2>4, <2>6, <2>7
  <2> QED  BY <1>8, <2>3, <2>4, <2>7, <2>8 DEF Turns, Keeps
<1> QED  BY <1>5, <1>6, <1>7, <1>8

-----------------------------------------------------------------------------
(* What a step of the session makes of the manager                          *)

\* What the observers are told last, of the states after the step.
ToldLast == SP!Told(auth_state_', wallet_state_', init_state_')

Notice(state, auth) == [state |-> state, auth |-> auth]

\* The manager after a step of the session: as it was, if there is no notice, or what the last
\* notice made of it, or what the last two did.
LEMMA ObserveIs ==
    ASSUME SP!StartInv, SP!StartInv', SessionsOwn,
           NEW r, r = Handled(State, announced')
    PROVE  \/ /\ r = State
              /\ UNCHANGED <<auth_state_, init_state_, wallet_state_, wallet_restarting_>>
           \/ r = State /\ ToldLast = "nothing" /\ auth_state_' # "AUTH_UNDEFINED"
           \/ /\ r = on_environment_ready(State, Notice("DS_NONE", "AUTH_UNDEFINED"))
              /\ ToldLast = "nothing" /\ auth_state_' = "AUTH_UNDEFINED"
           \/ /\ r = on_environment_ready(State, Notice(ToldLast, auth_state_'))
              /\ ToldLast # "nothing" /\ auth_state_' # "AUTH_UNDEFINED"
           \/ /\ \E first \in Session!DataStates, auth \in Session!AuthStates :
                    /\ r = on_environment_ready(on_environment_ready(State, Notice(first, auth)),
                                                Notice(ToldLast, auth_state_'))
                    /\ first = "DS_AUTH_COOKIE_ERROR" => auth = "AUTH_NOT_LOGGED"
                    /\ IF auth_state_' = "AUTH_UNDEFINED" THEN first = "DS_NONE"
                       ELSE first \notin {"DS_NONE", "DS_OK"}
              /\ ToldLast # "nothing"
<1> DEFINE auth == auth_state_'  wallet_ == wallet_state_'  init == init_state_'
           old == wallet_state_  begun == init_state_
<1> PICK s, said : s = State /\ said = announced'
  OBVIOUS
<1>0. r = Handled(s, said)
  OBVIOUS
<1>1. /\ auth \in SP!AuthStates /\ wallet_ \in SP!WalletStates /\ init \in SP!InitStates
      /\ old \in SP!WalletStates /\ begun \in SP!InitStates
  BY DEF SP!StartInv, SP!StatesOK
<1>2. /\ SP!AuthStates = Session!AuthStates
      /\ Session!AuthStates = {"AUTH_UNDEFINED", "AUTH_NOT_LOGGED", "AUTH_LOGGED"}
      /\ SP!WalletStates \subseteq Session!DataStates /\ "DS_AUTH_COOKIE_ERROR" \in Session!DataStates
      /\ "DS_NONE" \in Session!DataStates
      /\ "DS_AUTH_COOKIE_ERROR" \notin SP!WalletStates /\ "DS_AUTH_COOKIE_ERROR" # "nothing"
      /\ "nothing" \notin SP!WalletStates
  BY DEF SP!AuthStates, Session!AuthStates, SP!WalletStates, Session!DataStates, SP!LaunchErrors,
     Session!LaunchErrors
<1>3. \/ said = <<>> /\ UNCHANGED <<auth_state_, init_state_, wallet_state_>>
      \/ said = SP!Notices(auth, wallet_, init)
      \/ /\ auth \in {"AUTH_LOGGED", "AUTH_NOT_LOGGED"} /\ begun = "DS_NONE" /\ wallet_ = old
         /\ \E first \in {auth, "AUTH_LOGGED"} :
               said = SP!Notices(first, old, begun) \o SP!Notices(auth, wallet_, init)
  BY SameSteps, SP!OwnStepAnnounces, SessionConstants DEF SP!stateVars
<1>4. \A a, t : SP!Says(t, a) = Notice(t, a)
  BY DEF SP!Says, Notice
<1>5. /\ ToldLast = "nothing" =>
            SP!Notices(auth, wallet_, init)
            = IF auth = "AUTH_UNDEFINED" THEN <<Notice("DS_NONE", auth)>> ELSE <<>>
      /\ ToldLast # "nothing" =>
            SP!Notices(auth, wallet_, init)
            = IF auth = "AUTH_UNDEFINED" THEN <<Notice("DS_NONE", auth), Notice(ToldLast, auth)>>
              ELSE <<Notice(ToldLast, auth)>>
  BY <1>1, <1>4, SP!NoticesAre, SessionConstants DEF ToldLast
<1> PICK a, told : a = auth /\ told = ToldLast
  OBVIOUS
<1>6. ASSUME said = SP!Notices(auth, wallet_, init)
      PROVE  \/ r = s /\ told = "nothing" /\ a # "AUTH_UNDEFINED"
             \/ /\ r = on_environment_ready(s, Notice("DS_NONE", "AUTH_UNDEFINED"))
                /\ told = "nothing" /\ a = "AUTH_UNDEFINED"
             \/ /\ r = on_environment_ready(s, Notice(told, a))
                /\ told # "nothing" /\ a # "AUTH_UNDEFINED"
             \/ /\ r = on_environment_ready(on_environment_ready(s, Notice("DS_NONE", a)), Notice(told, a))
                /\ told # "nothing" /\ a = "AUTH_UNDEFINED"
  <2>1. PICK m, n : m = Notice("DS_NONE", a) /\ n = Notice(told, a)
    OBVIOUS
  <2>2. \/ said = <<>> /\ told = "nothing" /\ a # "AUTH_UNDEFINED"
        \/ said = <<Notice("DS_NONE", a)>> /\ told = "nothing" /\ a = "AUTH_UNDEFINED"
        \/ said = <<Notice(told, a)>> /\ told # "nothing" /\ a # "AUTH_UNDEFINED"
        \/ /\ said = <<Notice("DS_NONE", a), Notice(told, a)>>
           /\ told # "nothing" /\ a = "AUTH_UNDEFINED"
    BY <1>5, <1>6
  <2>3. \/ r = Handled(s, <<>>) /\ told = "nothing" /\ a # "AUTH_UNDEFINED"
        \/ r = Handled(s, <<m>>) /\ told = "nothing" /\ a = "AUTH_UNDEFINED"
        \/ r = Handled(s, <<n>>) /\ told # "nothing" /\ a # "AUTH_UNDEFINED"
        \/ r = Handled(s, <<m, n>>) /\ told # "nothing" /\ a = "AUTH_UNDEFINED"
    BY <1>0, <2>1, <2>2
  <2>4. /\ Handled(s, <<>>) = s
        /\ Handled(s, <<m>>) = on_environment_ready(s, m)
        /\ Handled(s, <<n>>) = on_environment_ready(s, n)
        /\ Handled(s, <<m, n>>)
           = on_environment_ready(on_environment_ready(s, m), n)
    <3>1. Handled(s, <<>>) = s
      BY FoldNone
    <3>2. Handled(s, <<m>>) = on_environment_ready(s, m)
      BY FoldOne
    <3>3. Handled(s, <<n>>) = on_environment_ready(s, n)
      BY FoldOne
    <3>4. Handled(s, <<m, n>>)
          = on_environment_ready(on_environment_ready(s, m), n)
      BY FoldTwo
    <3> QED  BY <3>1, <3>2, <3>3, <3>4
  <2> QED  BY <2>1, <2>3, <2>4
<1>7. ASSUME a \in {"AUTH_LOGGED", "AUTH_NOT_LOGGED"}, begun = "DS_NONE", wallet_ = old,
             NEW first \in {a, "AUTH_LOGGED"},
             said = SP!Notices(first, old, begun) \o SP!Notices(auth, wallet_, init),
             said # SP!Notices(auth, wallet_, init)
      PROVE  \E state \in Session!DataStates :
                /\ r = on_environment_ready(on_environment_ready(s, Notice(state, first)), Notice(told, a))
                /\ state = "DS_AUTH_COOKIE_ERROR" => first = "AUTH_NOT_LOGGED"
                /\ state \notin {"DS_NONE", "DS_OK"} /\ told # "nothing"
  <2> DEFINE x == SP!Told(first, old, begun)
  <2>1. first \in SP!AuthStates /\ first # "AUTH_UNDEFINED"
    BY <1>2, <1>7
  <2>2. /\ x = "nothing" => SP!Notices(first, old, begun) = <<>>
        /\ x # "nothing" => SP!Notices(first, old, begun) = <<Notice(x, first)>>
    BY <1>1, <1>4, <2>1, SP!NoticesAre, SessionConstants
  <2>3. told = "nothing" => SP!Notices(auth, wallet_, init) = <<>>
    BY <1>5, <1>7
  <2>4. told # "nothing" => SP!Notices(auth, wallet_, init) = <<Notice(told, a)>>
    BY <1>5, <1>7
  <2>5. \A y : <<>> \o <<y>> = <<y>>
    BY ConcatOne
  <2>6. x # "nothing"
    <3>1. CASE told = "nothing"
      BY <1>7, <2>2, <2>3, <3>1
    <3>2. CASE told # "nothing"
      BY <1>7, <2>2, <2>4, <2>5, <3>2
    <3> QED  BY <3>1, <3>2
  <2>7. /\ x = IF first = "AUTH_NOT_LOGGED" THEN "DS_AUTH_COOKIE_ERROR" ELSE old
        /\ x \notin {"DS_NONE", "DS_OK"}
    BY <1>7, <2>6 DEF SP!Told, SP!Fine
  <2>8. told # "nothing"
    <3>1. a = "AUTH_NOT_LOGGED" => told = "DS_AUTH_COOKIE_ERROR"
      BY DEF ToldLast, SP!Told
    <3>2. a # "AUTH_NOT_LOGGED" => first # "AUTH_NOT_LOGGED" /\ wallet_ = x
      BY <1>7, <2>7
    <3>3. a # "AUTH_NOT_LOGGED" => told = x
      BY <2>7, <3>2 DEF ToldLast, SP!Told, SP!Fine
    <3> QED  BY <1>2, <2>6, <3>1, <3>3
  <2>9. said = <<Notice(x, first), Notice(told, a)>>
    BY <1>7, <2>2, <2>4, <2>6, <2>8, ConcatOne
  <2>10. r = on_environment_ready(on_environment_ready(s, Notice(x, first)), Notice(told, a))
    <3>1. PICK m, n : m = Notice(x, first) /\ n = Notice(told, a)
      OBVIOUS
    <3>2. said = <<m, n>>
      BY <2>9, <3>1
    <3>3. Handled(s, said)
          = on_environment_ready(on_environment_ready(s, m), n)
      BY <3>2, FoldTwo
    <3> QED  BY <1>0, <3>1, <3>3
  <2>11. x \in Session!DataStates /\ (x = "DS_AUTH_COOKIE_ERROR" => first = "AUTH_NOT_LOGGED")
    BY <1>1, <1>2, <2>7
  <2> HIDE DEF x
  <2> QED  BY <2>7, <2>8, <2>10, <2>11
<1>8. CASE /\ said = <<>> /\ UNCHANGED <<auth_state_, init_state_, wallet_state_>>
           /\ said # SP!Notices(auth, wallet_, init)
  <2>1. r = Handled(s, <<>>)
    BY <1>0, <1>8
  <2>2. r = s
    BY <2>1, FoldNone
  <2>3. UNCHANGED wallet_restarting_
    BY <1>8, SameSteps, SP!LaunchEndsAloud, SessionConstants
  <2> QED  BY <1>8, <2>2, <2>3
<1>9. CASE said = SP!Notices(auth, wallet_, init)
  BY <1>2, <1>6, <1>9
<1>10. CASE /\ a \in {"AUTH_LOGGED", "AUTH_NOT_LOGGED"} /\ begun = "DS_NONE" /\ wallet_ = old
            /\ \E first \in {auth, "AUTH_LOGGED"} :
                  said = SP!Notices(first, old, begun) \o SP!Notices(auth, wallet_, init)
            /\ said # SP!Notices(auth, wallet_, init)
  <2>1. PICK first \in {a, "AUTH_LOGGED"} :
           said = SP!Notices(first, old, begun) \o SP!Notices(auth, wallet_, init)
    BY <1>10
  <2>2. first \in Session!AuthStates
    BY <1>2, <1>10
  <2> QED  BY <1>7, <1>10, <2>1, <2>2
<1> QED  BY <1>3, <1>8, <1>9, <1>10

\* The same in terms of the manager.  When all is well the first address is asked for, a
\* missing executable is tried again, and the button stays truthful.
LEMMA ObserveDoes ==
    ASSUME SP!StartInv, SP!StartInv', State \in States, ButtonIsTruthful, SessionsOwn,
           NEW r, r = Handled(State, announced')
    PROVE  /\ r \in States /\ Keeps(State, r)
           /\ \/ r = State /\ UNCHANGED <<auth_state_, init_state_, wallet_state_, wallet_restarting_>>
              \/ /\ ToldLast = "DS_OK" => r.m.environment_error = "DS_OK" /\ r.tasks[Ask] > 0
                 /\ ToldLast = "DS_WALLET_FILE_NOT_FOUND" => r.tasks[Stop] > 0
                 /\ auth_state_' = "AUTH_UNDEFINED" => ~r.m.is_loaded /\ r.tasks[Ask] = tasks[Ask]
           /\ r.status = "DS_OK" => /\ auth_state_' = "AUTH_LOGGED"
                                    /\ r.m.is_loaded /\ r.m.environment_error = "DS_OK"
<1> PICK s, told, a, b : s = State /\ told = ToldLast /\ a = auth_state_' /\ b = auth_state_
  OBVIOUS
<1>1. /\ a \in {"AUTH_UNDEFINED", "AUTH_NOT_LOGGED", "AUTH_LOGGED"}
      /\ a = "AUTH_UNDEFINED" => b = "AUTH_UNDEFINED"
  <2>1. a \in SP!AuthStates
    BY DEF SP!StartInv, SP!StatesOK
  <2>2. a \in {b, "AUTH_LOGGED", "AUTH_NOT_LOGGED"}
    BY SameSteps, SP!LoginStaysKnown, SessionConstants
  <2> QED  BY <2>1, <2>2 DEF SP!AuthStates
<1>2. /\ told # "nothing" => told \in Session!DataStates \ {"DS_NONE"}
      /\ told = "DS_AUTH_COOKIE_ERROR" <=> a = "AUTH_NOT_LOGGED"
      /\ told = "DS_OK" => a = "AUTH_LOGGED"
  <2>1. /\ wallet_state_' \in SP!WalletStates /\ init_state_' \in SP!InitStates
        /\ init_state_' = "DS_OK" => a # "AUTH_UNDEFINED"
    BY DEF SP!StartInv, SP!StatesOK
  <2>2. /\ SP!WalletStates \cup SP!InitStates \subseteq Session!DataStates
        /\ "DS_AUTH_COOKIE_ERROR" \notin SP!WalletStates \cup SP!InitStates
        /\ "DS_AUTH_COOKIE_ERROR" \in Session!DataStates /\ "DS_OK" \in Session!DataStates
    BY DEF SP!WalletStates, SP!InitStates, Session!DataStates, SP!LaunchErrors, SP!InitErrors,
       Session!LaunchErrors, Session!InitErrors
  <2>3. told = SP!Told(a, wallet_state_', init_state_')
    BY DEF ToldLast
  <2> QED  BY <1>1, <2>1, <2>2, <2>3 DEF SP!Told, SP!Fine
<1>3. /\ s \in States /\ s.m = manager /\ s.status = status /\ s.tasks = tasks
      /\ s.tasks \in [TaskKinds -> Nat] /\ Ask \in TaskKinds
  BY DEF State, States, TaskKinds, Ask
<1>4. s.status = "DS_OK" => /\ b = "AUTH_LOGGED"
                            /\ s.m.is_loaded /\ s.m.environment_error = "DS_OK"
  BY <1>3 DEF ButtonIsTruthful
<1>5. "DS_NONE" \in Session!DataStates /\ \A t, c : Notice(t, c).state = t /\ Notice(t, c).auth = c
  BY DEF Session!DataStates, Notice
<1>6. Keeps(s, s)
  BY <1>3 DEF Keeps
<1> DEFINE Truthful(u) == u.status = "DS_OK" => /\ a = "AUTH_LOGGED"
                                                /\ u.m.is_loaded /\ u.m.environment_error = "DS_OK"
           Told == /\ told = "DS_OK" => r.m.environment_error = "DS_OK" /\ r.tasks[Ask] > 0
                   /\ told = "DS_WALLET_FILE_NOT_FOUND" => r.tasks[Stop] > 0
                   /\ a = "AUTH_UNDEFINED" => ~r.m.is_loaded /\ r.tasks[Ask] = tasks[Ask]
           Goal == r \in States /\ Keeps(s, r) /\ Told /\ Truthful(r)
\* A last notice that says something.
<1>7. ASSUME NEW u \in States, Keeps(s, u), told # "nothing", r = on_environment_ready(u, Notice(told, a)),
             u.status = "DS_OK" => s.status = "DS_OK" /\ u.m.is_loaded = s.m.is_loaded,
             a = "AUTH_UNDEFINED" => ~u.m.is_loaded /\ u.tasks[Ask] = tasks[Ask]
      PROVE  Goal
  <2> PICK n : n = Notice(told, a)
    OBVIOUS
  <2>1. n.state = told /\ n.auth = a /\ r = on_environment_ready(u, n)
    BY <1>5, <1>7
  <2>2. Turns(u, n, r)
    BY <1>2, <1>7, <2>1, NoticeDoes
  <2>3. Keeps(s, r)
    <3>1. r \in States /\ Keeps(u, r)
      BY <2>2 DEF Turns
    <3>2. \A kind \in TaskKinds : s.tasks[kind] \in Nat /\ u.tasks[kind] \in Nat /\ r.tasks[kind] \in Nat
      BY <1>3, <1>7, <3>1 DEF States
    <3> QED  BY <1>7, <3>1, <3>2 DEF Keeps
  <2>4. Told
    BY <1>1, <1>2, <1>7, <2>1, <2>2 DEF Turns
  <2>5. Truthful(r)
    BY <1>1, <1>2, <1>4, <1>7, <2>1, <2>2 DEF Turns
  <2> QED  BY <2>2, <2>3, <2>4, <2>5 DEF Turns
<1>8. CASE r = s /\ UNCHANGED <<auth_state_, init_state_, wallet_state_, wallet_restarting_>>
  BY <1>3, <1>4, <1>6, <1>8
<1>9. CASE r = s /\ told = "nothing" /\ a # "AUTH_UNDEFINED"
  BY <1>1, <1>2, <1>3, <1>4, <1>6, <1>9
<1>10. CASE /\ r = on_environment_ready(s, Notice("DS_NONE", "AUTH_UNDEFINED"))
            /\ told = "nothing" /\ a = "AUTH_UNDEFINED"
  <2> PICK n : n = Notice("DS_NONE", "AUTH_UNDEFINED")
    OBVIOUS
  <2>1. n.state = "DS_NONE" /\ n.auth = "AUTH_UNDEFINED" /\ r = on_environment_ready(s, n)
    BY <1>5, <1>10
  <2>2. Turns(s, n, r)
    BY <1>3, <1>5, <2>1, NoticeDoes
  <2>3. s.status # "DS_OK"
    BY <1>1, <1>4, <1>10
  <2> QED  BY <1>1, <1>3, <1>10, <2>1, <2>2, <2>3 DEF Turns
<1>11. CASE /\ r = on_environment_ready(s, Notice(told, a))
            /\ told # "nothing" /\ a # "AUTH_UNDEFINED"
  BY <1>3, <1>6, <1>7, <1>11
<1>12. CASE /\ \E first \in Session!DataStates, auth \in Session!AuthStates :
                  /\ r = on_environment_ready(on_environment_ready(s, Notice(first, auth)), Notice(told, a))
                  /\ first = "DS_AUTH_COOKIE_ERROR" => auth = "AUTH_NOT_LOGGED"
                  /\ IF a = "AUTH_UNDEFINED" THEN first = "DS_NONE" ELSE first \notin {"DS_NONE", "DS_OK"}
            /\ told # "nothing"
  <2>1. PICK first \in Session!DataStates, auth \in Session!AuthStates :
           /\ r = on_environment_ready(on_environment_ready(s, Notice(first, auth)), Notice(told, a))
           /\ first = "DS_AUTH_COOKIE_ERROR" => auth = "AUTH_NOT_LOGGED"
           /\ IF a = "AUTH_UNDEFINED" THEN first = "DS_NONE" ELSE first \notin {"DS_NONE", "DS_OK"}
    BY <1>12
  <2> PICK n, u : n = Notice(first, auth) /\ u = on_environment_ready(s, n)
    OBVIOUS
  <2>2. n.state = first /\ n.auth = auth /\ r = on_environment_ready(u, Notice(told, a))
    BY <1>5, <2>1
  <2>3. Turns(s, n, u)
    BY <1>3, <2>1, <2>2, NoticeDoes
  <2>4. u \in States /\ Keeps(s, u)
    BY <2>3 DEF Turns
  <2>5. u.status = "DS_OK" => s.status = "DS_OK" /\ u.m.is_loaded = s.m.is_loaded
    BY <1>1, <1>4, <2>1, <2>2, <2>3 DEF Turns
  <2>6. a = "AUTH_UNDEFINED" => ~u.m.is_loaded /\ u.tasks[Ask] = tasks[Ask]
    BY <1>3, <2>1, <2>2, <2>3 DEF Turns
  <2> QED  BY <1>7, <1>12, <2>2, <2>4, <2>5, <2>6
<1> QED
  <2> HIDE DEF Goal
  <2>1. \/ r = s /\ UNCHANGED <<auth_state_, init_state_, wallet_state_, wallet_restarting_>>
        \/ Goal
    BY <1>9, <1>10, <1>11, <1>12, ObserveIs DEF Goal
  <2> QED  BY <1>8, <2>1 DEF Goal

-----------------------------------------------------------------------------
(* The inductive invariant                                                  *)

CallTypes == ui_requests_ \in [Calls -> Call \cup {NoCall}]

OwnTypes ==
    /\ State \in States
    /\ CallTypes
    /\ tabs \in [Tabs -> {"open", "asked", "closed"}]
    /\ answers \in [Tabs -> Nat]
    /\ wallet \in [up : BOOLEAN, told : BOOLEAN, address : Addresses, seed : Addresses]
    /\ faults \in 0 .. MaxFaults
    /\ outlived \in BOOLEAN

\* A getfirstaddress in flight.
Asks(c) == ui_requests_[c] # NoCall /\ ui_requests_[c].method = "getfirstaddress"

\* Another launch is sure to come, or is under way.
Retrying == wallet_restarting_ \/ \E kind \in TaskKinds \ {Ask} : tasks[kind] > 0

\* What keeps the manager awake.  A launch has no result only while it is under way; a missing
\* executable is tried again; when the session is ready the manager knows, and has the first
\* address or something that will get it.  Before the login is known nothing was asked, so that
\* the button cannot say that all is well.
WakeInv ==
    /\ wallet_state_ = "DS_NONE" => wallet_restarting_
    /\ auth_state_ = "AUTH_LOGGED" /\ init_state_ = "DS_OK"
          /\ wallet_state_ = "DS_WALLET_FILE_NOT_FOUND" => Retrying
    /\ heard = "DS_OK" => manager.environment_error = "DS_OK" /\ (manager.is_loaded \/ UnderWay)
    /\ auth_state_ = "AUTH_UNDEFINED" =>
          ~manager.is_loaded /\ tasks[Ask] = 0 /\ \A c \in Calls : ~Asks(c)

ManagerInv == SP!StartInv /\ OwnTypes /\ ButtonIsTruthful /\ WakeInv

LEMMA StateIs ==
    ASSUME OwnTypes
    PROVE  /\ State.m = manager /\ State.status = status /\ State.tasks = tasks
           /\ manager \in Managers /\ status \in Session!DataStates /\ tasks \in [TaskKinds -> Nat]
           /\ Ask \in TaskKinds /\ Stop \in TaskKinds /\ Ask # Stop
BY DEF OwnTypes, State, States, TaskKinds, Ask, Stop

LEMMA TypesAre == SP!StartInv /\ OwnTypes => TypeOK
<1> SUFFICES ASSUME SP!StartInv, OwnTypes PROVE TypeOK
  OBVIOUS
<1>1. Session!TypeOK
  BY SameTypes
<1> QED  BY <1>1, StateIs DEF TypeOK, OwnTypes, CallTypes, Managers

LEMMA NoCallIsNone == NoCall \notin Call
<1>1. NoCall.method = "none"
  BY DEF NoCall
<1>2. \A call \in Call : call.method \in {"getfirstaddress", "getbalance"} \cup TabMethods
  BY DEF Call
<1>3. "none" \notin {"getfirstaddress", "getbalance"} \cup TabMethods
  BY DEF TabMethods
<1> QED  BY <1>1, <1>2, <1>3

LEMMA ManagerInvInit == Init => ManagerInv
<1> SUFFICES ASSUME Init PROVE ManagerInv
  OBVIOUS
<1>1. Session!Init /\ SP!StartInv
  BY SessionStarts DEF Init
<1>2. auth_state_ = "AUTH_UNDEFINED" /\ wallet_restarting_ = TRUE /\ heard = "DS_NONE"
  BY <1>1 DEF Session!Init, Session!Started
<1>3. State \in States
  <2>1. manager \in Managers
    BY DEF Init, Managers
  <2>2. status \in Session!DataStates
    BY DEF Init, Session!DataStates
  <2>3. tasks \in [TaskKinds -> Nat]
    BY DEF Init
  <2> QED  BY <2>1, <2>2, <2>3 DEF State, States
<1>4. OwnTypes
  <2>1. wallet \in [up : BOOLEAN, told : BOOLEAN, address : Addresses, seed : Addresses]
    BY DEF Init
  <2>2. faults \in 0 .. MaxFaults
    BY ManagerAssumption DEF Init
  <2> QED  BY <1>3, <2>1, <2>2 DEF OwnTypes, CallTypes, Init
<1>5. ButtonIsTruthful
  BY DEF ButtonIsTruthful, Init
<1>6. WakeInv
  BY <1>2 DEF WakeInv, Init, Asks, TaskKinds, Ask
<1> QED  BY <1>1, <1>4, <1>5, <1>6 DEF ManagerInv

\* A step of the session, with what the manager makes of it.
LEMMA ObserveKeeps ==
    ASSUME ManagerInv, SessionsOwn, Becomes(FoldLeft(on_environment_ready, State, announced')),
           UNCHANGED <<ui_requests_, tabVars, walletVars, outlived>>
    PROVE  ManagerInv'
<1>1. SP!StartInv /\ SP!StartInv' /\ OwnTypes /\ ButtonIsTruthful /\ WakeInv
  BY OwnKeeps DEF ManagerInv
<1>2. PICK r : r = Handled(State, announced')
  OBVIOUS
<1>3. manager' = r.m /\ status' = r.status /\ tasks' = r.tasks
  BY <1>2 DEF Becomes, Handled
<1>4. /\ r \in States /\ Keeps(State, r)
      /\ \/ r = State /\ UNCHANGED <<auth_state_, init_state_, wallet_state_, wallet_restarting_>>
         \/ /\ ToldLast = "DS_OK" => r.m.environment_error = "DS_OK" /\ r.tasks[Ask] > 0
            /\ ToldLast = "DS_WALLET_FILE_NOT_FOUND" => r.tasks[Stop] > 0
            /\ auth_state_' = "AUTH_UNDEFINED" => ~r.m.is_loaded /\ r.tasks[Ask] = tasks[Ask]
      /\ r.status = "DS_OK" => /\ auth_state_' = "AUTH_LOGGED"
                               /\ r.m.is_loaded /\ r.m.environment_error = "DS_OK"
  BY <1>1, <1>2, ObserveDoes DEF OwnTypes
<1>5. OwnTypes'
  <2>1. State' = r
    BY <1>3, <1>4 DEF State, States
  <2>2. CallTypes'
    BY <1>1 DEF OwnTypes, CallTypes
  <2> QED  BY <1>1, <1>4, <2>1, <2>2 DEF OwnTypes, tabVars, walletVars
<1>6. ButtonIsTruthful'
  BY <1>3, <1>4 DEF ButtonIsTruthful
<1>7. WakeInv'
  <2>1. /\ Ask \in TaskKinds /\ Stop \in TaskKinds /\ Ask # Stop
        /\ State.tasks = tasks /\ State.m = manager /\ State.status = status
    BY <1>1, StateIs
  <2>2. \A c \in Calls : Asks(c)' <=> Asks(c)
    BY DEF Asks
  <2>3. /\ heard = "DS_OK" <=> auth_state_ = "AUTH_LOGGED" /\ init_state_ = "DS_OK" /\ wallet_state_ = "DS_OK"
        /\ heard' = "DS_OK" <=> auth_state_' = "AUTH_LOGGED" /\ init_state_' = "DS_OK" /\ wallet_state_' = "DS_OK"
    BY <1>1 DEF SP!StartInv, SP!ReadyIsAll
  <2>4. CASE r = State /\ UNCHANGED <<auth_state_, init_state_, wallet_state_, wallet_restarting_>>
    <3>1. UNCHANGED <<manager, status, tasks>> /\ (heard' = "DS_OK" <=> heard = "DS_OK")
      BY <1>3, <2>1, <2>3, <2>4
    <3>2. (Retrying' <=> Retrying) /\ (UnderWay' <=> UnderWay)
      BY <2>2, <2>4, <3>1 DEF Retrying, UnderWay, Asks
    <3> QED  BY <1>1, <2>2, <2>4, <3>1, <3>2 DEF WakeInv
  <2>5. CASE /\ ToldLast = "DS_OK" => r.m.environment_error = "DS_OK" /\ r.tasks[Ask] > 0
             /\ ToldLast = "DS_WALLET_FILE_NOT_FOUND" => r.tasks[Stop] > 0
             /\ auth_state_' = "AUTH_UNDEFINED" => ~r.m.is_loaded /\ r.tasks[Ask] = tasks[Ask]
    <3>1. wallet_state_' = "DS_NONE" => wallet_restarting_'
      BY <1>1, SameSteps, SP!LaunchEndsAloud, SessionConstants DEF WakeInv
    <3>2. auth_state_' = "AUTH_LOGGED" /\ init_state_' = "DS_OK"
             /\ wallet_state_' = "DS_WALLET_FILE_NOT_FOUND" => Retrying'
      BY <1>3, <2>1, <2>5 DEF ToldLast, SP!Told, SP!Fine, Retrying
    <3>3. heard' = "DS_OK" => manager'.environment_error = "DS_OK" /\ UnderWay'
      <4>1. heard' = "DS_OK" => ToldLast = "DS_OK"
        BY <2>3 DEF ToldLast, SP!Told, SP!Fine
      <4> QED  BY <1>3, <2>1, <2>5, <4>1 DEF UnderWay
    <3>4. auth_state_' = "AUTH_UNDEFINED" => auth_state_ = "AUTH_UNDEFINED"
      BY SameSteps, SP!LoginStaysKnown, SessionConstants
    <3>5. auth_state_' = "AUTH_UNDEFINED" =>
             ~manager'.is_loaded /\ tasks'[Ask] = 0 /\ \A c \in Calls : ~Asks(c)'
      BY <1>1, <1>3, <2>2, <2>5, <3>4 DEF WakeInv
    <3> QED  BY <3>1, <3>2, <3>3, <3>5 DEF WakeInv
  <2> QED  BY <1>4, <2>4, <2>5
<1> QED  BY <1>1, <1>5, <1>6, <1>7 DEF ManagerInv

-----------------------------------------------------------------------------
(* Steps that leave the session alone, but for the launch                   *)

LEMMA RestKeeps ==
    ASSUME ManagerInv, Session!LaunchStep, UNCHANGED used, SP!Launching', OwnTypes',
           wallet_restarting_ => wallet_restarting_',
           ButtonIsTruthful',
           manager'.environment_error = manager.environment_error,
           Retrying => Retrying',
           (manager.is_loaded \/ UnderWay) => (manager'.is_loaded \/ UnderWay'),
           auth_state_ = "AUTH_UNDEFINED" =>
              ~manager'.is_loaded /\ tasks'[Ask] = 0 /\ \A c \in Calls : ~Asks(c)'
    PROVE  ManagerInv'
<1>1. SP!StartInv'
  BY LaunchKeeps DEF ManagerInv
<1>2. UNCHANGED <<auth_state_, init_state_, wallet_state_, heard>>
  BY DEF Session!LaunchStep, Session!Silent, Session!stateVars
<1>3. WakeInv'
  BY <1>2 DEF ManagerInv, WakeInv
<1> QED  BY <1>1, <1>3 DEF ManagerInv

\* What schedule_wallet_stop_and_start and schedule_wallet_wait_and_start make of s.
Rescheduled(s, r) ==
    /\ r \in States
    /\ ~r.m.is_loaded /\ r.m.environment_error = s.m.environment_error
    /\ r.status # "DS_OK"
    /\ r.tasks[Ask] = s.tasks[Ask]
    /\ \E kind \in TaskKinds \ {Ask} : r.tasks[kind] > 0

LEMMA ScheduleDoes ==
    ASSUME NEW s \in States, NEW mode \in {"WAIT_AND_START", "STOP_AND_START"},
           NEW r, r = Schedule(s, mode)
    PROVE  Rescheduled(s, r)
<1> DEFINE m == [s.m EXCEPT !.is_loaded = FALSE]
           t == [s.tasks EXCEPT ![mode] = @ + 1]
           f == [s EXCEPT !.m.is_loaded = FALSE, !.tasks[mode] = @ + 1]
           Put(u) == [m |-> m, status |-> u, tasks |-> t]
<1>1. /\ s.m \in Managers /\ s.status \in Session!DataStates /\ s.tasks \in [TaskKinds -> Nat]
      /\ s = [m |-> s.m, status |-> s.status, tasks |-> s.tasks]
      /\ mode \in TaskKinds \ {Ask} /\ Ask \in TaskKinds
  BY DEF States, TaskKinds, Ask
<1>2. m \in Managers /\ m.is_loaded = FALSE /\ m.environment_error = s.m.environment_error
  BY <1>1 DEF Managers
<1>3. t \in [TaskKinds -> Nat] /\ t[mode] > 0 /\ t[Ask] = s.tasks[Ask]
  BY <1>1
<1>4. f = Put(s.status)
  <2> DEFINE g == [s EXCEPT !.m = m]
  <2>1. f = [g EXCEPT !.tasks = t]
    BY <1>1
  <2> HIDE DEF m, t, f
  <2> QED  BY <1>1, <2>1
<1>5. r = [f EXCEPT !.status = Status(f.m, auth_state_)]
  BY DEF Schedule, Notified
<1> HIDE DEF m, t, f
<1>6. r = Put(Status(m, auth_state_))
  BY <1>4, <1>5
<1>7. Status(m, auth_state_) \in Session!DataStates /\ Status(m, auth_state_) # "DS_OK"
  BY <1>2 DEF Status, Session!DataStates
<1>8. r \in States /\ r.m = m /\ r.status # "DS_OK" /\ r.tasks = t
  BY <1>2, <1>3, <1>6, <1>7 DEF States
<1> QED  BY <1>1, <1>2, <1>3, <1>8 DEF Rescheduled

LEMMA AfterReplyDoes ==
    ASSUME State \in States, NEW call, NEW r, r = AfterReply(call)
    PROVE  r = State \/ Rescheduled(State, r)
<1> DEFINE first == Schedule(State, "WAIT_AND_START")
<1>1. \/ r = State
      \/ r = Schedule(State, "WAIT_AND_START")
      \/ r = Schedule(State, "STOP_AND_START")
      \/ r = Schedule(first, "STOP_AND_START")
  BY DEF AfterReply
<1>2. Rescheduled(State, first)
  <2> PICK s, f : s = State /\ f = first
    OBVIOUS
  <2>1. Rescheduled(s, f)
    BY ScheduleDoes
  <2> QED  BY <2>1
<1> PICK s, f : s = State /\ f = first
  OBVIOUS
<1> HIDE DEF first
<1>3. r = Schedule(s, "STOP_AND_START") => Rescheduled(s, r)
  BY ScheduleDoes
<1>4. r = Schedule(f, "STOP_AND_START") => Rescheduled(f, r)
  BY <1>2, ScheduleDoes DEF Rescheduled
<1>5. r = Schedule(f, "STOP_AND_START") => Rescheduled(s, r)
  BY <1>2, <1>4 DEF Rescheduled
<1> QED  BY <1>1, <1>2, <1>3, <1>5 DEF first

\* The requests for the first address in flight stay in flight, and there are no others.
AsksStay == \A c \in Calls : Asks(c)' <=> Asks(c)

LEMMA StillKeeps ==
    ASSUME ManagerInv, Session!LaunchStep, UNCHANGED used, SP!Launching', OwnTypes', AsksStay,
           wallet_restarting_ => wallet_restarting_',
           \/ UNCHANGED <<manager, status, tasks>>
           \/ \E r : Rescheduled(State, r) /\ Becomes(r)
    PROVE  ManagerInv'
<1>1. OwnTypes /\ ButtonIsTruthful /\ WakeInv
  BY DEF ManagerInv
<1>2. Ask \in TaskKinds /\ State.tasks = tasks /\ State.m = manager /\ auth_state_' = auth_state_
  BY <1>1, StateIs DEF Session!LaunchStep, Session!stateVars
<1>3. CASE UNCHANGED <<manager, status, tasks>>
  <2>1. Retrying => Retrying'
    BY <1>3 DEF Retrying
  <2>2. UnderWay => UnderWay'
    BY <1>3 DEF UnderWay, AsksStay, Asks
  <2>3. ButtonIsTruthful'
    BY <1>1, <1>2, <1>3 DEF ButtonIsTruthful
  <2>4. auth_state_ = "AUTH_UNDEFINED" =>
           ~manager'.is_loaded /\ tasks'[Ask] = 0 /\ \A c \in Calls : ~Asks(c)'
    BY <1>1, <1>3 DEF WakeInv, AsksStay
  <2> QED  BY <1>3, <2>1, <2>2, <2>3, <2>4, RestKeeps
<1>4. CASE \E r : Rescheduled(State, r) /\ Becomes(r)
  <2>1. PICK r : Rescheduled(State, r) /\ Becomes(r)
    BY <1>4
  <2>2. /\ ~manager'.is_loaded /\ manager'.environment_error = manager.environment_error
        /\ status' # "DS_OK" /\ tasks'[Ask] = tasks[Ask]
        /\ \E kind \in TaskKinds \ {Ask} : tasks'[kind] > 0
    BY <1>2, <2>1 DEF Rescheduled, Becomes
  <2>3. Retrying' /\ UnderWay'
    BY <2>2 DEF Retrying, UnderWay
  <2>4. ButtonIsTruthful'
    BY <2>2 DEF ButtonIsTruthful
  <2>5. auth_state_ = "AUTH_UNDEFINED" =>
           ~manager'.is_loaded /\ tasks'[Ask] = 0 /\ \A c \in Calls : ~Asks(c)'
    BY <1>1, <2>2 DEF WakeInv, AsksStay
  <2> QED  BY <2>2, <2>3, <2>4, <2>5, RestKeeps
<1> QED  BY <1>3, <1>4

-----------------------------------------------------------------------------
(* The calls in flight                                                      *)

AllMethods == {"getfirstaddress", "getbalance"} \cup TabMethods

\* Call c, of that method and tab, is new; the others are as they were.
Sent(c, method, tab) ==
    /\ ui_requests_[c] = NoCall
    /\ ui_requests_'[c] # NoCall /\ ui_requests_'[c].method = method /\ ui_requests_'[c].tab = tab
    /\ \A d \in Calls \ {c} : ui_requests_'[d] = ui_requests_[d]

Ended(c) == ui_requests_'[c] = NoCall /\ \A d \in Calls \ {c} : ui_requests_'[d] = ui_requests_[d]

\* The same calls, whatever became of them.
SameCalls ==
    \A c \in Calls :
        /\ ui_requests_'[c] = NoCall <=> ui_requests_[c] = NoCall
        /\ ui_requests_[c] # NoCall => /\ ui_requests_'[c].method = ui_requests_[c].method
                                       /\ ui_requests_'[c].tab = ui_requests_[c].tab

LEMMA SendDoes ==
    ASSUME CallTypes, token_base64_ \in {Current, Stale, "none"},
           NEW c \in Calls, NEW method \in AllMethods, NEW tab \in Tabs \cup {NoTab},
           Send(c, method, tab)
    PROVE  CallTypes' /\ Sent(c, method, tab)
<1> DEFINE call == [method |-> method, tab |-> tab, reply |-> "sent", address |-> NoAddress,
                    token |-> IF method = "api" THEN "none" ELSE token_base64_]
<1>1. call \in Call /\ call.method = method /\ call.tab = tab
  BY DEF Call, AllMethods, Replies
<1>2. call # NoCall
  BY <1>1, NoCallIsNone
<1>3. ui_requests_' = [ui_requests_ EXCEPT ![c] = call] /\ ui_requests_[c] = NoCall
  BY DEF Send
<1> HIDE DEF call
<1>4. CallTypes'
  BY <1>1, <1>3 DEF CallTypes
<1> QED  BY <1>1, <1>2, <1>3, <1>4 DEF CallTypes, Sent

LEMMA FinishDoes ==
    ASSUME CallTypes, NEW c \in Calls, Finish(c)
    PROVE  CallTypes' /\ Ended(c)
BY DEF CallTypes, Finish, Ended

LEMMA ReplyDoes ==
    ASSUME CallTypes, NEW c \in Calls, ui_requests_[c] # NoCall,
           NEW reply \in Replies, NEW address \in Addresses \cup {NoAddress}, Reply(c, reply, address)
    PROVE  CallTypes' /\ SameCalls
<1> DEFINE new == [ui_requests_[c] EXCEPT !.reply = reply, !.address = address]
<1>1. ui_requests_[c] \in Call
  BY DEF CallTypes
<1>2. new \in Call /\ new.method = ui_requests_[c].method /\ new.tab = ui_requests_[c].tab
  BY <1>1 DEF Call
<1>3. new # NoCall
  BY <1>2, NoCallIsNone
<1>4. ui_requests_' = [ui_requests_ EXCEPT ![c] = new]
  BY DEF Reply
<1> HIDE DEF new
<1>5. CallTypes'
  BY <1>2, <1>4 DEF CallTypes
<1> QED  BY <1>2, <1>3, <1>4, <1>5 DEF CallTypes, SameCalls

LEMMA NewWalletDoes ==
    ASSUME CallTypes, NewWallet, token_base64_ \in {Current, Stale, "none"},
           wallet \in [up : BOOLEAN, told : BOOLEAN, address : Addresses, seed : Addresses]
    PROVE  /\ CallTypes' /\ SameCalls
           /\ token_base64_' \in {Current, Stale, "none"}
           /\ wallet' \in [up : BOOLEAN, told : BOOLEAN, address : Addresses, seed : Addresses]
<1>1. \A token \in {Current, Stale, "none"} : Outdated(token) \in {Current, Stale, "none"}
  BY DEF Outdated
<1> DEFINE new(c) == IF ui_requests_[c] = NoCall THEN NoCall
                     ELSE [ui_requests_[c] EXCEPT !.token = Outdated(@)]
<1>2. ASSUME NEW c \in Calls
      PROVE  /\ new(c) \in Call \cup {NoCall}
             /\ new(c) = NoCall <=> ui_requests_[c] = NoCall
             /\ ui_requests_[c] # NoCall => /\ new(c).method = ui_requests_[c].method
                                            /\ new(c).tab = ui_requests_[c].tab
  <2>1. CASE ui_requests_[c] = NoCall
    BY <2>1
  <2>2. CASE ui_requests_[c] # NoCall
    <3>1. ui_requests_[c] \in Call
      BY <2>2 DEF CallTypes
    <3>2. ui_requests_[c].token \in {Current, Stale, "none"}
      BY <3>1 DEF Call
    <3>3. /\ new(c) \in Call /\ new(c).method = ui_requests_[c].method
          /\ new(c).tab = ui_requests_[c].tab
      BY <1>1, <2>2, <3>1, <3>2 DEF Call
    <3> QED  BY <2>2, <3>3, NoCallIsNone
  <2> QED  BY <2>1, <2>2
<1>3. ui_requests_' = [c \in Calls |-> new(c)]
  BY DEF NewWallet
<1> HIDE DEF new
<1>4. CallTypes' /\ SameCalls
  BY <1>2, <1>3 DEF CallTypes, SameCalls
<1>5. wallet' = [up |-> TRUE, told |-> FALSE, address |-> wallet.seed, seed |-> wallet.seed]
      /\ wallet.seed \in Addresses /\ token_base64_' = Outdated(token_base64_)
  BY DEF NewWallet
<1> QED  BY <1>1, <1>4, <1>5

LEMMA AsksAre ==
    /\ SameCalls => AsksStay
    /\ \A c \in Calls : \A method, tab : Sent(c, method, tab) /\ method # "getfirstaddress" => AsksStay
    /\ \A c \in Calls : Ended(c) /\ ~Asks(c) => AsksStay
    /\ UNCHANGED ui_requests_ => AsksStay
<1>1. SameCalls => AsksStay
  BY DEF SameCalls, AsksStay, Asks
<1>2. ASSUME NEW c \in Calls, NEW method, NEW tab, Sent(c, method, tab), method # "getfirstaddress"
      PROVE  AsksStay
  BY <1>2 DEF Sent, AsksStay, Asks
<1>3. ASSUME NEW c \in Calls, Ended(c), ~Asks(c)
      PROVE  AsksStay
  BY <1>3 DEF Ended, AsksStay, Asks
<1>4. UNCHANGED ui_requests_ => AsksStay
  BY DEF AsksStay, Asks
<1> QED  BY <1>1, <1>2, <1>3, <1>4

-----------------------------------------------------------------------------
(* Each action keeps the invariant                                          *)

LEMMA LaunchTypes ==
    ASSUME SP!StartInv
    PROVE  /\ SP!Launching
           /\ wallet_restarting_ \in BOOLEAN /\ token_base64_ \in {Current, Stale, "none"}
           /\ launches \in [Session!Modes -> Nat] /\ results \in Seq(SP!Result)
BY DEF SP!StartInv, SP!TypeOK, SP!Launching, SP!Modes, Session!Modes

LEMMA IdleKeeps ==
    ASSUME ManagerInv, SessionIdle, OwnTypes', AsksStay,
           \/ UNCHANGED <<manager, status, tasks>>
           \/ \E r : Rescheduled(State, r) /\ Becomes(r)
    PROVE  ManagerInv'
<1>1. Session!LaunchStep /\ UNCHANGED <<launchVars, used>> /\ SP!StartInv
  BY DEF SessionIdle, ManagerInv
<1>2. SP!Launching'
  BY <1>1, LaunchTypes DEF SP!Launching, launchVars
<1> QED  BY <1>1, <1>2, StillKeeps DEF launchVars

\* What a step leaves of the types when the manager is as it was.
LEMMA ManagerSame == State \in States /\ UNCHANGED <<manager, status, tasks>> => (State \in States)'
BY DEF State, States

LEMMA ManagerBecomes == ASSUME NEW r \in States, Becomes(r) PROVE (State \in States)'
BY DEF State, States, Becomes

LEMMA AskKeeps ==
    ASSUME ManagerInv, NEW c \in Calls, initialize_rpc_first_address(c)
    PROVE  ManagerInv'
<1>1. /\ SP!StartInv /\ OwnTypes /\ ButtonIsTruthful /\ WakeInv /\ CallTypes
      /\ tasks[Ask] > 0 /\ tasks' = [tasks EXCEPT ![Ask] = @ - 1]
      /\ Send(c, "getfirstaddress", NoTab)
      /\ SessionIdle /\ UNCHANGED walletVars /\ UNCHANGED <<manager, status, tabVars, outlived>>
  BY DEF ManagerInv, OwnTypes, initialize_rpc_first_address, Take, Taken, Quiet, Ask
<1>2. /\ Ask \in TaskKinds /\ tasks \in [TaskKinds -> Nat]
      /\ manager \in Managers /\ status \in Session!DataStates
  BY <1>1, StateIs
<1>3. CallTypes' /\ Sent(c, "getfirstaddress", NoTab)
  BY <1>1, LaunchTypes, SendDoes DEF AllMethods
<1>4. tasks' \in [TaskKinds -> Nat] /\ \A kind \in TaskKinds \ {Ask} : tasks'[kind] = tasks[kind]
  BY <1>1, <1>2
<1>5. OwnTypes'
  <2>1. (State \in States)'
    BY <1>1, <1>2, <1>4 DEF State, States
  <2> QED  BY <1>1, <1>3, <2>1 DEF OwnTypes, tabVars, walletVars
<1>6. /\ Session!LaunchStep /\ UNCHANGED <<launchVars, used>> /\ UNCHANGED wallet_restarting_
      /\ auth_state_' = auth_state_
  BY <1>1 DEF SessionIdle, launchVars, Session!LaunchStep, Session!stateVars
<1>7. SP!Launching'
  BY <1>1, <1>6, LaunchTypes DEF SP!Launching, launchVars
<1>8. UnderWay' /\ (Retrying => Retrying')
  BY <1>3, <1>4, <1>6 DEF UnderWay, Retrying, Sent
<1>9. ButtonIsTruthful'
  BY <1>1, <1>6 DEF ButtonIsTruthful
<1>10. auth_state_ # "AUTH_UNDEFINED"
  BY <1>1 DEF WakeInv
<1> QED  BY <1>1, <1>5, <1>6, <1>7, <1>8, <1>9, <1>10, RestKeeps

LEMMA StopTaskKeeps ==
    ASSUME ManagerInv, schedule_wallet_stop_and_start
    PROVE  ManagerInv'
<1>1. /\ OwnTypes /\ CallTypes /\ tasks[Stop] > 0
      /\ Becomes(Schedule([State EXCEPT !.tasks = [tasks EXCEPT ![Stop] = @ - 1]], "STOP_AND_START"))
      /\ SessionIdle /\ UNCHANGED walletVars /\ UNCHANGED <<ui_requests_, tabVars, outlived>>
  BY DEF ManagerInv, OwnTypes, schedule_wallet_stop_and_start, Take, Taken, Quiet, Stop
<1>2. /\ Stop \in TaskKinds /\ Ask \in TaskKinds /\ Ask # Stop /\ tasks \in [TaskKinds -> Nat]
      /\ State.tasks = tasks /\ State.m = manager
      /\ State = [m |-> manager, status |-> status, tasks |-> tasks]
      /\ manager \in Managers /\ status \in Session!DataStates
  BY <1>1, StateIs DEF State
<1> DEFINE t == [tasks EXCEPT ![Stop] = @ - 1]
<1>3. t \in [TaskKinds -> Nat] /\ t[Ask] = tasks[Ask]
  BY <1>1, <1>2
<1> PICK s, r : s = [State EXCEPT !.tasks = t] /\ r = Schedule(s, "STOP_AND_START")
  OBVIOUS
<1>4. Becomes(r)
  BY <1>1
<1> HIDE DEF t
<1>5. s = [m |-> manager, status |-> status, tasks |-> t]
  BY <1>2
<1>6. s \in States /\ s.m = manager /\ s.tasks = t
  BY <1>2, <1>3, <1>5 DEF States
<1>7. Rescheduled(s, r)
  BY <1>6, ScheduleDoes
<1>8. Rescheduled(State, r)
  BY <1>2, <1>3, <1>6, <1>7 DEF Rescheduled
<1>9. OwnTypes'
  <2>1. (State \in States)'
    BY <1>4, <1>8, ManagerBecomes DEF Rescheduled
  <2> QED  BY <1>1, <2>1 DEF OwnTypes, CallTypes, tabVars, walletVars
<1>10. AsksStay
  BY <1>1, AsksAre
<1> QED  BY <1>1, <1>4, <1>8, <1>9, <1>10, IdleKeeps

LEMMA WalletStartKeeps ==
    ASSUME ManagerInv, NEW mode \in Session!Modes, wallet_start(mode)
    PROVE  ManagerInv'
<1>1. /\ SP!StartInv /\ OwnTypes /\ CallTypes /\ ButtonIsTruthful /\ WakeInv
      /\ tasks[mode] > 0 /\ tasks' = [tasks EXCEPT ![mode] = @ - 1]
      /\ Session!wallet_start(mode) /\ Session!LaunchStep
      /\ UNCHANGED <<used, manager, status, ui_requests_, tabVars, walletVars, outlived>>
  BY DEF ManagerInv, OwnTypes, wallet_start, Take, Taken
<1>2. /\ mode \in TaskKinds \ {Ask} /\ tasks \in [TaskKinds -> Nat] /\ Ask \in TaskKinds
      /\ manager \in Managers /\ status \in Session!DataStates
  BY <1>1, StateIs DEF Session!Modes, TaskKinds, Ask
<1>3. tasks' \in [TaskKinds -> Nat] /\ tasks'[Ask] = tasks[Ask]
  BY <1>1, <1>2
<1>4. wallet_restarting_' = TRUE /\ auth_state_' = auth_state_
  BY <1>1 DEF Session!wallet_start, Session!LaunchStep, Session!stateVars
<1>5. SP!Launching'
  <2>1. launches' \in [SP!Modes -> Nat]
    BY <1>1, LaunchTypes DEF Session!wallet_start, SP!Launching, SP!Modes, Session!Modes
  <2> QED  BY <1>1, <1>4, <2>1, LaunchTypes DEF Session!wallet_start, SP!Launching
<1>6. OwnTypes'
  <2>1. (State \in States)'
    BY <1>1, <1>2, <1>3 DEF State, States
  <2> QED  BY <1>1, <2>1 DEF OwnTypes, CallTypes, tabVars, walletVars
<1>7. UnderWay' /\ Retrying'
  BY <1>4 DEF UnderWay, Retrying
<1>8. ButtonIsTruthful'
  BY <1>1, <1>4 DEF ButtonIsTruthful
<1>9. auth_state_ = "AUTH_UNDEFINED" =>
         ~manager'.is_loaded /\ tasks'[Ask] = 0 /\ \A c \in Calls : ~Asks(c)'
  BY <1>1, <1>3 DEF WakeInv, Asks
<1> QED  BY <1>1, <1>4, <1>5, <1>6, <1>7, <1>8, <1>9, RestKeeps

LEMMA TabKeeps ==
    ASSUME ManagerInv,
           \/ \E c \in Calls : request_balance(c)
           \/ \E t \in Tabs : CloseTab(t)
           \/ \E t \in Tabs, method \in Methods, c \in Calls : request_http(c, t, method)
           \/ \E t \in Tabs : restartwallet(t)
    PROVE  ManagerInv'
<1>1. OwnTypes /\ CallTypes /\ State \in States /\ token_base64_ \in {Current, Stale, "none"}
  BY LaunchTypes DEF ManagerInv, OwnTypes
<1>2. ASSUME NEW c \in Calls, request_balance(c) PROVE ManagerInv'
  <2>1. /\ Send(c, "getbalance", NoTab) /\ SessionIdle /\ UNCHANGED walletVars
        /\ UNCHANGED <<manager, status, tasks, tabVars, outlived>>
    BY <1>2 DEF request_balance, Quiet
  <2>2. CallTypes' /\ Sent(c, "getbalance", NoTab)
    BY <1>1, <2>1, SendDoes DEF AllMethods
  <2>3. AsksStay
    BY <2>2, AsksAre
  <2>4. OwnTypes'
    BY <1>1, <2>1, <2>2, ManagerSame DEF OwnTypes, tabVars, walletVars
  <2> QED  BY <2>1, <2>3, <2>4, IdleKeeps
<1>3. ASSUME NEW t \in Tabs, CloseTab(t) PROVE ManagerInv'
  <2>1. /\ tabs' = [tabs EXCEPT ![t] = "closed"] /\ SessionIdle /\ UNCHANGED walletVars
        /\ UNCHANGED <<manager, status, tasks, ui_requests_, answers, outlived>>
    BY <1>3 DEF CloseTab, Quiet
  <2>2. OwnTypes'
    <3>1. tabs' \in [Tabs -> {"open", "asked", "closed"}]
      BY <1>1, <2>1 DEF OwnTypes
    <3> QED  BY <1>1, <2>1, <3>1, ManagerSame DEF OwnTypes, CallTypes, walletVars
  <2> QED  BY <2>1, <2>2, AsksAre, IdleKeeps
<1>4. ASSUME NEW t \in Tabs, NEW method \in Methods, NEW c \in Calls, request_http(c, t, method)
      PROVE  ManagerInv'
  <2>1. /\ tabs' = [tabs EXCEPT ![t] = "asked"] /\ SessionIdle /\ UNCHANGED walletVars
        /\ UNCHANGED <<manager, status, tasks, outlived>>
        /\ \/ answers' = [answers EXCEPT ![t] = @ + 1] /\ UNCHANGED ui_requests_
           \/ Send(c, method, t) /\ UNCHANGED answers
    BY <1>4 DEF request_http, Quiet
  <2>2. /\ tabs' \in [Tabs -> {"open", "asked", "closed"}]
        /\ answers' \in [Tabs -> Nat]
    BY <1>1, <2>1 DEF OwnTypes
  <2>3. method \in AllMethods /\ method # "getfirstaddress"
    BY MethodsAssumption DEF AllMethods, TabMethods
  <2>4. Send(c, method, t) => CallTypes' /\ Sent(c, method, t)
    BY <1>1, <2>3, SendDoes
  <2>5. UNCHANGED ui_requests_ => CallTypes'
    BY <1>1 DEF CallTypes
  <2>6. CallTypes' /\ AsksStay
    BY <2>1, <2>3, <2>4, <2>5, AsksAre
  <2>7. OwnTypes'
    BY <1>1, <2>1, <2>2, <2>6, ManagerSame DEF OwnTypes, walletVars
  <2> QED  BY <2>1, <2>6, <2>7, IdleKeeps
<1>5. ASSUME NEW t \in Tabs, restartwallet(t) PROVE ManagerInv'
  <2>1. /\ tabs' = [tabs EXCEPT ![t] = "asked"] /\ answers' = [answers EXCEPT ![t] = @ + 1]
        /\ Becomes(Schedule(State, "STOP_AND_START"))
        /\ SessionIdle /\ UNCHANGED walletVars /\ UNCHANGED <<ui_requests_, outlived>>
    BY <1>5 DEF restartwallet, Quiet
  <2> PICK s, r : s = State /\ r = Schedule(s, "STOP_AND_START")
    OBVIOUS
  <2>2. Rescheduled(s, r)
    BY <1>1, ScheduleDoes
  <2>3. Becomes(r) /\ Rescheduled(State, r)
    BY <2>1, <2>2
  <2>4. OwnTypes'
    <3>1. /\ tabs' \in [Tabs -> {"open", "asked", "closed"}]
          /\ answers' \in [Tabs -> Nat]
      BY <1>1, <2>1 DEF OwnTypes
    <3>2. (State \in States)'
      BY <2>3, ManagerBecomes DEF Rescheduled
    <3> QED  BY <1>1, <2>1, <3>1, <3>2 DEF OwnTypes, CallTypes, walletVars
  <2> QED  BY <2>1, <2>3, <2>4, AsksAre, IdleKeeps
<1> QED  BY <1>2, <1>3, <1>4, <1>5

LEMMA AnswerTypes ==
    ASSUME answers \in [Tabs -> Nat], NEW t \in Tabs, Answer(t)
    PROVE  answers' \in [Tabs -> Nat]
BY DEF Answer

LEMMA ResponseKeeps ==
    ASSUME ManagerInv, NEW c \in Calls, on_http_response(c)
    PROVE  ManagerInv'
<1>1. OwnTypes /\ CallTypes /\ State \in States
  BY DEF ManagerInv, OwnTypes
<1>2. /\ ui_requests_[c] # NoCall /\ ui_requests_[c].method # "getfirstaddress"
      /\ Becomes(AfterReply(ui_requests_[c]))
      /\ IF ui_requests_[c].tab = NoTab THEN UNCHANGED answers ELSE Answer(ui_requests_[c].tab)
      /\ Finish(c) /\ SessionIdle /\ UNCHANGED walletVars /\ UNCHANGED <<tabs, outlived>>
  BY DEF on_http_response, Quiet
<1> PICK s, call, r : s = State /\ call = ui_requests_[c] /\ r = AfterReply(call)
  OBVIOUS
<1>3. r = State \/ Rescheduled(State, r)
  BY <1>1, AfterReplyDoes
<1>4. Becomes(r)
  BY <1>2
<1>5. r \in States
  BY <1>1, <1>3 DEF Rescheduled
<1>6. CallTypes' /\ Ended(c)
  BY <1>1, <1>2, FinishDoes
<1>7. answers' \in [Tabs -> Nat]
  <2>1. call \in Call
    BY <1>1, <1>2 DEF CallTypes
  <2>2. call.tab \in Tabs \cup {NoTab}
    BY <2>1 DEF Call
  <2>3. UNCHANGED answers \/ \E t \in Tabs : Answer(t)
    BY <1>2, <2>2
  <2> QED  BY <1>1, <2>3, AnswerTypes DEF OwnTypes
<1>8. OwnTypes'
  <2>1. (State \in States)'
    BY <1>4, <1>5, ManagerBecomes
  <2> QED  BY <1>1, <1>2, <1>6, <1>7, <2>1 DEF OwnTypes, walletVars
<1>9. AsksStay
  BY <1>2, <1>6, AsksAre DEF Asks
<1>10. r = State => UNCHANGED <<manager, status, tasks>>
  BY <1>4 DEF Becomes, State
<1> QED  BY <1>2, <1>3, <1>4, <1>8, <1>9, <1>10, IdleKeeps

LEMMA PingKeeps ==
    ASSUME ManagerInv, NEW c \in Calls, end_ping_first_address_rpc(c)
    PROVE  ManagerInv'
<1>1. SP!StartInv /\ OwnTypes /\ CallTypes /\ State \in States /\ ButtonIsTruthful /\ WakeInv
  BY DEF ManagerInv, OwnTypes
<1> PICK call : call = ui_requests_[c]
  OBVIOUS
<1>2. /\ call # NoCall /\ call.method = "getfirstaddress"
      /\ IF call.reply = "ok"
         THEN /\ Becomes(Notified([State EXCEPT !.m =
                        [@ EXCEPT !.is_loaded = TRUE, !.first_address_ = call.address,
                                  !.polling_timer_ = TRUE]], auth_state_))
              /\ outlived' = (call.token = Stale)
         ELSE Post("START") /\ UNCHANGED <<manager, status, outlived>>
      /\ Finish(c) /\ SessionIdle /\ UNCHANGED walletVars /\ UNCHANGED tabVars
  BY DEF end_ping_first_address_rpc, Quiet
<1>3. /\ State = [m |-> manager, status |-> status, tasks |-> tasks]
      /\ manager \in Managers /\ status \in Session!DataStates /\ tasks \in [TaskKinds -> Nat]
      /\ "START" \in TaskKinds \ {Ask} /\ Ask \in TaskKinds
  BY <1>1, StateIs DEF State, TaskKinds, Ask
<1>4. CallTypes' /\ Ended(c)
  BY <1>1, <1>2, FinishDoes
<1>5. auth_state_ # "AUTH_UNDEFINED"
  BY <1>1, <1>2 DEF WakeInv, Asks
<1>6. /\ Session!LaunchStep /\ UNCHANGED <<launchVars, used>> /\ UNCHANGED wallet_restarting_
      /\ auth_state_' = auth_state_
  BY <1>2 DEF SessionIdle, launchVars, Session!LaunchStep, Session!stateVars
<1>7. SP!Launching'
  BY <1>1, <1>6, LaunchTypes DEF SP!Launching, launchVars
<1>8. CASE call.reply = "ok"
  <2> DEFINE m == [manager EXCEPT !.is_loaded = TRUE, !.first_address_ = call.address,
                                  !.polling_timer_ = TRUE]
             f == [State EXCEPT !.m = [@ EXCEPT !.is_loaded = TRUE, !.first_address_ = call.address,
                                                !.polling_timer_ = TRUE]]
  <2>1. call.address \in Addresses \cup {NoAddress}
    <3>1. call \in Call
      BY <1>1, <1>2 DEF CallTypes
    <3> QED  BY <3>1 DEF Call
  <2>2. m \in Managers /\ m.is_loaded = TRUE /\ m.environment_error = manager.environment_error
    BY <1>3, <2>1 DEF Managers
  <2>3. f = [m |-> m, status |-> status, tasks |-> tasks]
    BY <1>3
  <2>4. Becomes([f EXCEPT !.status = Status(f.m, auth_state_)])
    BY <1>2, <1>8 DEF Notified
  <2> HIDE DEF m, f
  <2>5. manager' = m /\ status' = Status(m, auth_state_) /\ tasks' = tasks
    BY <2>3, <2>4 DEF Becomes
  <2>6. status' \in Session!DataStates /\ (status' = "DS_OK" => /\ auth_state_ # "AUTH_NOT_LOGGED"
                                                               /\ m.environment_error = "DS_OK")
    BY <2>2, <2>5 DEF Status, Managers, Session!DataStates
  <2>7. auth_state_ \in Session!AuthStates
    BY <1>1, SameTypes DEF Session!TypeOK
  <2>8. ButtonIsTruthful'
    BY <1>5, <1>6, <2>2, <2>5, <2>6, <2>7 DEF ButtonIsTruthful, Session!AuthStates
  <2>9. OwnTypes'
    <3>1. (State \in States)'
      BY <1>3, <2>2, <2>5, <2>6 DEF State, States
    <3>2. outlived' \in BOOLEAN
      BY <1>2, <1>8
    <3> QED  BY <1>1, <1>2, <1>4, <3>1, <3>2 DEF OwnTypes, tabVars, walletVars
  <2>10. manager'.is_loaded /\ manager'.environment_error = manager.environment_error
    BY <2>2, <2>5
  <2>11. Retrying => Retrying'
    BY <1>6, <2>5 DEF Retrying
  <2> QED  BY <1>5, <1>6, <1>7, <2>8, <2>9, <2>10, <2>11, RestKeeps
<1>9. CASE call.reply # "ok"
  <2>1. tasks' = [tasks EXCEPT !["START"] = @ + 1] /\ UNCHANGED <<manager, status, outlived>>
    BY <1>2, <1>9 DEF Post
  <2>2. tasks' \in [TaskKinds -> Nat] /\ tasks'["START"] > 0
    BY <1>3, <2>1
  <2>3. Retrying' /\ UnderWay'
    BY <1>3, <2>2 DEF Retrying, UnderWay
  <2>4. OwnTypes'
    <3>1. (State \in States)'
      BY <1>3, <2>1, <2>2 DEF State, States
    <3> QED  BY <1>1, <1>2, <1>4, <2>1, <3>1 DEF OwnTypes, tabVars, walletVars
  <2>5. ButtonIsTruthful'
    BY <1>1, <1>6, <2>1 DEF ButtonIsTruthful
  <2> QED  BY <1>5, <1>6, <1>7, <2>1, <2>3, <2>4, <2>5, RestKeeps
<1> QED  BY <1>8, <1>9

-----------------------------------------------------------------------------
(* The wallet process, the servers and the launches                         *)

Wallets == [up : BOOLEAN, told : BOOLEAN, address : Addresses, seed : Addresses]

\* What a step outside the browser leaves alone, and of what types the rest stays.
Outside ==
    /\ Session!LaunchStep /\ UNCHANGED <<used, wallet_restarting_>> /\ External
    /\ SP!Launching' /\ SameCalls /\ CallTypes'
    /\ wallet' \in Wallets /\ faults' \in 0 .. MaxFaults

LEMMA IdleIsOutside ==
    ASSUME SP!StartInv, SessionIdle, External, SameCalls, CallTypes',
           wallet' \in Wallets, faults' \in 0 .. MaxFaults
    PROVE  Outside
<1>1. Session!LaunchStep /\ UNCHANGED <<launchVars, used>>
  BY DEF SessionIdle
<1>2. SP!Launching'
  BY <1>1, LaunchTypes DEF SP!Launching, launchVars
<1> QED  BY <1>1, <1>2 DEF Outside, launchVars

LEMMA FaultTypes ==
    ASSUME faults \in 0 .. MaxFaults
    PROVE  /\ Fault => faults' \in 0 .. MaxFaults
           /\ \A n \in Nat : Faults(n) => faults' \in 0 .. MaxFaults
BY ManagerAssumption DEF Fault, Faults

LEMMA ServeDoes ==
    ASSUME ManagerInv, NEW c \in Calls, Serve(c)
    PROVE  Outside
<1>1. /\ SP!StartInv /\ CallTypes /\ wallet \in Wallets /\ faults \in 0 .. MaxFaults
      /\ ui_requests_[c] # NoCall /\ External /\ SessionIdle
  BY DEF ManagerInv, OwnTypes, Wallets, Serve
<1>2. \E reply \in Replies, address \in Addresses \cup {NoAddress} : Reply(c, reply, address)
  <2>1. wallet.address \in Addresses \cup {NoAddress} /\ {"error", "ok", "refused"} \subseteq Replies
    BY <1>1 DEF Wallets, Replies
  <2> QED  BY <2>1 DEF Serve
<1>3. CallTypes' /\ SameCalls
  BY <1>1, <1>2, ReplyDoes
<1>4. wallet' \in Wallets /\ faults' \in 0 .. MaxFaults
  <2> DEFINE ends == ui_requests_[c].method \in {"sethdseed", "stop"}
  <2>1. \/ UNCHANGED walletVars
        \/ UNCHANGED faults /\ \E seed \in Addresses :
              wallet' = [wallet EXCEPT !.seed = seed, !.told = @ \/ ends]
        \/ Fault /\ UNCHANGED wallet
    <3>1. wallet.seed \in Addresses
      BY <1>1 DEF Wallets
    <3> QED  BY <3>1 DEF Serve
  <2>2. ends \in BOOLEAN
    OBVIOUS
  <2> HIDE DEF ends
  <2>3. ASSUME NEW seed \in Addresses, wallet' = [wallet EXCEPT !.seed = seed, !.told = @ \/ ends]
        PROVE  wallet' \in Wallets
    BY <1>1, <2>2, <2>3 DEF Wallets
  <2> QED  BY <1>1, <2>1, <2>3, FaultTypes DEF walletVars
<1> QED  BY <1>1, <1>3, <1>4, IdleIsOutside

LEMMA LoseDoes ==
    ASSUME ManagerInv, NEW c \in Calls, Lose(c)
    PROVE  Outside
<1>1. /\ SP!StartInv /\ CallTypes /\ wallet \in Wallets /\ faults \in 0 .. MaxFaults
      /\ ui_requests_[c] # NoCall /\ External /\ SessionIdle /\ UNCHANGED wallet
  BY DEF ManagerInv, OwnTypes, Wallets, Lose
<1>2. \E reply \in Replies : Reply(c, reply, NoAddress)
  BY DEF Lose, Replies
<1>3. CallTypes' /\ SameCalls
  BY <1>1, <1>2, ReplyDoes
<1>4. faults' \in 0 .. MaxFaults
  BY <1>1, FaultTypes DEF Lose
<1> QED  BY <1>1, <1>3, <1>4, IdleIsOutside

LEMMA ExitDoes == ASSUME ManagerInv, Exit PROVE Outside
<1>1. /\ SP!StartInv /\ CallTypes /\ wallet \in Wallets /\ faults \in 0 .. MaxFaults
      /\ External /\ SessionIdle /\ UNCHANGED ui_requests_
      /\ wallet' = [wallet EXCEPT !.up = FALSE]
  BY DEF ManagerInv, OwnTypes, Wallets, Exit
<1>2. wallet' \in Wallets
  BY <1>1 DEF Wallets
<1>3. faults' \in 0 .. MaxFaults
  BY <1>1, FaultTypes DEF Exit
<1>4. CallTypes' /\ SameCalls
  BY <1>1 DEF CallTypes, SameCalls
<1> QED  BY <1>1, <1>2, <1>3, <1>4, IdleIsOutside

\* Results that are waiting stay results when their token becomes an old one.
LEMMA OldResultsAre == results \in Seq(SP!Result) => OldResults \in Seq(SP!Result)
<1> SUFFICES ASSUME results \in Seq(SP!Result) PROVE OldResults \in Seq(SP!Result)
  OBVIOUS
<1>1. \A res \in SP!Result : [res EXCEPT !.token = Outdated(@)] \in SP!Result
  <2> SUFFICES ASSUME NEW res \in SP!Result PROVE [res EXCEPT !.token = Outdated(@)] \in SP!Result
    OBVIOUS
  <2>1. CASE res \in [state : SP!LaunchErrors, token : {"none"}]
    BY <2>1 DEF SP!Result, Outdated, Current
  <2>2. CASE res \in [state : {"DS_OK"}, token : {Current, Stale}]
    BY <2>2 DEF SP!Result, Outdated
  <2> QED  BY <2>1, <2>2 DEF SP!Result
<1>2. Len(results) \in Nat /\ DOMAIN results = 1 .. Len(results)
      /\ \A i \in 1 .. Len(results) : results[i] \in SP!Result
  BY LenProperties, ElementOfSeq
<1> DEFINE f(i) == [results[i] EXCEPT !.token = Outdated(@)]
<1>3. \A i \in 1 .. Len(results) : f(i) \in SP!Result
  BY <1>1, <1>2
<1>4. OldResults = [i \in 1 .. Len(results) |-> f(i)]
  BY <1>2 DEF OldResults
<1> HIDE DEF f
<1> QED  BY <1>2, <1>3, <1>4, IsASeq

LEMMA UserStartsDoes == ASSUME ManagerInv, UserStarts PROVE Outside
<1>1. /\ SP!StartInv /\ CallTypes /\ wallet \in Wallets /\ faults \in 0 .. MaxFaults
      /\ NewWallet /\ External /\ Session!LaunchStep
      /\ UNCHANGED <<faults, used, wallet_restarting_, launches>>
      /\ results' = OldResults
  BY DEF ManagerInv, OwnTypes, Wallets, UserStarts
<1>2. /\ SP!Launching /\ token_base64_ \in {Current, Stale, "none"} /\ results \in Seq(SP!Result)
  BY <1>1, LaunchTypes
<1>3. CallTypes' /\ SameCalls /\ token_base64_' \in {Current, Stale, "none"} /\ wallet' \in Wallets
  BY <1>1, <1>2, NewWalletDoes DEF Wallets
<1>4. results' \in Seq(SP!Result)
  BY <1>1, <1>2, OldResultsAre
<1>5. SP!Launching'
  BY <1>1, <1>2, <1>3, <1>4 DEF SP!Launching
<1> QED  BY <1>1, <1>3, <1>5 DEF Outside

\* A chain of a launch ends with a result, after results that are as they were or outdated.
LEMMA ChainIsOver ==
    ASSUME SP!StartInv, NEW mode \in Session!Modes, NEW forks \in Nat, Session!ChainEnds(mode, forks),
           NEW earlier \in Seq(SP!Result), NEW res \in SP!Result, results' = Append(earlier, res),
           token_base64_' \in {Current, Stale, "none"}
    PROVE  SP!Launching' /\ UNCHANGED wallet_restarting_
<1>1. SP!Launching /\ mode \in SP!Modes
  BY LaunchTypes DEF SP!Modes, Session!Modes
<1>2. SP!ChainEnds(mode, forks)
  BY DEF Session!ChainEnds, SP!ChainEnds
<1>3. launches' \in [SP!Modes -> Nat] /\ UNCHANGED wallet_restarting_
  BY <1>1, <1>2, SP!ChainsCounted, SessionConstants DEF SP!Launching
<1>4. results' \in Seq(SP!Result)
  BY AppendProperties
<1> QED  BY <1>1, <1>3, <1>4 DEF SP!Launching

LEMMA LaunchDoes ==
    ASSUME ManagerInv, NEW mode \in Session!Modes, NEW forks \in 0 .. MaxFaults, Launch(mode, forks)
    PROVE  Outside
<1>1. /\ SP!StartInv /\ CallTypes /\ wallet \in Wallets /\ faults \in 0 .. MaxFaults
      /\ External /\ Session!LaunchStep /\ UNCHANGED used /\ Session!ChainEnds(mode, forks)
      /\ UNCHANGED <<wallet, token_base64_, ui_requests_>> \/ NewWallet
      /\ Faults(forks) \/ Faults(forks + 1)
      /\ \E earlier \in {results, OldResults}, token \in {Current, Stale} :
            results' = Append(earlier, [state |-> "DS_OK", token |-> token])
  BY DEF ManagerInv, OwnTypes, Wallets, Launch
<1>2. token_base64_ \in {Current, Stale, "none"} /\ results \in Seq(SP!Result)
  BY <1>1, LaunchTypes
<1>3. CallTypes' /\ SameCalls /\ token_base64_' \in {Current, Stale, "none"} /\ wallet' \in Wallets
  <2>1. CASE UNCHANGED <<wallet, token_base64_, ui_requests_>>
    BY <1>1, <1>2, <2>1 DEF CallTypes, SameCalls
  <2>2. CASE NewWallet
    BY <1>1, <1>2, <2>2, NewWalletDoes DEF Wallets
  <2> QED  BY <1>1, <2>1, <2>2
<1>4. forks \in Nat /\ forks + 1 \in Nat
  BY ManagerAssumption
<1>5. SP!Launching' /\ UNCHANGED wallet_restarting_
  <2>1. \A token \in {Current, Stale} : [state |-> "DS_OK", token |-> token] \in SP!Result
    BY DEF SP!Result
  <2>2. results \in Seq(SP!Result) /\ OldResults \in Seq(SP!Result)
    BY <1>2, OldResultsAre
  <2>3. PICK earlier \in Seq(SP!Result), res \in SP!Result : results' = Append(earlier, res)
    BY <1>1, <2>1, <2>2
  <2> QED  BY <1>1, <1>3, <1>4, <2>3, ChainIsOver
<1>6. faults' \in 0 .. MaxFaults
  BY <1>1, <1>4, FaultTypes
<1> QED  BY <1>1, <1>3, <1>5, <1>6 DEF Outside

LEMMA LaunchFailsDoes ==
    ASSUME ManagerInv, NEW mode \in Session!Modes, NEW forks \in 0 .. MaxFaults, LaunchFails(mode, forks)
    PROVE  Outside
<1>1. /\ SP!StartInv /\ CallTypes /\ wallet \in Wallets /\ faults \in 0 .. MaxFaults
      /\ External /\ Session!LaunchStep
      /\ UNCHANGED <<used, token_base64_, wallet, ui_requests_>>
      /\ Faults(forks + 1) \/ Faults(0)
      /\ \E state \in Session!LaunchErrors :
            Session!wallet_launch(mode, forks, [state |-> state, token |-> "none"])
  BY DEF ManagerInv, OwnTypes, Wallets, LaunchFails, Session!LaunchErrors
<1>2. token_base64_' \in {Current, Stale, "none"} /\ results \in Seq(SP!Result)
  BY <1>1, LaunchTypes
<1>3. forks \in Nat /\ forks + 1 \in Nat /\ 0 \in Nat
  BY ManagerAssumption
<1>4. SP!Launching' /\ UNCHANGED wallet_restarting_
  <2>1. \A state \in Session!LaunchErrors : [state |-> state, token |-> "none"] \in SP!Result
    BY DEF SP!Result, SP!LaunchErrors, Session!LaunchErrors
  <2>2. PICK res \in SP!Result : Session!wallet_launch(mode, forks, res)
    BY <1>1, <2>1
  <2>3. Session!ChainEnds(mode, forks) /\ results' = Append(results, res)
    BY <2>2 DEF Session!wallet_launch
  <2> QED  BY <1>1, <1>2, <1>3, <2>3, ChainIsOver
<1>5. CallTypes' /\ SameCalls
  BY <1>1 DEF CallTypes, SameCalls
<1>6. faults' \in 0 .. MaxFaults
  BY <1>1, <1>3, FaultTypes
<1> QED  BY <1>1, <1>4, <1>5, <1>6 DEF Outside

LEMMA OutsideKeeps == ASSUME ManagerInv, Outside PROVE ManagerInv'
<1>1. OwnTypes /\ State \in States
  BY DEF ManagerInv, OwnTypes
<1>2. OwnTypes'
  BY <1>1, ManagerSame DEF OwnTypes, Outside, External, tabVars, Wallets
<1>3. AsksStay
  BY AsksAre DEF Outside
<1> QED  BY <1>2, <1>3, StillKeeps DEF Outside, External

OutsideStep ==
    \/ \E c \in Calls : Serve(c) \/ Lose(c)
    \/ Exit \/ UserStarts
    \/ PoolStep

LEMMA OutsideIs == ManagerInv /\ OutsideStep => Outside
BY ServeDoes, LoseDoes, ExitDoes, UserStartsDoes, LaunchDoes, LaunchFailsDoes
DEF OutsideStep, PoolStep

Observes == SessionStep \/ \E login \in BOOLEAN : Observe(Session!ChangeLogin(login))

LEMMA ObservesIs ==
    Observes => /\ SessionsOwn
                /\ Becomes(FoldLeft(on_environment_ready, State, announced'))
                /\ UNCHANGED <<ui_requests_, tabVars, walletVars, outlived>>
<1>1. CASE Observe(Session!ChainStep)
  BY <1>1 DEF Observe, SessionsOwn
<1>2. CASE Observe(Session!AddCookieChangeListener)
  BY <1>2 DEF Observe, SessionsOwn
<1>3. CASE Observe(Session!OnCookieChange)
  BY <1>3 DEF Observe, SessionsOwn
<1>4. CASE Observe(Session!on_wallet_start)
  BY <1>4 DEF Observe, SessionsOwn
<1>5. ASSUME NEW login \in BOOLEAN, Observe(Session!ChangeLogin(login))
      PROVE  /\ SessionsOwn
             /\ Becomes(FoldLeft(on_environment_ready, State, announced'))
             /\ UNCHANGED <<ui_requests_, tabVars, walletVars, outlived>>
  BY <1>5 DEF Observe, SessionsOwn
<1> QED  BY <1>1, <1>2, <1>3, <1>4, <1>5 DEF Observes, SessionStep

LEMMA ManagerInvNext == ManagerInv /\ [Next]_vars => ManagerInv'
<1> SUFFICES ASSUME ManagerInv, [Next]_vars PROVE ManagerInv'
  OBVIOUS
<1>1. CASE UNCHANGED vars
  <2>1. UNCHANGED <<manager, status, tasks, ui_requests_, tabs, answers, wallet, faults, outlived>>
        /\ UNCHANGED SP!vars /\ UNCHANGED <<auth_state_, init_state_, wallet_state_, heard, wallet_restarting_>>
    BY <1>1 DEF vars, sessionVars, tabVars, walletVars, SP!vars, SP!stateVars, SP!guidVars, SP!launchVars,
       SP!storeVars
  <2>2. SP!StartInv'
    BY <2>1, SP!StartInvNext, SessionConstants DEF ManagerInv
  <2>3. OwnTypes'
    BY <2>1 DEF ManagerInv, OwnTypes, CallTypes, State
  <2>4. ButtonIsTruthful'
    BY <2>1 DEF ManagerInv, ButtonIsTruthful
  <2>5. WakeInv'
    BY <2>1 DEF ManagerInv, WakeInv, Retrying, UnderWay, Asks
  <2> QED  BY <2>2, <2>3, <2>4, <2>5 DEF ManagerInv
<1>2. CASE Observes
  BY <1>2, ObservesIs, ObserveKeeps
<1>3. CASE TaskStep
  BY <1>3, AskKeeps, StopTaskKeeps, WalletStartKeeps DEF TaskStep
<1>4. ASSUME NEW c \in Calls, ReplyStep(c) PROVE ManagerInv'
  BY <1>4, ResponseKeeps, PingKeeps DEF ReplyStep
<1>5. CASE \/ \E c \in Calls : request_balance(c)
           \/ \E t \in Tabs : CloseTab(t) \/ restartwallet(t)
           \/ \E t \in Tabs, method \in Methods, c \in Calls : request_http(c, t, method)
  BY <1>5, TabKeeps
<1>6. CASE OutsideStep
  BY <1>6, OutsideIs, OutsideKeeps
<1> QED  BY <1>1, <1>2, <1>3, <1>4, <1>5, <1>6 DEF Next, Observes, OutsideStep

-----------------------------------------------------------------------------
(* The calls of the tabs                                                    *)

Out(c, t) == ui_requests_[c] # NoCall /\ ui_requests_[c].tab = t

\* A tab that has not asked has neither a call nor an answer; one that has asked has either.
CallPlace(t) ==
    /\ answers[t] <= 1
    /\ \A c, d \in Calls : Out(c, t) /\ Out(d, t) => c = d
    /\ \A c \in Calls : Out(c, t) => answers[t] = 0
    /\ tabs[t] = "open" => answers[t] = 0 /\ \A c \in Calls : ~Out(c, t)
    /\ tabs[t] = "asked" => answers[t] = 1 \/ \E c \in Calls : Out(c, t)

\* A request for the first address is nobody's but the manager's.
CallInv ==
    /\ \A t \in Tabs : CallPlace(t)
    /\ \A c \in Calls : Asks(c) => ui_requests_[c].tab = NoTab

LEMMA CallInvInit == Init => CallInv
<1> SUFFICES ASSUME Init PROVE CallInv
  OBVIOUS
<1>1. \A c \in Calls : ui_requests_[c] = NoCall
  BY DEF Init
<1>2. \A t \in Tabs : answers[t] = 0 /\ tabs[t] = "open"
  BY DEF Init
<1> QED  BY <1>1, <1>2 DEF CallInv, CallPlace, Out, Asks

LEMMA CallInvIs == CallInv => CallInOnePlace
<1> SUFFICES ASSUME CallInv, NEW t \in Tabs
             PROVE  LET out == {c \in Calls : ui_requests_[c] # NoCall /\ ui_requests_[c].tab = t} IN
                    /\ answers[t] <= 1
                    /\ out # {} => answers[t] = 0 /\ \A c, d \in out : c = d
                    /\ tabs[t] = "asked" /\ out = {} => answers[t] = 1
  BY DEF CallInOnePlace
<1> QED  BY DEF CallInv, CallPlace, Out

\* Steps that leave the calls and the tabs where they are.
LEMMA SameCallsKeep == ASSUME CallInv, SameCalls, UNCHANGED tabVars PROVE CallInv'
<1>1. \A c \in Calls : \A t : Out(c, t)' <=> Out(c, t)
  BY DEF SameCalls, Out
<1>2. \A c \in Calls : Asks(c)' => Asks(c) /\ ui_requests_'[c].tab = ui_requests_[c].tab
  BY DEF SameCalls, Asks
<1>3. \A t \in Tabs : tabs'[t] = tabs[t] /\ answers'[t] = answers[t]
  BY DEF tabVars
<1> QED  BY <1>1, <1>2, <1>3 DEF CallInv, CallPlace

\* The manager's own calls come and go.
LEMMA OwnCallKeeps ==
    ASSUME CallInv, UNCHANGED tabVars, NEW c \in Calls,
           \/ \E method \in AllMethods : Sent(c, method, NoTab)
           \/ Ended(c) /\ ui_requests_[c].tab = NoTab
    PROVE  CallInv'
<1>1. ASSUME NEW t \in Tabs, NEW d \in Calls PROVE Out(d, t)' <=> Out(d, t)
  <2>1. NoTab # t
    BY ManagerAssumption
  <2>2. d = c => ~Out(d, t) /\ ~Out(d, t)'
    BY <2>1 DEF Out, Sent, Ended
  <2> QED  BY <2>2 DEF Out, Sent, Ended
<1>2. \A d \in Calls : Asks(d)' => ui_requests_'[d].tab = NoTab
  BY DEF CallInv, Asks, Sent, Ended
<1>3. \A t \in Tabs : tabs'[t] = tabs[t] /\ answers'[t] = answers[t]
  BY DEF tabVars
<1> QED  BY <1>1, <1>2, <1>3 DEF CallInv, CallPlace

\* A tab that is open asks.
LEMMA AskingKeeps ==
    ASSUME CallInv, OwnTypes, NEW t \in Tabs, tabs[t] = "open", tabs' = [tabs EXCEPT ![t] = "asked"],
           \/ answers' = [answers EXCEPT ![t] = @ + 1] /\ UNCHANGED ui_requests_
           \/ \E c \in Calls, method \in AllMethods \ {"getfirstaddress"} :
                 Sent(c, method, t) /\ UNCHANGED answers
    PROVE  CallInv'
<1>1. tabs'[t] = "asked" /\ \A u \in Tabs \ {t} : tabs'[u] = tabs[u]
  BY DEF OwnTypes
<1>2. answers \in [Tabs -> Nat] /\ answers[t] = 0 /\ \A c \in Calls : ~Out(c, t)
  BY DEF OwnTypes, CallInv, CallPlace
<1>3. CASE answers' = [answers EXCEPT ![t] = @ + 1] /\ UNCHANGED ui_requests_
  <2>1. answers'[t] = 1 /\ \A u \in Tabs \ {t} : answers'[u] = answers[u]
    BY <1>2, <1>3
  <2>2. \A c \in Calls : \A u : (Out(c, u)' <=> Out(c, u)) /\ (Asks(c)' <=> Asks(c))
    BY <1>3 DEF Out, Asks
  <2>3. ASSUME NEW u \in Tabs PROVE CallPlace(u)'
    <3>1. CASE u = t
      BY <1>1, <1>2, <2>1, <2>2, <3>1 DEF CallPlace
    <3>2. CASE u # t
      BY <1>1, <2>1, <2>2, <3>2 DEF CallInv, CallPlace
    <3> QED  BY <3>1, <3>2
  <2> QED  BY <1>3, <2>2, <2>3 DEF CallInv
<1>4. ASSUME NEW c \in Calls, NEW method \in AllMethods \ {"getfirstaddress"},
             Sent(c, method, t), UNCHANGED answers
      PROVE  CallInv'
  <2>1. \A d \in Calls : Out(d, t)' <=> d = c
    BY <1>2, <1>4 DEF Out, Sent
  <2>2. \A d \in Calls, u \in Tabs \ {t} : Out(d, u)' <=> Out(d, u)
    BY <1>4 DEF Out, Sent
  <2>3. \A d \in Calls : Asks(d)' => Asks(d) /\ ui_requests_'[d] = ui_requests_[d]
    BY <1>4 DEF Asks, Sent
  <2>4. ASSUME NEW u \in Tabs PROVE CallPlace(u)'
    <3>1. CASE u = t
      BY <1>1, <1>2, <1>4, <2>1, <3>1 DEF CallPlace
    <3>2. CASE u # t
      BY <1>1, <1>4, <2>2, <3>2 DEF CallInv, CallPlace
    <3> QED  BY <3>1, <3>2
  <2> QED  BY <2>3, <2>4 DEF CallInv
<1> QED  BY <1>3, <1>4

LEMMA ClosingKeeps ==
    ASSUME CallInv, OwnTypes, NEW t \in Tabs, tabs' = [tabs EXCEPT ![t] = "closed"],
           UNCHANGED <<ui_requests_, answers>>
    PROVE  CallInv'
<1>1. tabs'[t] = "closed" /\ \A u \in Tabs \ {t} : tabs'[u] = tabs[u]
  BY DEF OwnTypes
<1>2. \A c \in Calls : \A u : (Out(c, u)' <=> Out(c, u)) /\ (Asks(c)' <=> Asks(c))
  BY DEF Out, Asks
<1>3. ASSUME NEW u \in Tabs PROVE CallPlace(u)'
  BY <1>1, <1>2 DEF CallInv, CallPlace
<1> QED  BY <1>2, <1>3 DEF CallInv

\* The answer to the call of a tab.
LEMMA AnswerKeeps ==
    ASSUME CallInv, OwnTypes, NEW t \in Tabs, NEW c \in Calls, Out(c, t), Ended(c),
           Answer(t), UNCHANGED tabs
    PROVE  CallInv'
<1>1. /\ answers \in [Tabs -> Nat] /\ answers[t] = 0 /\ tabs[t] # "open"
      /\ \A d \in Calls : Out(d, t) => d = c
  BY DEF OwnTypes, CallInv, CallPlace
<1>2. /\ answers'[t] = IF tabs[t] = "asked" THEN 1 ELSE 0
      /\ \A u \in Tabs \ {t} : answers'[u] = answers[u]
  BY <1>1 DEF Answer
<1>3. \A d \in Calls : ~Out(d, t)'
  BY <1>1 DEF Out, Ended
<1>4. \A d \in Calls, u \in Tabs \ {t} : Out(d, u)' <=> Out(d, u)
  BY DEF Out, Ended
<1>5. \A d \in Calls : Asks(d)' => Asks(d) /\ ui_requests_'[d] = ui_requests_[d]
  BY DEF Asks, Ended
<1>6. ASSUME NEW u \in Tabs PROVE CallPlace(u)'
  <2>1. CASE u = t
    BY <1>1, <1>2, <1>3, <2>1 DEF CallPlace
  <2>2. CASE u # t
    BY <1>2, <1>4, <2>2 DEF CallInv, CallPlace
  <2> QED  BY <2>1, <2>2
<1> QED  BY <1>5, <1>6 DEF CallInv

LEMMA CallInvNext == ManagerInv /\ CallInv /\ [Next]_vars => CallInv'
<1> SUFFICES ASSUME ManagerInv, CallInv, [Next]_vars PROVE CallInv'
  OBVIOUS
<1>1. SP!StartInv /\ OwnTypes /\ CallTypes /\ token_base64_ \in {Current, Stale, "none"}
  BY LaunchTypes DEF ManagerInv, OwnTypes
<1>2. UNCHANGED ui_requests_ => SameCalls
  BY DEF SameCalls
<1>3. CASE UNCHANGED vars
  BY <1>2, <1>3, SameCallsKeep DEF vars
<1>4. CASE Observes
  BY <1>2, <1>4, ObservesIs, SameCallsKeep
<1>5. CASE TaskStep
  <2>1. ASSUME NEW c \in Calls, initialize_rpc_first_address(c) PROVE CallInv'
    <3>1. Send(c, "getfirstaddress", NoTab) /\ UNCHANGED tabVars
      BY <2>1 DEF initialize_rpc_first_address
    <3>2. "getfirstaddress" \in AllMethods /\ Sent(c, "getfirstaddress", NoTab)
      BY <1>1, <3>1, SendDoes DEF AllMethods
    <3> QED  BY <3>1, <3>2, OwnCallKeeps
  <2>2. CASE schedule_wallet_stop_and_start
    BY <1>2, <2>2, SameCallsKeep DEF schedule_wallet_stop_and_start
  <2>3. ASSUME NEW mode \in Session!Modes, wallet_start(mode) PROVE CallInv'
    BY <1>2, <2>3, SameCallsKeep DEF wallet_start
  <2> QED  BY <1>5, <2>1, <2>2, <2>3 DEF TaskStep
<1>6. ASSUME NEW c \in Calls, request_balance(c) PROVE CallInv'
  <2>1. Send(c, "getbalance", NoTab) /\ UNCHANGED tabVars
    BY <1>6 DEF request_balance
  <2>2. "getbalance" \in AllMethods /\ Sent(c, "getbalance", NoTab)
    BY <1>1, <2>1, SendDoes DEF AllMethods
  <2> QED  BY <2>1, <2>2, OwnCallKeeps
<1>7. ASSUME NEW c \in Calls, on_http_response(c) PROVE CallInv'
  <2>1. /\ ui_requests_[c] # NoCall /\ ui_requests_[c].method # "getfirstaddress"
        /\ IF ui_requests_[c].tab = NoTab THEN UNCHANGED answers ELSE Answer(ui_requests_[c].tab)
        /\ Finish(c) /\ UNCHANGED tabs
    BY <1>7 DEF on_http_response
  <2>2. Ended(c)
    BY <1>1, <2>1, FinishDoes
  <2>3. CASE ui_requests_[c].tab = NoTab
    BY <2>1, <2>2, <2>3, OwnCallKeeps DEF tabVars
  <2>4. CASE ui_requests_[c].tab # NoTab
    <3>1. ui_requests_[c].tab \in Tabs
      <4>1. ui_requests_[c] \in Call
        BY <1>1, <2>1 DEF CallTypes
      <4> QED  BY <2>4, <4>1 DEF Call
    <3> PICK t \in Tabs : t = ui_requests_[c].tab
      BY <3>1
    <3>2. Out(c, t) /\ Answer(t)
      BY <2>1, <2>4 DEF Out
    <3> QED  BY <1>1, <2>1, <2>2, <3>2, AnswerKeeps
  <2> QED  BY <2>3, <2>4
<1>8. ASSUME NEW c \in Calls, end_ping_first_address_rpc(c) PROVE CallInv'
  <2>1. Asks(c) /\ Finish(c) /\ UNCHANGED tabVars
    BY <1>8 DEF end_ping_first_address_rpc, Asks
  <2>2. Ended(c) /\ ui_requests_[c].tab = NoTab
    BY <1>1, <2>1, FinishDoes DEF CallInv
  <2> QED  BY <2>1, <2>2, OwnCallKeeps
<1>9. ASSUME NEW t \in Tabs, CloseTab(t) PROVE CallInv'
  BY <1>1, <1>9, ClosingKeeps DEF CloseTab
<1>10. ASSUME NEW t \in Tabs, restartwallet(t) PROVE CallInv'
  BY <1>1, <1>10, AskingKeeps DEF restartwallet
<1>11. ASSUME NEW t \in Tabs, NEW method \in Methods, NEW c \in Calls, request_http(c, t, method)
       PROVE  CallInv'
  <2>1. /\ tabs[t] = "open" /\ tabs' = [tabs EXCEPT ![t] = "asked"]
        /\ \/ answers' = [answers EXCEPT ![t] = @ + 1] /\ UNCHANGED ui_requests_
           \/ Send(c, method, t) /\ UNCHANGED answers
    BY <1>11 DEF request_http
  <2>2. method \in AllMethods \ {"getfirstaddress"}
    BY MethodsAssumption DEF AllMethods, TabMethods
  <2>3. Send(c, method, t) => Sent(c, method, t)
    BY <1>1, <2>2, SendDoes
  <2> QED  BY <1>1, <2>1, <2>2, <2>3, AskingKeeps
<1>12. CASE OutsideStep
  BY <1>12, OutsideIs, SameCallsKeep DEF Outside, External
<1> QED  BY <1>3, <1>4, <1>5, <1>6, <1>7, <1>8, <1>9, <1>10, <1>11, <1>12
            DEF Next, Observes, OutsideStep, ReplyStep

-----------------------------------------------------------------------------
(* The theorems                                                             *)

\* While the user is logged in and the session neither failed nor found the wallet to be ready,
\* a launch is under way or will be; when it did, the first address is there or asked for.
LEMMA NeverIdleIs == ManagerInv => NeverIdle
<1> SUFFICES ASSUME ManagerInv, auth_state_ = "AUTH_LOGGED", init_state_ = "DS_OK", ~SessionFailed,
                    ~manager.is_loaded \/ manager.environment_error # "DS_OK"
             PROVE  UnderWay
  BY DEF NeverIdle
<1>1. SP!StartInv /\ WakeInv
  BY DEF ManagerInv
<1>2. wallet_state_ \in {"DS_NONE", "DS_OK", "DS_WALLET_FILE_NOT_FOUND"}
  BY <1>1 DEF SP!StartInv, SP!StatesOK, SP!WalletStates, SP!LaunchErrors, SessionFailed,
     Session!LaunchErrors
<1>3. Retrying => UnderWay
  BY DEF Retrying, UnderWay
<1>4. wallet_state_ = "DS_OK" => heard = "DS_OK"
  BY <1>1 DEF SP!StartInv, SP!ReadyIsAll
<1> QED  BY <1>1, <1>2, <1>3, <1>4 DEF WakeInv, Retrying

\* Whatever the session, the wallet, the servers and the tabs do, every variable of
\* WalletManager and of the session it observes stays in its range.
THEOREM ManagerTypeCorrect == Spec => []TypeOK
<1>1. ManagerInv => TypeOK
  BY TypesAre DEF ManagerInv
<1> QED  BY <1>1, ManagerInvInit, ManagerInvNext, PTL DEF Spec

\* The wallet button never says that all is well while the manager would refuse calls: every
\* restart, error and logout of wallet_manager.cc notifies it in the same step.
THEOREM ButtonTellsTheTruth == Spec => []ButtonIsTruthful
<1>1. ManagerInv => ButtonIsTruthful
  BY DEF ManagerInv
<1> QED  BY <1>1, ManagerInvInit, ManagerInvNext, PTL DEF Spec

\* The manager never waits for nothing: while the wallet cannot be used another attempt is
\* posted, delayed, launched or in flight, and each call of a tab is in flight or answered once,
\* for any number of calls, tabs, faults, logins and wallets.
THEOREM ManagerLosesNothing == Spec => []NothingIsLost
<1>1. ManagerInv /\ CallInv => NothingIsLost
  BY NeverIdleIs, CallInvIs DEF NothingIsLost
<1> QED  BY <1>1, ManagerInvInit, ManagerInvNext, CallInvInit, CallInvNext, PTL DEF Spec

=============================================================================
