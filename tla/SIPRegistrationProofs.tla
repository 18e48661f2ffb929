------------------------- MODULE SIPRegistrationProofs -------------------------
(***************************************************************************)
(* For any number of pjsip_regc structures, and so of attempts to          *)
(* register: an account at rest that is shown trying has a request on its  *)
(* way, and one that says it registered can unregister and is refreshed.   *)
(*                                                                         *)
(* None of it holds while the threads are at work: the SIP thread may have *)
(* taken an answer and not yet shown it, the D-Bus thread may be about to  *)
(* send, or to forget the structure the SIP thread has just stored.        *)
(* RegInv says, for each such gap, which thread is about to close it.      *)
(***************************************************************************)
EXTENDS SIPRegistration, TLAPS

\* Only a structure that was made is used, and one whose request was not sent
\* has its transaction pending for ever.
RegcsInUse ==
    \A r \in Regcs :
        /\ regcs[r].has_tsx \/ Armed(r) => regcs[r].created
        /\ regcs[r].stuck => regcs[r].has_tsx

\* A thread works with a structure; the timer whose callback runs is not armed
\* again before the callback has sent.
UsesRegc ==
    /\ At("dbus", "leave") => account.regc # None
    /\ \A t \in Threads : pc[t][1] \in {"store", "leave", "again"} => pc[t][2] \in Regcs
    /\ At("sip", "again") => ~Armed(pc["sip"][2])

\* The steps at which the SIP thread has an answer it will show, or a request
\* it will send.
Answering == {"ok", "refused", "brief", "registered", "unregistered", "register",
              "send"}

TryingInHand ==
    account.state = "Trying" /\ ~unsent =>
        \/ \E r \in Regcs : InFlight(r)
        \/ \E s \in Answering : At("sip", s)
        \/ At("dbus", "send")

\* The D-Bus thread forgets the structure of a registration it has ended, or
\* of one the SIP thread will declare failed.
ForgetsEnded ==
    At("dbus", "forget") /\ account.register =>
        At("sip", "send") \/ At("sip", "store") \/ At("sip", "clear")

RegcInHand ==
    account.register /\ ~unsent /\ account.regc = None =>
        \/ \E t \in Threads : At(t, "send") \/ At(t, "store")
        \/ At("sip", "clear")

RegInv == TypeOK /\ RegcsInUse /\ UsesRegc /\ TryingInHand /\ ForgetsEnded /\ RegcInHand

------------------------------------------------------------------------------
USE DEF At, Go, Armed

\* Initially the account is not enabled and no structure was made.
LEMMA InitReg == Init => RegInv
<1> SUFFICES ASSUME Init PROVE RegInv
  OBVIOUS
<1>1. TypeOK
  <2>1. account \in Accounts
    BY DEF Init, Accounts
  <2>2. regcs \in [Regcs -> RegcRecords]
    BY DEF Init, RegcRecords
  <2>3. pc \in [Threads -> {Idle} \cup Steps \X (Regcs \cup {None})]
    BY DEF Init
  <2> QED
    BY <2>1, <2>2, <2>3 DEF Init, TypeOK
<1>2. RegcsInUse
  BY DEF Init, RegcsInUse
<1>3. UsesRegc /\ TryingInHand /\ ForgetsEnded /\ RegcInHand
  BY DEF Init, UsesRegc, TryingInHand, ForgetsEnded, RegcInHand, Idle, Threads
<1> QED
  BY <1>1, <1>2, <1>3 DEF RegInv

\* A thread that goes to another step is still at a step.
LEMMA GoType ==
    ASSUME TypeOK, NEW t \in Threads, NEW s \in Steps \cup {"idle"},
           NEW r \in Regcs \cup {None}, s = "idle" => r = None, Go(t, s, r)
    PROVE  /\ pc' \in [Threads -> {Idle} \cup Steps \X (Regcs \cup {None})]
           /\ pc'[t] = <<s, r>>
           /\ \A u \in Threads \ {t} : pc'[u] = pc[u]
  BY DEF TypeOK, Idle

\* What changes of the structures when one of them does.
Only(r) ==
    /\ regcs' \in [Regcs -> RegcRecords]
    /\ \A s \in Regcs \ {r} : regcs'[s] = regcs[s]

\* What a request that is sent, or stuck, leaves of the structures.
RequestedType(r, op) ==
    /\ Only(r)
    /\ regcs'[r].created /\ regcs'[r].has_tsx /\ regcs'[r].current_op = op
    /\ regcs'[r].timer = regcs[r].timer

\* What pjsip_regc_send does to the structure, and to no other.
LEMMA RequestedFacts ==
    ASSUME TypeOK, NEW r \in Regcs, NEW op \in {"idle", "registering", "unregistering"}
    PROVE  /\ regcs' = Requested(r, op) =>
                RequestedType(r, op) /\ regcs'[r].stuck = regcs[r].stuck
           /\ regcs' = Stuck(r, op) => RequestedType(r, op) /\ regcs'[r].stuck
<1> DEFINE old == regcs[r]
           new == [old EXCEPT !.created = TRUE, !.has_tsx = TRUE, !.current_op = op]
<1>1. regcs \in [Regcs -> RegcRecords] /\ old \in RegcRecords
  BY DEF TypeOK
<1>2. /\ new \in RegcRecords /\ new.created /\ new.has_tsx /\ new.timer = old.timer
      /\ new.current_op = op /\ new.stuck = old.stuck
  BY <1>1 DEF RegcRecords
<1>3. Requested(r, op) = [regcs EXCEPT ![r] = new]
  BY DEF Requested
<1>4. ASSUME NEW new2, new2 = [new EXCEPT !.stuck = TRUE]
      PROVE  /\ new2 \in RegcRecords /\ new2.created /\ new2.has_tsx
             /\ new2.timer = old.timer /\ new2.current_op = op /\ new2.stuck
  BY <1>2, <1>4 DEF RegcRecords
<1> HIDE DEF new
<1>5. Requested(r, op) \in [Regcs -> RegcRecords]
  BY <1>1, <1>2, <1>3
<1>6. ASSUME regcs' = Requested(r, op)
      PROVE  RequestedType(r, op) /\ regcs'[r].stuck = regcs[r].stuck
  <2>1. regcs'[r] = new /\ Only(r)
    BY <1>1, <1>3, <1>5, <1>6 DEF Only
  <2> QED
    BY <1>2, <2>1 DEF RequestedType
<1>7. ASSUME regcs' = Stuck(r, op)
      PROVE  RequestedType(r, op) /\ regcs'[r].stuck
  <2>1. PICK new2 : new2 = [new EXCEPT !.stuck = TRUE]
    OBVIOUS
  <2>2. regcs' = [regcs EXCEPT ![r] = new2]
    BY <1>1, <1>3, <1>7, <2>1 DEF Stuck
  <2>3. regcs'[r] = new2 /\ Only(r)
    BY <1>1, <1>4, <2>1, <2>2 DEF Only
  <2> QED
    BY <1>4, <2>1, <2>3 DEF RequestedType
<1> QED
  BY <1>6, <1>7

\* What stopping a timer does to the structure, and to no other.
LEMMA TimerOffFacts ==
    ASSUME TypeOK, NEW r \in Regcs, regcs' = TimerOff(r)
    PROVE  /\ Only(r)
           /\ regcs'[r].timer = 0 /\ (regcs'[r].has_tsx <=> regcs[r].has_tsx)
           /\ regcs'[r].created <=> regcs[r].created
           /\ regcs'[r].stuck <=> regcs[r].stuck
           /\ regcs'[r].current_op = regcs[r].current_op
<1>1. regcs \in [Regcs -> RegcRecords] /\ regcs[r] \in RegcRecords
  BY DEF TypeOK
<1>2. regcs' = [regcs EXCEPT ![r] = [regcs[r] EXCEPT !.timer = 0]]
  BY DEF TimerOff
<1>3. [regcs[r] EXCEPT !.timer = 0] \in RegcRecords
  BY <1>1 DEF RegcRecords
<1> QED
  BY <1>1, <1>2, <1>3 DEF RegcRecords, Only

\* Stopping a timer keeps what the invariant says of the structures.
LEMMA TimerOffKeeps ==
    ASSUME RegInv, NEW r \in Regcs, regcs' = TimerOff(r)
    PROVE  /\ regcs' \in [Regcs -> RegcRecords] /\ RegcsInUse'
           /\ \A s \in Regcs : Armed(s)' => Armed(s) /\ s # r
           /\ \A s \in Regcs : Armed(s)' =>
                    ~(regcs[s].has_tsx /\ regcs[s].current_op = "registering")'
           /\ \A s \in Regcs : InFlight(s) <=> InFlight(s)'
<1>1. TypeOK /\ RegcsInUse
  BY DEF RegInv
<1>2. /\ Only(r)
      /\ regcs'[r].timer = 0 /\ (regcs'[r].has_tsx <=> regcs[r].has_tsx)
      /\ regcs'[r].created <=> regcs[r].created
      /\ regcs'[r].stuck <=> regcs[r].stuck
      /\ regcs'[r].current_op = regcs[r].current_op
  BY <1>1, TimerOffFacts
<1>3. \A s \in Regcs : Armed(s)' => Armed(s) /\ s # r
  BY <1>2 DEF Armed, Only
<1> QED
  BY <1>1, <1>2, <1>3 DEF Only, RegcsInUse, InFlight, TypeOK, Armed

\* So does a request of a structure whose timer does not run, or a request to
\* unregister.
LEMMA RequestedKeeps ==
    ASSUME RegInv, NEW r \in Regcs, NEW op \in {"idle", "registering", "unregistering"},
           regcs' = Requested(r, op) \/ regcs' = Stuck(r, op),
           op = "registering" => ~Armed(r)
    PROVE  /\ regcs' \in [Regcs -> RegcRecords] /\ RegcsInUse'
           /\ \A s \in Regcs : Armed(s)' <=> Armed(s)
           /\ \A s \in Regcs : Armed(s)' =>
                    ~(regcs[s].has_tsx /\ regcs[s].current_op = "registering")'
<1>1. TypeOK /\ RegcsInUse
  BY DEF RegInv
<1>2. RequestedType(r, op)
  BY <1>1, RequestedFacts
<1>3. \A s \in Regcs : Armed(s)' <=> Armed(s)
  BY <1>2 DEF Armed, Only, RequestedType
<1> QED
  BY <1>1, <1>2, <1>3 DEF RequestedType, Only, RegcsInUse, TypeOK

------------------------------------------------------------------------------
\* The steps of sendRegister preserve the invariant.
LEMMA RegisterKeeps ==
    ASSUME RegInv, NEW t \in Threads, Register(t)
    PROVE  RegInv'
<1> USE DEF RegInv, Register
<1>1. pc' = [pc EXCEPT ![t] = <<"send", None>>] /\ UNCHANGED <<regcs, unsent, granted, aborted>>
      /\ pc[t][1] = "register"
  OBVIOUS
<1>2. TypeOK'
  <2>1. account' \in Accounts
    BY DEF TypeOK, Accounts
  <2>2. pc' \in [Threads -> {Idle} \cup Steps \X (Regcs \cup {None})]
    BY GoType DEF Steps
  <2> QED
    BY <1>1, <2>1, <2>2 DEF TypeOK
<1>3. /\ account'.register /\ account'.state = "Trying"
      /\ account'.regc = account.regc
  BY DEF TypeOK
<1>4. pc'[t] = <<"send", None>> /\ \A u \in Threads \ {t} : pc'[u] = pc[u]
  BY <1>1 DEF TypeOK
<1>5. RegcsInUse' /\ UsesRegc' /\ RegcInHand' /\ TryingInHand'
  BY <1>1, <1>3, <1>4 DEF RegcsInUse, UsesRegc, RegcInHand, TryingInHand, Threads, Answering
<1>6. ForgetsEnded'
  BY <1>1, <1>3, <1>4 DEF ForgetsEnded, Threads
<1> QED
  BY <1>2, <1>5, <1>6

\* A new structure is sent with, or is not.
LEMMA SendKeeps ==
    ASSUME RegInv, NEW t \in Threads, Send(t)
    PROVE  RegInv'
<1> USE DEF RegInv
<1>1. PICK r \in Regcs :
        /\ ~regcs[r].created
        /\ \/ /\ regcs' = Requested(r, "registering")
              /\ unsent' = FALSE
              /\ Go(t, "store", r)
           \/ /\ regcs' = [regcs EXCEPT ![r].created = TRUE]
              /\ unsent' = TRUE
              /\ Go(t, AfterRegister(t), None)
  BY DEF Send
<1>2. UNCHANGED <<account, granted, aborted>>
  BY DEF Send
<1>3. ~regcs[r].has_tsx /\ ~regcs[r].stuck /\ ~Armed(r)
  BY <1>1 DEF RegcsInUse, TypeOK
<1>4. CASE /\ regcs' = Requested(r, "registering")
           /\ unsent' = FALSE
           /\ Go(t, "store", r)
  <2>1. pc' \in [Threads -> {Idle} \cup Steps \X (Regcs \cup {None})]
        /\ pc'[t] = <<"store", r>> /\ \A u \in Threads \ {t} : pc'[u] = pc[u]
    BY <1>4, GoType DEF Steps
  <2>2. RequestedType(r, "registering") /\ ~regcs'[r].stuck
    BY <1>3, <1>4, RequestedFacts
  <2>3. TypeOK' /\ RegcsInUse' /\ \A s \in Regcs : Armed(s)' <=> Armed(s)
    BY <1>2, <1>3, <1>4, <2>1, RequestedKeeps DEF TypeOK
  <2>4. InFlight(r)'
    BY <1>3, <2>2 DEF RequestedType, InFlight
  <2>5. TryingInHand' /\ RegcInHand'
    BY <2>1, <2>4 DEF TryingInHand, RegcInHand
  <2>7. UsesRegc'
    BY <1>2, <2>1, <2>3 DEF UsesRegc, Threads
  <2>6. ForgetsEnded'
    BY <1>2, <2>1 DEF ForgetsEnded, Threads
  <2> QED
    BY <2>3, <2>5, <2>6, <2>7
<1>5. CASE /\ regcs' = [regcs EXCEPT ![r].created = TRUE]
           /\ unsent' = TRUE
           /\ Go(t, AfterRegister(t), None)
  <2>1. pc' \in [Threads -> {Idle} \cup Steps \X (Regcs \cup {None})]
        /\ pc'[t] = <<AfterRegister(t), None>> /\ \A u \in Threads \ {t} : pc'[u] = pc[u]
    BY <1>5, GoType DEF Steps, AfterRegister
  <2>2. /\ \A q \in Regcs \ {r} : regcs'[q] = regcs[q]
        /\ regcs'[r] = [regcs[r] EXCEPT !.created = TRUE]
        /\ regcs[r] \in RegcRecords /\ regcs' \in [Regcs -> {regcs'[q] : q \in Regcs}]
    BY <1>5 DEF TypeOK
  <2>3. regcs'[r] \in RegcRecords
        /\ regcs'[r].created /\ regcs'[r].has_tsx = regcs[r].has_tsx
        /\ regcs'[r].stuck = regcs[r].stuck /\ regcs'[r].timer = regcs[r].timer
        /\ regcs'[r].current_op = regcs[r].current_op
    BY <2>2 DEF RegcRecords
  <2>4. TypeOK' /\ RegcsInUse' /\ \A s \in Regcs : Armed(s)' <=> Armed(s)
    BY <1>2, <1>5, <2>1, <2>2, <2>3 DEF TypeOK, RegcsInUse, Armed
  <2>5. TryingInHand' /\ RegcInHand'
    BY <1>5 DEF TryingInHand, RegcInHand
  <2>7. UsesRegc'
    BY <1>2, <2>1, <2>4 DEF UsesRegc, AfterRegister, Threads
  <2>6. ForgetsEnded'
    BY <1>2, <2>1 DEF ForgetsEnded, Threads, AfterRegister
  <2> QED
    BY <2>4, <2>5, <2>6, <2>7
<1> QED
  BY <1>1, <1>4, <1>5

\* The structure that was sent is now that of the account.
LEMMA StoreKeeps ==
    ASSUME RegInv, NEW t \in Threads, Store(t)
    PROVE  RegInv'
<1> USE DEF RegInv
<1>1. /\ pc[t][2] \in Regcs
      /\ account' = [account EXCEPT !.regc = pc[t][2]]
      /\ pc[t][1] = "store" /\ Go(t, AfterRegister(t), None)
      /\ UNCHANGED <<regcs, unsent, granted, aborted>>
  BY DEF Store, UsesRegc
<1>2. pc' \in [Threads -> {Idle} \cup Steps \X (Regcs \cup {None})]
      /\ pc'[t] = <<AfterRegister(t), None>> /\ \A u \in Threads \ {t} : pc'[u] = pc[u]
  BY <1>1, GoType DEF Steps, AfterRegister
<1>3. account'.regc # None /\ account'.register = account.register
      /\ account'.state = account.state
  BY <1>1, NoneAssumption DEF TypeOK
<1>4. TypeOK' /\ RegcsInUse'
  <2>1. account' \in Accounts
    BY <1>1 DEF TypeOK, Accounts
  <2> QED
    BY <1>1, <1>2, <2>1 DEF TypeOK, RegcsInUse
<1>5. UsesRegc' /\ RegcInHand'
  BY <1>1, <1>2, <1>3 DEF UsesRegc, RegcInHand, AfterRegister, Threads
<1>6. TryingInHand'
  BY <1>1, <1>2, <1>3 DEF TryingInHand, Threads, Answering, InFlight
<1>7. ForgetsEnded'
  BY <1>1, <1>2, <1>3 DEF ForgetsEnded, Threads, AfterRegister
<1> QED
  BY <1>4, <1>5, <1>6, <1>7

\* The flag that goes down is the one RegcInHand and ForgetsEnded ask about.
LEMMA ClearKeeps ==
    ASSUME RegInv, NEW t \in Threads, Clear(t)
    PROVE  RegInv'
<1> USE DEF RegInv
<1>1. /\ account' = [account EXCEPT !.register = FALSE]
      /\ Go(t, IF t = "sip" THEN "idle" ELSE "forget", None)
      /\ pc[t][1] = "clear" /\ UNCHANGED <<regcs, unsent, granted, aborted>>
  BY DEF Clear
<1>2. pc' \in [Threads -> {Idle} \cup Steps \X (Regcs \cup {None})]
      /\ pc'[t] = <<IF t = "sip" THEN "idle" ELSE "forget", None>>
      /\ \A u \in Threads \ {t} : pc'[u] = pc[u]
  BY <1>1, GoType DEF Steps
<1>3. ~account'.register /\ account'.state = account.state /\ account'.regc = account.regc
  BY <1>1 DEF TypeOK, Accounts
<1>4. TypeOK' /\ RegcsInUse'
  <2>1. account' \in Accounts
    BY <1>1 DEF TypeOK, Accounts
  <2> QED
    BY <1>1, <1>2, <2>1 DEF TypeOK, RegcsInUse
<1>5. UsesRegc' /\ RegcInHand' /\ ForgetsEnded'
  BY <1>1, <1>2, <1>3 DEF UsesRegc, RegcInHand, ForgetsEnded, Threads
<1>6. TryingInHand'
  BY <1>1, <1>2, <1>3 DEF TryingInHand, Threads, Answering, InFlight
<1> QED
  BY <1>4, <1>5, <1>6

------------------------------------------------------------------------------
\* The steps of the user's thread preserve the invariant.
LEMMA SetEnabledKeeps ==
    ASSUME RegInv, NEW enable \in BOOLEAN, SetEnabled(enable)
    PROVE  RegInv'
<1> USE DEF RegInv
<1> DEFINE step == IF enable THEN "register" ELSE "unregister"
<1>1. /\ account' = [account EXCEPT !.enabled = enable]
      /\ Go("dbus", step, None) /\ pc["dbus"] = Idle
      /\ UNCHANGED <<regcs, unsent, granted, aborted>>
  BY DEF SetEnabled
<1>2. pc' \in [Threads -> {Idle} \cup Steps \X (Regcs \cup {None})]
      /\ pc'["dbus"] = <<step, None>> /\ pc'["sip"] = pc["sip"]
  BY <1>1, GoType DEF Steps, Threads
<1>3. account' \in Accounts /\ account'.register = account.register
      /\ account'.state = account.state /\ account'.regc = account.regc
  BY <1>1 DEF TypeOK, Accounts
<1>4. TypeOK' /\ RegcsInUse'
  BY <1>1, <1>2, <1>3 DEF TypeOK, RegcsInUse
<1>5. UsesRegc' /\ ForgetsEnded'
  BY <1>1, <1>2, <1>3 DEF UsesRegc, ForgetsEnded, Threads
<1>6. TryingInHand' /\ RegcInHand'
  BY <1>1, <1>2, <1>3 DEF TryingInHand, RegcInHand, Threads, Idle, InFlight, Answering
<1> QED
  BY <1>4, <1>5, <1>6

\* Only an account that says it registered unregisters.
LEMMA UnregisterKeeps ==
    ASSUME RegInv, Unregister
    PROVE  RegInv'
<1> USE DEF RegInv
<1>1. pc["dbus"][1] = "unregister" /\ UNCHANGED <<regcs, unsent, granted, aborted>>
  BY DEF Unregister
<1>2. CASE account.register /\ Go("dbus", "bye", None) /\ UNCHANGED account
  <2>1. pc' \in [Threads -> {Idle} \cup Steps \X (Regcs \cup {None})]
        /\ pc'["dbus"] = <<"bye", None>> /\ pc'["sip"] = pc["sip"]
    BY <1>2, GoType DEF Steps, Threads
  <2>2. TypeOK' /\ RegcsInUse'
    BY <1>1, <1>2, <2>1 DEF TypeOK, RegcsInUse
  <2>3. UsesRegc' /\ ForgetsEnded'
    BY <1>1, <1>2, <2>1 DEF UsesRegc, ForgetsEnded, Threads
  <2>4. TryingInHand' /\ RegcInHand'
    BY <1>1, <1>2, <2>1 DEF TryingInHand, RegcInHand, Threads, InFlight, Answering
  <2> QED
    BY <2>2, <2>3, <2>4
<1>3. CASE /\ ~account.register
           /\ account' = [account EXCEPT !.state = "Unregistered"]
           /\ Go("dbus", "forget", None)
  <2>1. pc' \in [Threads -> {Idle} \cup Steps \X (Regcs \cup {None})]
        /\ pc'["dbus"] = <<"forget", None>> /\ pc'["sip"] = pc["sip"]
    BY <1>3, GoType DEF Steps, Threads
  <2>2. account' \in Accounts /\ ~account'.register /\ account'.state # "Trying"
    BY <1>3 DEF TypeOK, Accounts
  <2>3. TypeOK' /\ RegcsInUse'
    BY <1>1, <2>1, <2>2 DEF TypeOK, RegcsInUse
  <2>4. UsesRegc' /\ ForgetsEnded' /\ TryingInHand' /\ RegcInHand'
    BY <1>1, <2>1, <2>2 DEF UsesRegc, ForgetsEnded, TryingInHand, RegcInHand, Threads
  <2> QED
    BY <2>3, <2>4
<1> QED
  BY <1>2, <1>3 DEF Unregister

\* The account forgets its structure.
LEMMA ForgetKeeps ==
    ASSUME RegInv, Forget
    PROVE  RegInv'
<1> USE DEF RegInv
<1>1. /\ account' = [account EXCEPT !.regc = None]
      /\ Go("dbus", "idle", None) /\ pc["dbus"][1] = "forget"
      /\ UNCHANGED <<regcs, unsent, granted, aborted>>
  BY DEF Forget
<1>2. pc' \in [Threads -> {Idle} \cup Steps \X (Regcs \cup {None})]
      /\ pc'["dbus"] = <<"idle", None>> /\ pc'["sip"] = pc["sip"]
  BY <1>1, GoType DEF Steps, Threads
<1>3. account' \in Accounts /\ account'.register = account.register
      /\ account'.state = account.state
  BY <1>1 DEF TypeOK, Accounts
<1>4. TypeOK' /\ RegcsInUse'
  BY <1>1, <1>2, <1>3 DEF TypeOK, RegcsInUse
<1>5. UsesRegc' /\ ForgetsEnded' /\ RegcInHand'
  BY <1>1, <1>2, <1>3 DEF UsesRegc, ForgetsEnded, RegcInHand, Threads
<1>6. TryingInHand'
  BY <1>1, <1>2, <1>3 DEF TryingInHand, InFlight, Answering
<1> QED
  BY <1>4, <1>5, <1>6


\* The request to unregister is made, and the timer stopped.
LEMMA ByeKeeps ==
    ASSUME RegInv, Bye
    PROVE  RegInv'
<1> USE DEF RegInv
<1>0. PICK r \in Regcs \cup {None} : r = account.regc
  BY DEF TypeOK, Accounts
<1>1. pc["dbus"][1] = "bye" /\ UNCHANGED <<account, granted, aborted>>
  BY DEF Bye
<1>2. PICK s \in {"idle", "leave"} :
        /\ Go("dbus", s, IF s = "idle" THEN None ELSE r)
        /\ s = "leave" => r # None
        /\ regcs' = regcs \/ (r # None /\ regcs' = TimerOff(r))
        /\ unsent' = unsent \/ unsent' = TRUE
  <2>1. CASE Go("dbus", "leave", r) /\ r # None /\ regcs' = TimerOff(r) /\ unsent' = unsent
    BY <2>1
  <2>2. CASE /\ Go("dbus", "idle", None)
             /\ regcs' = regcs \/ (r # None /\ regcs' = TimerOff(r))
             /\ unsent' = unsent \/ unsent' = TRUE
    BY <2>2
  <2> QED
    BY <1>0, <2>1, <2>2 DEF Bye
<1>3. /\ pc' \in [Threads -> {Idle} \cup Steps \X (Regcs \cup {None})]
      /\ pc'["dbus"] = <<s, IF s = "idle" THEN None ELSE r>> /\ pc'["sip"] = pc["sip"]
  BY <1>1, <1>2, GoType DEF Steps, Threads
<1>4. /\ regcs' \in [Regcs -> RegcRecords] /\ RegcsInUse'
      /\ \A q \in Regcs : Armed(q)' => Armed(q)
      /\ \A q \in Regcs : Armed(q)' =>
                ~(regcs[q].has_tsx /\ regcs[q].current_op = "registering")'
      /\ \A q \in Regcs : InFlight(q) <=> InFlight(q)'
  <2>1. CASE regcs' = regcs
    BY <2>1 DEF TypeOK, RegcsInUse, Armed, InFlight
  <2>2. CASE r # None /\ regcs' = TimerOff(r)
    BY <1>1, <2>2, TimerOffKeeps
  <2> QED
    BY <1>2, <2>1, <2>2
<1>5. TypeOK'
  BY <1>1, <1>2, <1>3, <1>4 DEF TypeOK
<1>6. UsesRegc' /\ ForgetsEnded'
  BY <1>0, <1>1, <1>2, <1>3, <1>4 DEF UsesRegc, ForgetsEnded, Threads
<1>7. TryingInHand' /\ RegcInHand'
  BY <1>1, <1>2, <1>3, <1>4 DEF TryingInHand, RegcInHand, Threads, Answering
<1> QED
  BY <1>4, <1>5, <1>6, <1>7

\* The request to unregister is sent, or is not.
LEMMA LeaveKeeps ==
    ASSUME RegInv, Leave
    PROVE  RegInv'
<1> USE DEF RegInv
<1>0. PICK r \in Regcs : r = pc["dbus"][2]
  BY DEF Leave, UsesRegc, Threads
<1>1. pc["dbus"][1] = "leave" /\ UNCHANGED <<account, granted>>
  BY DEF Leave
<1>2. CASE Go("dbus", "idle", None) /\ UNCHANGED <<regcs, unsent, aborted>>
  <2>1. pc' \in [Threads -> {Idle} \cup Steps \X (Regcs \cup {None})]
        /\ pc'["dbus"] = <<"idle", None>> /\ pc'["sip"] = pc["sip"]
    BY <1>2, GoType DEF Steps, Threads
  <2>2. TypeOK' /\ RegcsInUse'
    BY <1>1, <1>2, <2>1 DEF TypeOK, RegcsInUse, Armed
  <2>3. UsesRegc' /\ ForgetsEnded'
    BY <1>1, <1>2, <2>1 DEF UsesRegc, ForgetsEnded, Threads, Armed
  <2>4. TryingInHand' /\ RegcInHand'
    BY <1>1, <1>2, <2>1 DEF TryingInHand, RegcInHand, Threads, Answering, InFlight
  <2> QED
    BY <2>2, <2>3, <2>4
<1>3. CASE aborted' = TRUE /\ UNCHANGED <<regcs, unsent, pc>>
  BY <1>1, <1>3 DEF TypeOK, RegcsInUse, UsesRegc, TryingInHand, ForgetsEnded,
     RegcInHand, InFlight, Armed
<1>4. CASE /\ Takes(r)
           /\ regcs' = Requested(r, "unregistering")
           /\ unsent' = FALSE /\ Go("dbus", "clear", None) /\ UNCHANGED aborted
  <2>1. pc' \in [Threads -> {Idle} \cup Steps \X (Regcs \cup {None})]
        /\ pc'["dbus"] = <<"clear", None>> /\ pc'["sip"] = pc["sip"]
    BY <1>4, GoType DEF Steps, Threads
  <2>2. RequestedType(r, "unregistering") /\ ~regcs'[r].stuck
    BY <1>1, <1>4, RequestedFacts DEF RegcsInUse, Takes
  <2>3. TypeOK' /\ RegcsInUse' /\ \A q \in Regcs : Armed(q)' <=> Armed(q)
    BY <1>1, <1>4, <2>1, RequestedKeeps DEF TypeOK
  <2>4. InFlight(r)'
    BY <1>1, <2>2 DEF RequestedType, InFlight
  <2>5. TryingInHand'
    BY <1>1, <2>4 DEF TryingInHand
  <2>6. UsesRegc' /\ ForgetsEnded'
    BY <1>1, <2>1, <2>3 DEF UsesRegc, ForgetsEnded, Threads
  <2>7. RegcInHand'
    BY <1>1, <1>4, <2>1 DEF RegcInHand, UsesRegc
  <2> QED
    BY <2>3, <2>5, <2>6, <2>7
<1>5. CASE /\ Takes(r) /\ regcs' = Stuck(r, "unregistering")
           /\ unsent' = TRUE /\ Go("dbus", "idle", None) /\ UNCHANGED aborted
  <2>1. pc' \in [Threads -> {Idle} \cup Steps \X (Regcs \cup {None})]
        /\ pc'["dbus"] = <<"idle", None>> /\ pc'["sip"] = pc["sip"]
    BY <1>5, GoType DEF Steps, Threads
  <2>2. TypeOK' /\ RegcsInUse' /\ \A q \in Regcs : Armed(q)' <=> Armed(q)
    BY <1>1, <1>5, <2>1, RequestedKeeps DEF TypeOK
  <2>3. UsesRegc' /\ ForgetsEnded' /\ TryingInHand' /\ RegcInHand'
    BY <1>1, <1>5, <2>1, <2>2 DEF UsesRegc, ForgetsEnded, TryingInHand, RegcInHand, Threads
  <2> QED
    BY <2>2, <2>3
<1> QED
  BY <1>0, <1>2, <1>3, <1>4, <1>5 DEF Leave

------------------------------------------------------------------------------
\* The steps of the SIP thread preserve the invariant.
LEMMA RefreshKeeps ==
    ASSUME RegInv, NEW r \in Regcs, Refresh(r)
    PROVE  RegInv'
<1> USE DEF RegInv
<1>1. /\ pc["sip"] = Idle /\ regcs' = TimerOff(r)
      /\ UNCHANGED <<account, unsent, granted, aborted>>
  BY DEF Refresh
<1>2. PICK s \in {"again", "refused"} : Go("sip", s, IF s = "again" THEN r ELSE None)
  BY DEF Refresh
<1>3. /\ pc' \in [Threads -> {Idle} \cup Steps \X (Regcs \cup {None})]
      /\ pc'["sip"] = <<s, IF s = "again" THEN r ELSE None>> /\ pc'["dbus"] = pc["dbus"]
  BY <1>1, <1>2, GoType DEF Steps, Threads
<1>4. /\ regcs' \in [Regcs -> RegcRecords] /\ RegcsInUse' /\ ~Armed(r)'
      /\ \A q \in Regcs : Armed(q)' =>
                ~(regcs[q].has_tsx /\ regcs[q].current_op = "registering")'
      /\ \A q \in Regcs : InFlight(q) <=> InFlight(q)'
  BY <1>1, TimerOffKeeps
<1>5. TypeOK'
  BY <1>1, <1>3, <1>4 DEF TypeOK
<1>6. UsesRegc' /\ ForgetsEnded' /\ RegcInHand'
  BY <1>1, <1>3, <1>4 DEF UsesRegc, ForgetsEnded, RegcInHand, Threads, Idle
<1>7. TryingInHand'
  BY <1>1, <1>3, <1>4 DEF TryingInHand, Threads, Idle, Answering
<1> QED
  BY <1>4, <1>5, <1>6, <1>7

\* The refresh is sent, or is not.
LEMMA AgainKeeps ==
    ASSUME RegInv, Again
    PROVE  RegInv'
<1> USE DEF RegInv
<1>0. PICK r \in Regcs : r = pc["sip"][2]
  BY DEF Again, UsesRegc, Threads
<1>1. /\ pc["sip"][1] = "again" /\ UNCHANGED <<account, unsent, granted>>
      /\ ~Armed(r)
  BY <1>0 DEF Again, UsesRegc, Threads
<1>2. CASE aborted' = TRUE /\ UNCHANGED <<regcs, pc>>
  BY <1>1, <1>2 DEF TypeOK, RegcsInUse, UsesRegc, TryingInHand, ForgetsEnded,
     RegcInHand, InFlight, Armed
<1>3. CASE /\ UNCHANGED aborted
           /\ \/ Go("sip", "refused", None) /\ UNCHANGED regcs
              \/ /\ Takes(r)
                 /\ \/ regcs' = Requested(r, "registering") /\ Go("sip", "idle", None)
                    \/ regcs' = Stuck(r, "registering") /\ Go("sip", "refused", None)
  <2>1. PICK s \in {"idle", "refused"} : Go("sip", s, None)
    BY <1>3
  <2>2. /\ pc' \in [Threads -> {Idle} \cup Steps \X (Regcs \cup {None})]
        /\ pc'["sip"] = <<s, None>> /\ pc'["dbus"] = pc["dbus"]
    BY <2>1, GoType DEF Steps, Threads
  <2>3. /\ regcs' \in [Regcs -> RegcRecords] /\ RegcsInUse'
        /\ \A q \in Regcs : Armed(q)' =>
                ~(regcs[q].has_tsx /\ regcs[q].current_op = "registering")'
        /\ \A q \in Regcs : Armed(q)' <=> Armed(q)
    <3>1. CASE regcs' = regcs
      BY <3>1 DEF TypeOK, RegcsInUse, Armed
    <3>2. CASE regcs' = Requested(r, "registering") \/ regcs' = Stuck(r, "registering")
      BY <1>1, <3>2, RequestedKeeps
    <3> QED
      BY <1>0, <1>3, <3>1, <3>2 DEF Again
  <2>4. TypeOK'
    BY <1>1, <1>3, <2>2, <2>3 DEF TypeOK
  <2>5. UsesRegc' /\ ForgetsEnded' /\ RegcInHand'
    BY <1>1, <2>2, <2>3 DEF UsesRegc, ForgetsEnded, RegcInHand, Threads
  <2>6. TryingInHand'
    <3>1. CASE s = "refused"
      BY <2>2, <3>1 DEF TryingInHand, Answering
    <3>2. CASE s = "idle"
      <4>1. regcs' = Requested(r, "registering") /\ Takes(r)
        <5>1. ~Go("sip", "refused", None)
          BY <2>2, <3>2 DEF TypeOK, Threads
        <5> QED
          BY <1>3, <5>1
      <4>2. InFlight(r)'
        BY <1>1, <4>1, RequestedFacts DEF RequestedType, InFlight, Takes, RegcsInUse
      <4> QED
        BY <1>1, <4>2 DEF TryingInHand
    <3> QED
      BY <3>1, <3>2
  <2> QED
    BY <2>3, <2>4, <2>5, <2>6
<1> QED
  BY <1>0, <1>2, <1>3 DEF Again

\* A refresh waits for some time, and for less than was granted if that allows it.
LEMMA RefreshDelayFacts ==
    ASSUME NEW expires \in Nat \cup {NotSpecified}, NEW grant \in Nat \ {0}
    PROVE  /\ RefreshDelay(expires, grant) \in Nat \ {0}
           /\ grant > Margin => RefreshDelay(expires, grant) < grant
<1>1. expires \in Int /\ grant \in Int /\ grant > 0
  BY DEF NotSpecified
<1> DEFINE due == IF expires # NotSpecified /\ grant - Margin > expires
                  THEN expires ELSE grant - Margin
<1>2. due \in Int /\ due <= grant - 5
  BY <1>1 DEF Margin
<1>3. RefreshDelay(expires, grant) = IF due < 5 THEN 5 ELSE due
  BY <1>1 DEF RefreshDelay, Margin
<1> HIDE DEF due
<1> QED
  BY <1>1, <1>2, <1>3 DEF Margin

\* What an answer leaves of the structures.
Answered(r) ==
    /\ Only(r)
    /\ regcs'[r].created
    /\ regcs'[r].has_tsx <=> regcs'[r].stuck
    /\ ~(Armed(r)' /\ regcs'[r].has_tsx /\ regcs'[r].current_op = "registering")

\* What a success leaves of its structure.
LEMMA ClosedFacts ==
    ASSUME RegInv, NEW r \in Regcs, InFlight(r), NEW grant \in Nat, regcs' = Closed(r, grant)
    PROVE  /\ Answered(r) /\ ~regcs'[r].has_tsx
           /\ regcs'[r].current_op = "idle" /\ regcs'[r].expires = grant
           /\ grant > 0 => regcs'[r].timer = RefreshDelay(regcs[r].expires, grant)
<1> DEFINE old  == regcs[r]
           wait == IF grant > 0 THEN RefreshDelay(old.expires, grant) ELSE old.timer
           new  == [old EXCEPT !.has_tsx = FALSE, !.current_op = "idle",
                               !.expires = grant, !.timer = wait]
<1>1. regcs \in [Regcs -> RegcRecords] /\ old \in RegcRecords /\ old.created /\ ~old.stuck
  BY DEF RegInv, TypeOK, RegcsInUse, InFlight
<1>2. wait \in Nat
  <2>1. old.timer \in Nat /\ old.expires \in Nat \cup {NotSpecified}
    BY <1>1 DEF RegcRecords
  <2>2. CASE grant > 0
    <3>1. grant \in Nat \ {0}
      BY <2>2
    <3> QED
      BY <2>1, <2>2, <3>1, RefreshDelayFacts
  <2> QED
    BY <2>1, <2>2
<1>3. regcs' = [regcs EXCEPT ![r] = new]
  BY DEF Closed, InFlight
<1> HIDE DEF wait
<1>4. /\ new \in RegcRecords /\ ~new.has_tsx /\ new.current_op = "idle"
      /\ new.created = old.created /\ new.stuck = old.stuck
      /\ new.timer = wait /\ new.expires = grant
  BY <1>1, <1>2 DEF RegcRecords
<1> HIDE DEF new
<1>5. regcs'[r] = new /\ Only(r)
  BY <1>1, <1>3, <1>4 DEF Only
<1>6. grant > 0 => wait = RefreshDelay(old.expires, grant)
  BY DEF wait
<1> QED
  BY <1>1, <1>4, <1>5, <1>6 DEF Answered

\* What a failure leaves of its structure.
LEMMA FailedFacts ==
    ASSUME RegInv, NEW r \in Regcs, InFlight(r), regcs' = Failed(r)
    PROVE  Answered(r) /\ regcs'[r].expires = NotSpecified
<1> DEFINE old == regcs[r]
           new == [old EXCEPT !.has_tsx = FALSE, !.expires = NotSpecified]
<1>1. regcs \in [Regcs -> RegcRecords] /\ old \in RegcRecords /\ old.created /\ ~old.stuck
  BY DEF RegInv, TypeOK, RegcsInUse, InFlight
<1>2. Failed(r) = [regcs EXCEPT ![r] = new]
  BY Zenon DEF Failed
<1>3. /\ new \in RegcRecords /\ ~new.has_tsx /\ new.created /\ ~new.stuck
      /\ new.expires = NotSpecified
  BY <1>1 DEF RegcRecords
<1> HIDE DEF new
<1> QED
  BY <1>1, <1>2, <1>3 DEF Answered, Only

\* What a challenge that could not be answered leaves of its structure.
LEMMA ChallengedFacts ==
    ASSUME RegInv, NEW r \in Regcs, InFlight(r), regcs' \in Challenged(r)
    PROVE  Answered(r)
<1> DEFINE old == regcs[r]
           new == [old EXCEPT !.has_tsx = FALSE, !.current_op = "idle"]
<1>1. /\ regcs \in [Regcs -> RegcRecords] /\ old \in RegcRecords /\ old.created /\ ~old.stuck
      /\ old.has_tsx
  BY DEF RegInv, TypeOK, RegcsInUse, InFlight
<1>2. CASE regcs' = [regcs EXCEPT ![r] = new]
  <2>1. new \in RegcRecords /\ ~new.has_tsx /\ new.created /\ ~new.stuck
    BY <1>1 DEF RegcRecords
  <2> HIDE DEF new
  <2> QED
    BY <1>1, <1>2, <2>1 DEF Answered, Only
<1>3. CASE regcs' = Stuck(r, old.current_op)
  <2>1. RequestedType(r, old.current_op) /\ regcs'[r].stuck
    BY <1>1, <1>3, RequestedFacts DEF RegInv, RegcRecords
  <2>2. ~(Armed(r) /\ old.current_op = "registering")
    BY <1>1 DEF RegInv, TypeOK
  <2> QED
    BY <2>1, <2>2 DEF Answered, RequestedType, Armed
<1>4. Challenged(r) = {[regcs EXCEPT ![r] = new], Stuck(r, old.current_op)}
  BY Zenon DEF Challenged
<1> QED
  BY <1>2, <1>3, <1>4

\* Every answer leaves the SIP thread with something to show.
LEMMA TsxCallbackKeeps ==
    ASSUME RegInv, NEW r \in Regcs, tsx_callback(r)
    PROVE  RegInv'
<1> USE DEF RegInv
<1>1. /\ pc["sip"] = Idle /\ InFlight(r)
      /\ UNCHANGED <<account, unsent, aborted>>
      /\ granted' \in Nat
  BY GrantsAssumption DEF tsx_callback, TypeOK
<1>2. /\ \E s \in {"ok", "refused", "brief"} : Go("sip", s, None)
      /\ \/ \E grant \in Nat : regcs' = Closed(r, grant)
         \/ regcs' = Failed(r) \/ regcs' \in Challenged(r)
  BY GrantsAssumption DEF tsx_callback
<1>3. PICK s \in {"ok", "refused", "brief"} : Go("sip", s, None)
  BY <1>2
<1>4. pc' \in [Threads -> {Idle} \cup Steps \X (Regcs \cup {None})]
      /\ pc'["sip"] = <<s, None>> /\ pc'["dbus"] = pc["dbus"]
  BY <1>3, GoType DEF Steps, Threads
<1>5. Answered(r)
  BY <1>1, <1>2, ClosedFacts, FailedFacts, ChallengedFacts
<1>6. /\ regcs' \in [Regcs -> RegcRecords] /\ RegcsInUse'
      /\ \A q \in Regcs : Armed(q)' =>
                ~(regcs[q].has_tsx /\ regcs[q].current_op = "registering")'
  BY <1>5 DEF TypeOK, RegcsInUse, Answered, Only, Armed
<1>7. TypeOK'
  BY <1>1, <1>4, <1>6 DEF TypeOK
<1>8. TryingInHand'
  BY <1>4 DEF TryingInHand, Answering
<1>9. UsesRegc' /\ ForgetsEnded' /\ RegcInHand'
  BY <1>1, <1>4 DEF UsesRegc, ForgetsEnded, RegcInHand, Threads, Idle
<1> QED
  BY <1>6, <1>7, <1>8, <1>9

\* Ok and TooBrief only choose the next step.
LEMMA ChooseKeeps ==
    ASSUME RegInv, Ok \/ TooBrief
    PROVE  RegInv'
<1> USE DEF RegInv
<1>1. PICK s \in {"registered", "unregistered", "register"} : Go("sip", s, None)
  BY DEF Ok, TooBrief
<1>2. pc["sip"][1] \in {"ok", "brief"} /\ UNCHANGED <<account, regcs, unsent, granted, aborted>>
  BY DEF Ok, TooBrief
<1>3. pc' \in [Threads -> {Idle} \cup Steps \X (Regcs \cup {None})]
      /\ pc'["sip"] = <<s, None>> /\ pc'["dbus"] = pc["dbus"]
  BY <1>1, GoType DEF Steps, Threads
<1>4. TypeOK' /\ RegcsInUse'
  BY <1>2, <1>3 DEF TypeOK, RegcsInUse
<1>5. TryingInHand'
  BY <1>3 DEF TryingInHand, Answering
<1>6. UsesRegc' /\ ForgetsEnded' /\ RegcInHand'
  BY <1>2, <1>3 DEF UsesRegc, ForgetsEnded, RegcInHand, Threads
<1> QED
  BY <1>4, <1>5, <1>6

\* What is shown is not that the account is trying.
LEMMA ShowKeeps ==
    ASSUME RegInv, NEW step \in {"registered", "unregistered", "refused"},
           NEW state \in {"Registered", "Unregistered", "Error"},
           NEW next \in {"idle", "clear"}, Show(step, state, next)
    PROVE  RegInv'
<1> USE DEF RegInv
<1>1. /\ pc["sip"][1] = step /\ account' = [account EXCEPT !.state = state]
      /\ Go("sip", next, None) /\ UNCHANGED <<regcs, unsent, granted, aborted>>
  BY DEF Show
<1>2. pc' \in [Threads -> {Idle} \cup Steps \X (Regcs \cup {None})]
      /\ pc'["sip"] = <<next, None>> /\ pc'["dbus"] = pc["dbus"]
  BY <1>1, GoType DEF Steps, Threads
<1>3. /\ account' \in Accounts /\ account'.register = account.register
      /\ account'.regc = account.regc /\ account'.state # "Trying"
  BY <1>1 DEF TypeOK, Accounts
<1>4. TypeOK' /\ RegcsInUse'
  BY <1>1, <1>2, <1>3 DEF TypeOK, RegcsInUse
<1>5. TryingInHand'
  BY <1>3 DEF TryingInHand
<1>6. UsesRegc' /\ ForgetsEnded' /\ RegcInHand'
  BY <1>1, <1>2, <1>3 DEF UsesRegc, ForgetsEnded, RegcInHand, Threads
<1> QED
  BY <1>4, <1>5, <1>6

------------------------------------------------------------------------------
\* The inductive invariant.
THEOREM RegistrationInvariant == Spec => []RegInv
<1>1. RegInv /\ [Next]_vars => RegInv'
  <2> SUFFICES ASSUME RegInv, [Next]_vars PROVE RegInv'
    OBVIOUS
  <2>1. CASE DBusStep
    BY <2>1, RegisterKeeps, SendKeeps, StoreKeeps, ClearKeeps, UnregisterKeeps, ByeKeeps,
       LeaveKeeps, ForgetKeeps DEF DBusStep, Threads
  <2>2. CASE SipStep
    BY <2>2, RegisterKeeps, SendKeeps, StoreKeeps, ClearKeeps, AgainKeeps, ChooseKeeps,
       ShowKeeps
       DEF SipStep, Threads, Registered, Unregistered, Refused
  <2>3. CASE \E enable \in BOOLEAN : SetEnabled(enable)
    BY <2>3, SetEnabledKeeps
  <2>4. CASE \E r \in Regcs : Refresh(r) \/ tsx_callback(r)
    BY <2>4, RefreshKeeps, TsxCallbackKeeps
  <2>5. CASE UNCHANGED vars
    BY <2>5 DEF vars, RegInv, TypeOK, RegcsInUse, UsesRegc, TryingInHand,
       ForgetsEnded, RegcInHand, InFlight, Armed
  <2> QED
    BY <2>1, <2>2, <2>3, <2>4, <2>5 DEF Next
<1> QED
  BY <1>1, InitReg, PTL DEF Spec

\* Type correctness; in particular no refresh timer runs while a registration of
\* the same structure is pending, so that tsx_callback schedules none twice.
THEOREM RegistrationTypeCorrect == Spec => []TypeOK
  BY RegistrationInvariant, PTL DEF RegInv

\* An account that is shown trying has a request on its way.
THEOREM TryingHasRequest == Spec => []TryingIsPending
<1>1. RegInv => TryingIsPending
  BY DEF RegInv, TryingInHand, TryingIsPending, AtRest, Idle, Threads, Answering
<1> QED
  BY <1>1, RegistrationInvariant, PTL

\* An account that says it registered has the structure to unregister with.
THEOREM RegisteredCanUnregister == Spec => []CanUnregister
<1>1. RegInv => CanUnregister
  BY DEF RegInv, RegcInHand, CanUnregister, AtRest, Idle, Threads
<1> QED
  BY <1>1, RegistrationInvariant, PTL

------------------------------------------------------------------------------
(***************************************************************************)
(* An account that says it registered goes on registering.                 *)
(***************************************************************************)

\* The timer will ask for the registration again, in time if the grant allows it,
\* and pjsip_regc_send will take the request; or it was asked for.
Timely(r) ==
    /\ Armed(r) /\ Takes(r)
    /\ granted > Margin => regcs[r].timer < regcs[r].expires

Asked(r) == InFlight(r) /\ regcs[r].current_op = "registering"

\* The steps from which the SIP thread will lower the account's flag: all of a
\* failed request, and of the registration it makes for a 423.
Lowering == {"refused", "brief", "unregistered", "register", "send", "store", "clear"}

\* The D-Bus thread has stopped the timer, and will be able to unregister.
AboutToLeave == At("dbus", "leave") /\ Takes(pc["dbus"][2])

\* An account that says it registered is refreshed, unless a thread is about to
\* lower its flag, or to send.
RefreshInHand ==
    account.register /\ ~unsent /\ granted > 0 =>
        \/ \E r \in Regcs : Timely(r) \/ Asked(r)
        \/ \E s \in Lowering \cup {"again"} : At("sip", s)
        \/ At("dbus", "send") \/ At("dbus", "clear") \/ AboutToLeave

\* A structure whose record is as it was is as timely.
LEMMA StillRefreshing ==
    ASSUME NEW r \in Regcs, regcs'[r] = regcs[r], granted' = granted
    PROVE  /\ Timely(r) => Timely(r)'
           /\ Asked(r) => Asked(r)'
           /\ Takes(r) => Takes(r)'
  BY DEF Timely, Asked, InFlight, Armed, Takes

\* A registration that was sent.
LEMMA SentRefreshes ==
    ASSUME RegInv, NEW r \in Regcs, ~regcs[r].stuck, regcs' = Requested(r, "registering")
    PROVE  Asked(r)'
<1>1. RequestedType(r, "registering") /\ regcs'[r].stuck = regcs[r].stuck
  BY RequestedFacts DEF RegInv
<1> QED
  BY <1>1 DEF RequestedType, Asked, InFlight

\* A registration that succeeds arms its timer.
LEMMA AnsweredRefreshes ==
    ASSUME RegInv, NEW r \in Regcs, InFlight(r), NEW grant \in Nat \ {0},
           regcs' = Closed(r, grant), granted' = grant
    PROVE  Timely(r)'
<1>1. regcs[r].expires \in Nat \cup {NotSpecified}
  BY DEF RegInv, TypeOK, RegcRecords
<1>2. /\ ~regcs'[r].has_tsx /\ regcs'[r].current_op = "idle" /\ regcs'[r].expires = grant
      /\ regcs'[r].timer = RefreshDelay(regcs[r].expires, grant)
  BY ClosedFacts
<1>3. /\ RefreshDelay(regcs[r].expires, grant) \in Nat \ {0}
      /\ grant > Margin => RefreshDelay(regcs[r].expires, grant) < grant
  BY <1>1, RefreshDelayFacts
<1> QED
  BY <1>2, <1>3 DEF Timely, Armed, Takes

\* A request that is sent refreshes the account.
LEMMA SendRefreshes ==
    ASSUME RegInv, NEW t \in Threads, Send(t)
    PROVE  RefreshInHand'
<1>1. PICK r \in Regcs :
        /\ ~regcs[r].created
        /\ \/ regcs' = Requested(r, "registering") /\ unsent' = FALSE
           \/ unsent' = TRUE
  BY DEF Send
<1>2. ~regcs[r].stuck
  BY <1>1 DEF RegInv, RegcsInUse
<1> QED
  BY <1>1, <1>2, SentRefreshes DEF RefreshInHand

\* The other steps of the account: the flag they raise is about to be sent, the
\* one they lower asks for nothing.
LEMMA AccountRefreshes ==
    ASSUME RegInv, RefreshInHand, NEW t \in Threads,
           Register(t) \/ Store(t) \/ Clear(t)
    PROVE  RefreshInHand'
<1>1. UNCHANGED <<regcs, unsent, granted>> /\ account \in Accounts /\ pc[t] # Idle
  BY DEF Register, Store, Clear, RegInv, TypeOK, Idle
<1>2. \A r \in Regcs : (Timely(r) \/ Asked(r)) => (Timely(r) \/ Asked(r))'
  BY <1>1, StillRefreshing
<1>3. CASE Register(t)
  <2>1. pc' = [pc EXCEPT ![t] = <<"send", None>>]
    BY <1>3 DEF Register
  <2>2. pc'[t] = <<"send", None>>
    BY <2>1 DEF RegInv, TypeOK
  <2> QED
    BY <2>2 DEF RefreshInHand, Lowering, Threads
<1>4. CASE Clear(t)
  <2>1. ~account'.register
    BY <1>1, <1>4 DEF Clear, Accounts
  <2> QED
    BY <2>1 DEF RefreshInHand
<1>5. CASE Store(t)
  <2>1. account'.register = account.register /\ pc[t][1] = "store"
        /\ pc' = [pc EXCEPT ![t] = <<AfterRegister(t), None>>]
    BY <1>1, <1>5 DEF Store, Accounts
  <2>2. pc'[t] = <<AfterRegister(t), None>> /\ \A u \in Threads \ {t} : pc'[u] = pc[u]
    BY <2>1 DEF RegInv, TypeOK
  <2>3. t = "sip" => At("sip", "clear")'
    BY <2>2 DEF AfterRegister
  <2>4. t = "dbus" => pc'["sip"] = pc["sip"] /\ ~AboutToLeave
    BY <2>1, <2>2 DEF Threads, AboutToLeave
  <2> QED
    BY <1>1, <1>2, <2>1, <2>3, <2>4 DEF RefreshInHand, Lowering, Threads
<1> QED
  BY <1>3, <1>4, <1>5

\* The steps of the D-Bus thread that touch no structure.
LEMMA UserRefreshes ==
    ASSUME RegInv, RefreshInHand,
           Unregister \/ Forget \/ \E enable \in BOOLEAN : SetEnabled(enable)
    PROVE  RefreshInHand'
<1>1. /\ UNCHANGED <<regcs, unsent, granted>> /\ account'.register = account.register
      /\ pc["dbus"][1] \notin {"send", "clear", "leave"}
  BY DEF Unregister, Forget, SetEnabled, RegInv, TypeOK, Accounts, Idle
<1>2. pc'["sip"] = pc["sip"]
  BY DEF Unregister, Forget, SetEnabled, RegInv, TypeOK, Threads
<1>3. \A r \in Regcs : (Timely(r) \/ Asked(r)) => (Timely(r) \/ Asked(r))'
  BY <1>1, StillRefreshing
<1> QED
  BY <1>1, <1>2, <1>3 DEF RefreshInHand, AboutToLeave

\* The timer that is stopped is the one of a structure that can unregister.
LEMMA ByeRefreshes ==
    ASSUME RegInv, RefreshInHand, Bye
    PROVE  RefreshInHand'
<1>0. PICK r \in Regcs \cup {None} : r = account.regc
  BY DEF RegInv, TypeOK, Accounts
<1>1. /\ pc["dbus"][1] = "bye" /\ UNCHANGED <<account, granted>> /\ pc'["sip"] = pc["sip"]
  BY DEF Bye, RegInv, TypeOK, Threads
<1>2. CASE unsent' = TRUE
  BY <1>2 DEF RefreshInHand
<1>3. CASE UNCHANGED <<regcs, unsent>>
  <2>1. \A q \in Regcs : (Timely(q) \/ Asked(q)) => (Timely(q) \/ Asked(q))'
    BY <1>1, <1>3, StillRefreshing
  <2> QED
    BY <1>1, <1>3, <2>1 DEF RefreshInHand, AboutToLeave
<1>4. CASE r # None /\ regcs' = TimerOff(r) /\ Go("dbus", "leave", r) /\ UNCHANGED unsent
  <2>1. pc'["dbus"] = <<"leave", r>> /\ r \in Regcs
    BY <1>1, <1>4 DEF RegInv, TypeOK, Threads
  <2>2. /\ Only(r)
        /\ regcs'[r].has_tsx <=> regcs[r].has_tsx
        /\ regcs'[r].stuck <=> regcs[r].stuck
        /\ regcs'[r].current_op = regcs[r].current_op
    BY <1>4, <2>1, TimerOffFacts DEF RegInv
  <2>3. \A q \in Regcs \ {r} : (Timely(q) \/ Asked(q)) => (Timely(q) \/ Asked(q))'
    BY <1>1, <2>2, StillRefreshing DEF Only
  <2>4. Timely(r) => AboutToLeave'
    BY <2>1, <2>2 DEF Timely, Takes, AboutToLeave
  <2>5. Asked(r) => Asked(r)'
    BY <2>2 DEF Asked, InFlight
  <2>6. (\E q \in Regcs : Timely(q) \/ Asked(q))
            => (\E q \in Regcs : Timely(q) \/ Asked(q))' \/ AboutToLeave'
    BY <2>3, <2>4, <2>5
  <2> QED
    BY <1>1, <1>4, <2>6 DEF RefreshInHand, AboutToLeave
<1> QED
  BY <1>0, <1>2, <1>3, <1>4 DEF Bye

\* A request that pjsip does not take leaves the structures alone.
LEMMA LeaveRefreshes ==
    ASSUME RegInv, RefreshInHand, Leave
    PROVE  RefreshInHand'
<1>0. PICK r \in Regcs : r = pc["dbus"][2]
  BY DEF Leave, RegInv, UsesRegc, Threads
<1>1. pc["dbus"][1] = "leave" /\ UNCHANGED <<account, granted>> /\ pc'["sip"] = pc["sip"]
  BY DEF Leave, RegInv, TypeOK, Threads
<1>2. CASE unsent' = TRUE
  BY <1>2 DEF RefreshInHand
<1>3. CASE Go("dbus", "clear", None)
  <2>1. pc'["dbus"] = <<"clear", None>>
    BY <1>3 DEF RegInv, TypeOK, Threads
  <2> QED
    BY <2>1 DEF RefreshInHand
<1>4. CASE ~Takes(r) /\ UNCHANGED <<regcs, unsent>>
  <2>1. \A q \in Regcs : (Timely(q) \/ Asked(q)) => (Timely(q) \/ Asked(q))'
    BY <1>1, <1>4, StillRefreshing
  <2> QED
    BY <1>0, <1>1, <1>4, <2>1 DEF RefreshInHand, AboutToLeave
<1>5. Refuses(r) \/ Asserts(r) => ~Takes(r)
  BY DEF Refuses, Asserts, Takes
<1> QED
  BY <1>0, <1>2, <1>3, <1>4, <1>5 DEF Leave

\* A refresh that cannot be made is refused, and the flag goes down.
LEMMA RefreshRefreshes ==
    ASSUME RegInv, NEW r \in Regcs, Refresh(r)
    PROVE  RefreshInHand'
<1>1. pc'["sip"] \in {<<"again", r>>, <<"refused", None>>}
  BY DEF Refresh, RegInv, TypeOK, Threads
<1> QED
  BY <1>1 DEF RefreshInHand, Lowering

\* So is one that cannot be sent.
LEMMA AgainRefreshes ==
    ASSUME RegInv, Again
    PROVE  RefreshInHand'
<1>0. PICK r \in Regcs : r = pc["sip"][2]
  BY DEF Again, RegInv, UsesRegc, Threads
<1>1. pc["sip"][1] = "again"
  BY DEF Again
<1>2. CASE regcs' = Requested(r, "registering") /\ Takes(r)
  <2>1. ~regcs[r].stuck
    BY <1>1, <1>2 DEF RegInv, RegcsInUse, Takes
  <2> QED
    BY <1>1, <1>2, <2>1, SentRefreshes DEF RefreshInHand
<1>3. CASE Go("sip", "refused", None)
  <2>1. pc'["sip"] = <<"refused", None>>
    BY <1>3 DEF RegInv, TypeOK, Threads
  <2> QED
    BY <2>1 DEF RefreshInHand, Lowering
<1>4. CASE UNCHANGED pc
  BY <1>1, <1>4 DEF RefreshInHand
<1> QED
  BY <1>0, <1>2, <1>3, <1>4 DEF Again

\* A registration's success arms its timer, an unregistration's leaves what
\* refreshes the account; any other answer lowers the flag.
LEMMA TsxCallbackRefreshes ==
    ASSUME RegInv, RefreshInHand, NEW r \in Regcs, tsx_callback(r)
    PROVE  RefreshInHand'
<1>1. pc["sip"] = Idle /\ InFlight(r) /\ UNCHANGED <<account, unsent>>
  BY DEF tsx_callback
<1>2. CASE Go("sip", "refused", None) \/ Go("sip", "brief", None)
  <2>1. pc'["sip"] \in {<<"refused", None>>, <<"brief", None>>}
    BY <1>2 DEF RegInv, TypeOK, Threads
  <2> QED
    BY <2>1 DEF RefreshInHand, Lowering
<1>3. ASSUME NEW grant \in Grants, regcs' = Closed(r, grant), granted' = grant
      PROVE  RefreshInHand'
  <2>1. grant \in Nat
    BY GrantsAssumption
  <2>2. CASE grant = 0
    BY <1>3, <2>2 DEF RefreshInHand
  <2>3. CASE grant # 0
    BY <1>1, <1>3, <2>1, <2>3, AnsweredRefreshes DEF RefreshInHand
  <2> QED
    BY <2>2, <2>3
<1>4. CASE /\ regcs[r].current_op = "unregistering" /\ Go("sip", "ok", None)
           /\ regcs' = Closed(r, 0) /\ UNCHANGED granted
  <2>1. pc'["dbus"] = pc["dbus"] /\ \A s \in Lowering \cup {"again"} : ~At("sip", s)
    BY <1>1, <1>4 DEF RegInv, TypeOK, Threads, Idle, Lowering
  <2>2. \A s \in Regcs \ {r} : regcs'[s] = regcs[s]
    BY <1>1, <1>4, ClosedFacts DEF Answered, Only
  <2>3. \A s \in Regcs \ {r} : (Timely(s) \/ Asked(s)) => (Timely(s) \/ Asked(s))'
    BY <1>4, <2>2, StillRefreshing
  <2>4. ~Timely(r) /\ ~Asked(r) /\ ~Takes(r)
    BY <1>1, <1>4 DEF Timely, Asked, Takes, InFlight
  <2>5. AboutToLeave => AboutToLeave'
    <3> SUFFICES ASSUME AboutToLeave PROVE AboutToLeave'
      OBVIOUS
    <3>1. pc["dbus"][2] \in Regcs \ {r}
      BY <2>4 DEF AboutToLeave, RegInv, UsesRegc, Threads
    <3> QED
      BY <2>1, <2>2, <3>1 DEF AboutToLeave, Takes
  <2> QED
    BY <1>1, <1>4, <2>1, <2>3, <2>4, <2>5 DEF RefreshInHand
<1> QED
  BY <1>2, <1>3, <1>4 DEF tsx_callback

\* The rest of registration_cb: only a success leaves the flag up.
LEMMA CallbackRefreshes ==
    ASSUME RegInv, RefreshInHand, Ok \/ TooBrief \/ Registered \/ Unregistered \/ Refused
    PROVE  RefreshInHand'
<1>1. UNCHANGED <<regcs, unsent, granted>> /\ account'.register = account.register
  BY DEF Ok, TooBrief, Registered, Unregistered, Refused, Show, RegInv, TypeOK, Accounts
<1>2. pc'["dbus"] = pc["dbus"]
  BY DEF Ok, TooBrief, Registered, Unregistered, Refused, Show, RegInv, TypeOK, Threads
<1>3. \A r \in Regcs : (Timely(r) \/ Asked(r)) => (Timely(r) \/ Asked(r))'
  BY <1>1, StillRefreshing
<1>4. CASE TooBrief \/ Unregistered \/ Refused
  <2>1. At("sip", "register")' \/ At("sip", "clear")'
    BY <1>4 DEF TooBrief, Unregistered, Refused, Show, RegInv, TypeOK, Threads
  <2> QED
    BY <2>1 DEF RefreshInHand, Lowering
<1>5. CASE Ok \/ Registered
  <2>1. \A s \in Lowering \cup {"again"} : ~At("sip", s)
    BY <1>5 DEF Ok, Registered, Show, Lowering
  <2>2. AboutToLeave => AboutToLeave'
    BY <1>1, <1>2 DEF AboutToLeave, Takes
  <2> QED
    BY <1>1, <1>2, <1>3, <2>1, <2>2 DEF RefreshInHand
<1> QED
  BY <1>4, <1>5

\* An account at rest that is shown registered, says so, and was granted any time is
\* refreshed, before its binding expires if more than five seconds were granted: the
\* timer of one of its structures runs, or a request is on its way.
THEOREM RegisteredRefreshes == Spec => []RegisteredIsRefreshed
<1>1. Init => RefreshInHand
  BY DEF Init, RefreshInHand
<1>2. RegInv /\ RefreshInHand /\ [Next]_vars => RefreshInHand'
  <2> SUFFICES ASSUME RegInv, RefreshInHand, [Next]_vars PROVE RefreshInHand'
    OBVIOUS
  <2>1. CASE DBusStep
    BY <2>1, AccountRefreshes, SendRefreshes, UserRefreshes, ByeRefreshes, LeaveRefreshes
       DEF DBusStep, Threads
  <2>2. CASE SipStep
    BY <2>2, AccountRefreshes, SendRefreshes, AgainRefreshes, CallbackRefreshes
       DEF SipStep, Threads
  <2>3. CASE \E enable \in BOOLEAN : SetEnabled(enable)
    BY <2>3, UserRefreshes
  <2>4. CASE \E r \in Regcs : Refresh(r) \/ tsx_callback(r)
    BY <2>4, RefreshRefreshes, TsxCallbackRefreshes
  <2>5. CASE UNCHANGED vars
    BY <2>5 DEF vars, RefreshInHand, Timely, Asked, InFlight, Armed, Takes, AboutToLeave
  <2> QED
    BY <2>1, <2>2, <2>3, <2>4, <2>5 DEF Next
<1>3. RefreshInHand => RegisteredIsRefreshed
  BY DEF RefreshInHand, Timely, Asked, Lowering, RegisteredIsRefreshed, AtRest, Idle, Threads,
     AboutToLeave
<1> QED
  BY <1>1, <1>2, <1>3, RegistrationInvariant, PTL DEF Spec

===============================================================================
