---------------------------- MODULE SIPRegistration ----------------------------
(***************************************************************************)
(* The registration of a SIP account: SIPVoIPLink::sendRegister and        *)
(* sendUnregister, which the D-Bus thread runs when the user enables or    *)
(* disables the account, and registration_cb, which the SIP thread runs    *)
(* when pjsip has an answer.  Every sendRegister makes a new pjsip_regc,   *)
(* the client of one registration, and none is ever destroyed.  A          *)
(* pjsip_regc sends one request at a time and refreshes its registration   *)
(* when its timer expires; it is modelled from sip_reg.c of the pjproject  *)
(* the daemon is built with.                                               *)
(*                                                                         *)
(* Only sendRegister takes _mutexSIP, and not for all it does.  Each step  *)
(* is an access to the account or to a pjsip_regc, which has its own lock. *)
(***************************************************************************)
EXTENDS Integers, FiniteSets

CONSTANTS Regcs,   \* the pjsip_regc structures; their number bounds the runs
          None,    \* the null pointer
          Grants   \* the seconds a registrar may grant

ASSUME NoneAssumption == None \notin Regcs
ASSUME GrantsAssumption == Grants \subseteq Nat

\* DELAY_BEFORE_REFRESH, and PJSIP_REGC_EXPIRATION_NOT_SPECIFIED.
Margin == 5
NotSpecified == -1

VARIABLES account,  \* the SIPAccount: enabled, _bRegister, _registrationState, _regc
          regcs,    \* each pjsip_regc: has_tsx, current_op, expires, the delay its
                    \* timer runs with (0 when it does not run); created, and
                    \* stuck: has_tsx of a transaction that was never sent
          pc,       \* what each thread does next, and with which pjsip_regc
          unsent,   \* the last request could not be sent
          granted,  \* what a registrar granted last: the expiration registration_cb gets
          aborted   \* an assertion failed

vars == <<account, regcs, pc, unsent, granted, aborted>>

Threads == {"dbus", "sip"}
Idle == <<"idle", None>>
Steps == {"register", "send", "store", "unregister", "bye", "leave", "clear", "forget",
          "again", "ok", "refused", "brief", "registered", "unregistered"}

Accounts == [enabled : BOOLEAN, register : BOOLEAN,
             state : {"Unregistered", "Trying", "Registered", "Error"},
             regc : Regcs \cup {None}]

RegcRecords == [created : BOOLEAN, has_tsx : BOOLEAN, timer : Nat,
                current_op : {"idle", "registering", "unregistering"},
                expires : Nat \cup {NotSpecified}, stuck : BOOLEAN]

Armed(r) == regcs[r].timer # 0

\* No refresh timer runs while a registration is pending, so that none is
\* scheduled twice; one may run while an unregistration is.
TypeOK ==
    /\ account \in Accounts
    /\ regcs \in [Regcs -> RegcRecords]
    /\ \A r \in Regcs : Armed(r) => ~(regcs[r].has_tsx /\ regcs[r].current_op = "registering")
    /\ unsent \in BOOLEAN /\ aborted \in BOOLEAN /\ granted \in Nat
    /\ pc \in [Threads -> {Idle} \cup Steps \X (Regcs \cup {None})]

Init ==
    /\ account = [enabled |-> FALSE, register |-> FALSE, state |-> "Unregistered",
                  regc |-> None]
    /\ regcs = [r \in Regcs |-> [created |-> FALSE, has_tsx |-> FALSE, timer |-> 0,
                                 current_op |-> "idle", expires |-> NotSpecified,
                                 stuck |-> FALSE]]
    /\ unsent = FALSE /\ aborted = FALSE /\ granted = 0
    /\ pc = [t \in Threads |-> Idle]

At(t, step) == pc[t][1] = step
Go(t, step, r) == pc' = [pc EXCEPT ![t] = <<step, r>>]

AtRest == \A t \in Threads : pc[t] = Idle

InFlight(r) == regcs[r].has_tsx /\ ~regcs[r].stuck

\* Bound: the pjsip_regc structures nothing is about to create.
Unused ==
    Cardinality({r \in Regcs : ~regcs[r].created})
      - Cardinality({t \in Threads : pc[t][1] \in {"brief", "register", "send"}})

\* Only sendRegister holds _mutexSIP, from its first step to its second.
MutexFree == \A t \in Threads : ~At(t, "send")

------------------------------------------------------------------------------
(***************************************************************************)
(* The user.                                                               *)
(***************************************************************************)

\* sendRegister and setAccountDetails of the manager.
SetEnabled(enable) ==
    /\ pc["dbus"] = Idle
    /\ enable => Unused > 0
    /\ account' = [account EXCEPT !.enabled = enable]
    /\ Go("dbus", IF enable THEN "register" ELSE "unregister", None)
    /\ UNCHANGED <<regcs, unsent, granted, aborted>>

------------------------------------------------------------------------------
(***************************************************************************)
(* sendRegister, run by either thread.                                     *)
(***************************************************************************)

\* What follows a registration: the SIP thread made it for a 423.
AfterRegister(t) == IF t = "sip" THEN "clear" ELSE "idle"

Register(t) ==
    /\ At(t, "register") /\ MutexFree
    /\ account' = [account EXCEPT !.register = TRUE, !.state = "Trying"]
    /\ Go(t, "send", None)
    /\ UNCHANGED <<regcs, unsent, granted, aborted>>

\* pjsip_regc_send of a request it takes.
Requested(r, op) ==
    [regcs EXCEPT ![r] = [@ EXCEPT !.created = TRUE, !.has_tsx = TRUE, !.current_op = op]]

\* pjsip_regc_send marks the transaction before it knows that it cannot send.
Stuck(r, op) ==
    LET n == Requested(r, op)
    IN  [n EXCEPT ![r].stuck = TRUE]

\* pjsip_regc_create: which one it is makes no difference.
Fresh == CHOOSE r \in Regcs : ~regcs[r].created

\* All of one structure's first request: no other thread has it yet.
Send(t) ==
    /\ At(t, "send")
    /\ \E r \in Regcs :
        /\ ~regcs[r].created /\ r = Fresh
        /\ \/ /\ regcs' = Requested(r, "registering")
              /\ unsent' = FALSE
              /\ Go(t, "store", r)
           \/ /\ regcs' = [regcs EXCEPT ![r].created = TRUE]
              /\ unsent' = TRUE
              /\ Go(t, AfterRegister(t), None)
    /\ UNCHANGED <<account, granted, aborted>>

\* Mutant: the account keeps the pjsip_regc it had.
StoreNothing(t) ==
    /\ At(t, "store")
    /\ Go(t, AfterRegister(t), None)
    /\ UNCHANGED <<account, regcs, unsent, granted, aborted>>

Store(t) ==
    /\ At(t, "store")
    /\ account' = [account EXCEPT !.regc = pc[t][2]]
    /\ Go(t, AfterRegister(t), None)
    /\ UNCHANGED <<regcs, unsent, granted, aborted>>

------------------------------------------------------------------------------
(***************************************************************************)
(* sendUnregister, and what unregisterVoIPLink does after it.              *)
(***************************************************************************)

Unregister ==
    /\ At("dbus", "unregister")
    /\ IF account.register
       THEN Go("dbus", "bye", None) /\ UNCHANGED account
       ELSE /\ account' = [account EXCEPT !.state = "Unregistered"]
            /\ Go("dbus", "forget", None)
    /\ UNCHANGED <<regcs, unsent, granted, aborted>>

\* pjsip_regc_register and pjsip_regc_unregister: the refresh timer is stopped.
TimerOff(r) == [regcs EXCEPT ![r].timer = 0]

\* pjsip_regc_unregister makes the request.  An exception ends unregisterVoIPLink.
Bye ==
    LET r == account.regc IN
    /\ At("dbus", "bye")
    /\ \/ /\ r = None
          /\ Go("dbus", "idle", None) /\ UNCHANGED <<regcs, unsent>>
       \/ /\ r # None /\ regcs' = TimerOff(r)
          /\ \/ Go("dbus", "leave", r) /\ UNCHANGED unsent
             \/ Go("dbus", "idle", None) /\ unsent' = TRUE
    /\ UNCHANGED <<account, granted, aborted>>

\* pjsip_regc_send takes the lock again: it refuses while a transaction is
\* pending, and asserts that the last one succeeded.
Refuses(r) == regcs[r].has_tsx
Asserts(r) == ~regcs[r].has_tsx /\ regcs[r].current_op # "idle"
Takes(r) == ~regcs[r].has_tsx /\ regcs[r].current_op = "idle"

Leave ==
    LET r == pc["dbus"][2] IN
    /\ At("dbus", "leave")
    /\ \/ /\ Refuses(r)
          /\ Go("dbus", "idle", None) /\ UNCHANGED <<regcs, unsent, aborted>>
       \/ /\ Asserts(r) /\ aborted' = TRUE
          /\ UNCHANGED <<regcs, unsent, pc>>
       \/ /\ Takes(r) /\ UNCHANGED aborted
          /\ \/ /\ regcs' = Requested(r, "unregistering")
                /\ unsent' = FALSE /\ Go("dbus", "clear", None)
             \/ /\ regcs' = Stuck(r, "unregistering")
                /\ unsent' = TRUE /\ Go("dbus", "idle", None)
    /\ UNCHANGED <<account, granted>>

\* The flag goes down at the end of sendUnregister, and of registration_cb
\* when the request failed.
Clear(t) ==
    /\ At(t, "clear")
    /\ account' = [account EXCEPT !.register = FALSE]
    /\ Go(t, IF t = "sip" THEN "idle" ELSE "forget", None)
    /\ UNCHANGED <<regcs, unsent, granted, aborted>>

Forget ==
    /\ At("dbus", "forget")
    /\ account' = [account EXCEPT !.regc = None]
    /\ Go("dbus", "idle", None)
    /\ UNCHANGED <<regcs, unsent, granted, aborted>>

------------------------------------------------------------------------------
(***************************************************************************)
(* pjsip's side of the SIP thread: the refresh timer, and tsx_callback     *)
(* when a request was answered.  A request or an answer that is lost is    *)
(* refused by pjsip's own 408, after 33 seconds.                           *)
(***************************************************************************)

\* The timer's callback makes the request and sends it under two locks;
\* registration_cb is told when either fails.
Refresh(r) ==
    /\ pc["sip"] = Idle
    /\ Armed(r)
    /\ regcs' = TimerOff(r)
    /\ Go("sip", "again", r) \/ Go("sip", "refused", None)
    /\ UNCHANGED <<account, unsent, granted, aborted>>

Again ==
    LET r == pc["sip"][2] IN
    /\ At("sip", "again")
    /\ \/ /\ Refuses(r)
          /\ Go("sip", "refused", None) /\ UNCHANGED <<regcs, aborted>>
       \/ /\ Asserts(r) /\ aborted' = TRUE
          /\ UNCHANGED <<regcs, pc>>
       \/ /\ Takes(r) /\ UNCHANGED aborted
          /\ \/ regcs' = Requested(r, "registering") /\ Go("sip", "idle", None)
             \/ regcs' = Stuck(r, "registering") /\ Go("sip", "refused", None)
    /\ UNCHANGED <<account, unsent, granted>>

\* Mutant: the refresh is due when the binding expires.
RefreshDelayNoMargin(expires, grant) == grant

\* When the registration is refreshed: before it expires, not later than the last
\* one would have, and not too soon.
RefreshDelay(expires, grant) ==
    LET early == grant - Margin
        due   == IF expires # NotSpecified /\ early > expires THEN expires ELSE early
    IN  IF due < Margin THEN Margin ELSE due

\* A success; that of a registration arms the timer, unless it was granted for no
\* time.  An unregistration's leaves alone one that runs.
Closed(r, grant) ==
    [regcs EXCEPT ![r] =
        [@ EXCEPT !.has_tsx = FALSE, !.current_op = "idle", !.expires = grant,
                  !.timer = IF grant > 0 THEN RefreshDelay(regcs[r].expires, grant)
                            ELSE regcs[r].timer]]

\* Any other answer does not reset current_op.
Failed(r) ==
    [regcs EXCEPT ![r] = [@ EXCEPT !.has_tsx = FALSE, !.expires = NotSpecified]]

\* A challenge that the account's password does not answer resets current_op; one
\* that is answered is sent at once, which may fail.
Challenged(r) ==
    {[regcs EXCEPT ![r] = [@ EXCEPT !.has_tsx = FALSE, !.current_op = "idle"]],
     Stuck(r, regcs[r].current_op)}

\* The lock of the pjsip_regc is released before registration_cb is called.
\* 423 answers a registration only.
tsx_callback(r) ==
    /\ pc["sip"] = Idle
    /\ InFlight(r)
    /\ \/ \E grant \in Grants :
            /\ regcs[r].current_op = "registering"
            /\ Go("sip", "ok", None) /\ regcs' = Closed(r, grant) /\ granted' = grant
       \/ /\ regcs[r].current_op = "unregistering"
          /\ Go("sip", "ok", None) /\ regcs' = Closed(r, 0) /\ UNCHANGED granted
       \/ /\ Go("sip", "refused", None) /\ regcs' \in {Failed(r)} \cup Challenged(r)
          /\ UNCHANGED granted
       \/ /\ regcs[r].current_op = "registering" /\ Unused > 0
          /\ Go("sip", "brief", None) /\ regcs' = Failed(r) /\ UNCHANGED granted
    /\ UNCHANGED <<account, unsent, aborted>>

------------------------------------------------------------------------------
(***************************************************************************)
(* registration_cb.                                                        *)
(***************************************************************************)

\* The account's flag decides what the client will see: it says which of the
\* two the last request was, not which one was answered.
Ok ==
    /\ At("sip", "ok")
    /\ Go("sip", IF account.register THEN "registered" ELSE "unregistered", None)
    /\ UNCHANGED <<account, regcs, unsent, granted, aborted>>

Show(step, state, next) ==
    /\ At("sip", step)
    /\ account' = [account EXCEPT !.state = state]
    /\ Go("sip", next, None)
    /\ UNCHANGED <<regcs, unsent, granted, aborted>>

\* Mutant: the client is not told of a failure.
RefusedUntold ==
    /\ At("sip", "refused")
    /\ Go("sip", "clear", None)
    /\ UNCHANGED <<account, regcs, unsent, granted, aborted>>

Registered == Show("registered", "Registered", "idle")
Unregistered == Show("unregistered", "Unregistered", "clear")
Refused == Show("refused", "Error", "clear")

\* 423: registration_cb asks for twice the time and registers again.
TooBrief ==
    /\ At("sip", "brief")
    /\ Go("sip", "register", None)
    /\ UNCHANGED <<account, regcs, unsent, granted, aborted>>

------------------------------------------------------------------------------

\* The step a thread is at.
DBusStep == Register("dbus") \/ Send("dbus") \/ Store("dbus") \/ Clear("dbus")
            \/ Unregister \/ Bye \/ Leave \/ Forget
SipStep == Register("sip") \/ Send("sip") \/ Store("sip") \/ Clear("sip")
           \/ Again \/ Ok \/ Registered \/ Unregistered \/ Refused \/ TooBrief

Next ==
    /\ ~aborted
    /\ \/ DBusStep \/ SipStep
       \/ \E enable \in BOOLEAN : SetEnabled(enable)
       \/ \E r \in Regcs : Refresh(r) \/ tsx_callback(r)

Spec == Init /\ [][Next]_vars

\* Both threads run, every transaction is answered or times out, and the SIP
\* thread handles every answer.
FairSpec ==
    /\ Spec
    /\ WF_vars(~aborted /\ DBusStep) /\ WF_vars(~aborted /\ SipStep)
    /\ \A r \in Regcs : WF_vars(~aborted /\ tsx_callback(r))

------------------------------------------------------------------------------
(***************************************************************************)
(* Properties.                                                             *)
(***************************************************************************)

\* The state the client sees is "Trying" only while a request is on its
\* way: no order of the two threads' steps leaves the account trying for ever.
TryingIsPending ==
    AtRest /\ account.state = "Trying" /\ ~unsent => \E r \in Regcs : InFlight(r)

\* An account that says it registered has the pjsip_regc to unregister with,
\* although the D-Bus thread forgets it while the SIP thread may make another.
CanUnregister == AtRest /\ account.register /\ ~unsent => account.regc # None

\* An account shown registered, to which the registrar granted any time, will be
\* refreshed; before its binding expires, if it granted more than the five seconds
\* that are the least a refresh waits.
RegisteredIsRefreshed ==
    /\ AtRest /\ account.register /\ account.state = "Registered" /\ ~unsent
    /\ \A r \in Regcs : ~InFlight(r)
    /\ granted > 0
    => \E r \in Regcs :
        Armed(r) /\ (granted > Margin => regcs[r].timer < regcs[r].expires)

\* Every attempt to register comes to an end when answers are lost, the threads'
\* steps cross, and the registrar asks for a longer time, though not for ever.
TryingEnds ==
    account.state = "Trying" ~> account.state # "Trying" \/ unsent \/ aborted

\* unregisterVoIPLink: "Unregister the underlying VoIPLink".  A disabled account
\* is not registered again.
DisabledIsQuiet ==
    AtRest /\ ~account.enabled /\ (\A r \in Regcs : ~InFlight(r)) =>
        \A r \in Regcs : ~Armed(r)

\* REGISTRATION_STATUS: "The account registration status".  What is shown when
\* nothing is on its way is what the registrar knows.
ShownUnregistered ==
    /\ AtRest /\ account.state = "Unregistered" /\ \A r \in Regcs : ~InFlight(r)
    => \A r \in Regcs : ~Armed(r)

\* pjsip_regc_send: pj_assert(regc->current_op == REGC_IDLE).
NoAssertion == ~aborted
===============================================================================
