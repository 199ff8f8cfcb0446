----------------------------- MODULE RadioState -----------------------------
(***************************************************************************)
(* The radio state of the reference RIL (radio/ril/reference-ril.c):       *)
(* sState and s_closed, shared by the main loop that opens the AT channel, *)
(* the event loop thread that runs timed callbacks, the binder thread that *)
(* runs requests, and one AT reader thread for each connection.            *)
(*                                                                         *)
(* setRadioState changes sState under s_state_mutex but decides whether to *)
(* tell the framework, and whether to set the radio up, from what it reads *)
(* after it has released the mutex.  An AT command is one step: AtChannel  *)
(* models what happens inside it.                                          *)
(***************************************************************************)
EXTENDS Integers

CONSTANTS
  MaxOpens,      \* bound: connections to the modem
  MaxInputs,     \* bound: requests, hang-ups and switch-offs of the modem
  MaxPolls       \* bound: pending pollSIMState timers, more are not counted

ASSUME RadioAssumption ==
  /\ MaxOpens \in Nat \ {0} /\ MaxInputs \in Nat
  /\ MaxPolls \in Nat \ {0}

Event   == 0          \* the thread of eventLoop
Binder  == -1         \* configureRpcThreadpool(1, ...): one thread for requests
Readers == 1..MaxOpens
Threads == Readers \cup {Event, Binder}

RadioStates == {"UNAVAILABLE", "OFF", "ON"}
Requests    == {"powerOn", "powerOff", "shutdown"}

VARIABLES
  sState, s_closed,
  pc,            \* where each thread is
  newState,      \* argument of the thread's setRadioState
  oldState,      \* local of setRadioState
  back,          \* where the thread goes on after setRadioState
  mpc,           \* main loop
  woken,         \* s_state_cond was broadcast while the main loop waited
  inits, polls,  \* timers pending for initializeCallback and pollSIMState
  told,          \* an indication was begun since sState changed
  configured,    \* onRadioPowerOn sent its command since sState became ON
  link, modem,   \* connection and power state of the modem
  cfunLines,     \* "+CFUN: 0" lines that the reader has not seen
  opens, inputs

stateVars  == <<sState, s_closed>>
threadVars == <<pc, newState, oldState, back>>
mainVars   == <<mpc, opens>>
timerVars  == <<inits, polls>>
ghostVars  == <<told, configured>>
modemVars  == <<link, modem, cfunLines>>

vars == <<stateVars, threadVars, mainVars, woken, timerVars, ghostVars,
          modemVars, inputs>>

Init ==
  /\ sState = "UNAVAILABLE" /\ s_closed = 0
  /\ pc = [t \in Threads |-> IF t \in Readers THEN "notCreated" ELSE "idle"]
  /\ newState = [t \in Threads |-> "UNAVAILABLE"]
  /\ oldState = [t \in Threads |-> "UNAVAILABLE"]
  /\ back = [t \in Threads |-> "idle"]
  /\ mpc = "open" /\ woken = 0
  /\ inits = 0 /\ polls = 0
  /\ told = 1 /\ configured = 0
  /\ link = "down" /\ modem \in {"off", "on"} /\ cfunLines = 0
  /\ opens = 0 /\ inputs = 0

(* One more thing happens outside.                                         *)
Input == inputs < MaxInputs /\ inputs' = inputs + 1

Goto(t, l) == pc' = [pc EXCEPT ![t] = l]

(* A call of setRadioState(s) on thread t, which then goes on at l.        *)
CallSetRadioState(t, s, l) ==
  /\ Goto(t, "setRadioState")
  /\ newState' = [newState EXCEPT ![t] = s]
  /\ back' = [back EXCEPT ![t] = l]
  /\ UNCHANGED oldState

locals == <<newState, oldState, back>>

(* A local that will not be read again goes back to its initial value.     *)
Forget(f, t) == f' = [f EXCEPT ![t] = "UNAVAILABLE"]

(* setRadioState returns to its caller.                                    *)
Return(t) == Goto(t, back[t]) /\ back' = [back EXCEPT ![t] = "idle"]

-----------------------------------------------------------------------------
(* setRadioState.                                                          *)

(* Faulty: a closed channel does not override the new state.               *)
IgnoresClosed(s) == s

(* With the channel closed the only state left is UNAVAILABLE.             *)
Effective(s) == IF s_closed > 0 THEN "UNAVAILABLE" ELSE s

(* Faulty: only a change wakes the main loop.                              *)
BroadcastsOnChange(s) == sState # s

(* s_state_cond is broadcast on a change, and always once closed.          *)
Broadcasts(s) == sState # s \/ s_closed > 0

(* The part under s_state_mutex.                                           *)
SetLocked(t) ==
  /\ pc[t] = "setRadioState"
  /\ LET s == Effective(newState[t])
     IN  /\ oldState' = [oldState EXCEPT ![t] = sState]
         /\ sState' = s
         /\ woken' = IF Broadcasts(s) /\ mpc = "blocked" THEN 1 ELSE woken
         /\ told' = IF s = sState THEN told ELSE 0
         /\ configured' = IF s = "ON" /\ sState # "ON" THEN 0 ELSE configured
  /\ Goto(t, "compare") /\ Forget(newState, t)
  /\ UNCHANGED <<s_closed, back, mainVars, timerVars, modemVars, inputs>>

(* Faulty: only a change by the binder or the event loop is reported.      *)
NotFromReader(t) == sState # oldState[t] /\ t \notin Readers

(* if (sState != oldState), read again without the mutex.                  *)
Changed(t) == sState # oldState[t]

Compare(t) ==
  /\ pc[t] = "compare"
  /\ IF Changed(t) THEN Goto(t, "indicate") /\ UNCHANGED back ELSE Return(t)
  /\ Forget(oldState, t)
  /\ UNCHANGED <<stateVars, newState, mainVars, woken, timerVars, ghostVars,
                 modemVars, inputs>>

(* radioStateChangedInd asks for the state again, on this thread, and      *)
(* sends what it reads.                                                    *)
radioStateChangedInd(t) ==
  /\ pc[t] = "indicate"
  /\ told' = 1
  /\ Goto(t, "checkOn")
  /\ UNCHANGED <<stateVars, locals, mainVars, woken, timerVars, configured, modemVars, inputs>>

(* Faulty: the radio is set up only when a request switched it on.         *)
IsOnByRequest(t) == sState = "ON" /\ t = Binder

(* if (sState == RADIO_STATE_ON), a third read without the mutex.          *)
IsOn(t) == sState = "ON"

CheckOn(t) ==
  /\ pc[t] = "checkOn"
  /\ IF IsOn(t) THEN Goto(t, "onRadioPowerOn") /\ UNCHANGED back ELSE Return(t)
  /\ UNCHANGED <<stateVars, newState, oldState, mainVars, woken, timerVars, ghostVars,
                 modemVars, inputs>>

(* processLine runs onUnsolicited with s_commandmutex held: until it       *)
(* returns no AT command is sent or completed on another thread.           *)
ChannelFree == \A k \in Readers : back[k] # "read"

(* Faulty: a SIM that is not ready is polled again by two timers.          *)
PollsTwice(pending) == polls' = IF sState = "UNAVAILABLE" THEN pending + 2 ELSE pending

(* pollSIMState, which asks for the SIM only while the radio is            *)
(* UNAVAILABLE.  A SIM that is not ready is polled again later, and so is  *)
(* one whose AT+CPIN? failed; an absent or a ready one is not.             *)
pollSIMState(pending) ==
  polls' \in IF sState # "UNAVAILABLE" \/ pending = MaxPolls THEN {pending}
             ELSE {pending, pending + 1}

(* AT%CGFPCCFG=1 is sent, except on a reader thread, which may not send;   *)
(* pollSIMState follows.                                                   *)
onRadioPowerOn(t) ==
  /\ pc[t] = "onRadioPowerOn"
  /\ t \notin Readers => ChannelFree
  /\ configured' = IF t \in Readers THEN configured ELSE 1
  /\ pollSIMState(polls)
  /\ Return(t)
  /\ UNCHANGED <<stateVars, newState, oldState, mainVars, woken, inits, told,
                 modemVars, inputs>>

setRadioStateStep(t) ==
  \/ SetLocked(t) \/ Compare(t) \/ radioStateChangedInd(t) \/ CheckOn(t)
  \/ onRadioPowerOn(t)

-----------------------------------------------------------------------------
(* AT commands about the power of the modem, as one step of thread t.  On  *)
(* a connection that is gone they fail; AT+CFUN=1 may fail and yet switch  *)
(* the modem on.                                                           *)

CFUN0(ok) ==
  /\ ok => link = "up"
  /\ modem' = IF ok THEN "off" ELSE modem
  /\ UNCHANGED <<link, cfunLines>>

CFUN1(ok) ==
  /\ ok => link = "up"
  /\ \/ ok /\ modem' = "on"
     \/ ~ok /\ link = "up" /\ modem' = "on"
     \/ ~ok /\ modem' = modem
  /\ UNCHANGED <<link, cfunLines>>

(* What isRadioOn may return: -1 on any error.                             *)
isRadioOn == IF link = "up" THEN {-1, IF modem = "on" THEN 1 ELSE 0} ELSE {-1}

-----------------------------------------------------------------------------
(* Event loop thread: the timed callbacks.                                 *)

StartInitialize ==
  /\ pc[Event] = "idle" /\ inits > 0
  /\ inits' = inits - 1
  /\ CallSetRadioState(Event, "OFF", "initialize")
  /\ UNCHANGED <<stateVars, mainVars, woken, polls, ghostVars, modemVars, inputs>>

(* initializeCallback goes on with at_handshake, probeForModemMode and the *)
(* configuration commands, whose results it does not check, and then asks  *)
(* whether the radio is on.                                                *)
FinishInitialize ==
  /\ pc[Event] = "initialize" /\ ChannelFree
  /\ \E r \in isRadioOn :
       IF r > 0 THEN CallSetRadioState(Event, "ON", "idle")
       ELSE Goto(Event, "idle") /\ UNCHANGED locals
  /\ UNCHANGED <<stateVars, mainVars, woken, timerVars, ghostVars, modemVars,
                 inputs>>

PollTimer ==
  /\ pc[Event] = "idle" /\ polls > 0
  /\ sState = "UNAVAILABLE" => ChannelFree
  /\ pollSIMState(polls - 1)
  /\ UNCHANGED <<stateVars, threadVars, mainVars, woken, inits, ghostVars,
                 modemVars, inputs>>

-----------------------------------------------------------------------------
(* Binder thread: onRequest, requestRadioPower, requestShutdown.           *)

(* Every request but GET_SIM_STATUS is refused while the radio is          *)
(* UNAVAILABLE; while it is OFF, RADIO_POWER is let through and SHUTDOWN   *)
(* is refused.                                                             *)
onRequest(r) ==
  /\ pc[Binder] = "idle" /\ Input
  /\ Goto(Binder, IF sState = "UNAVAILABLE" \/ (sState = "OFF" /\ r = "shutdown")
                  THEN "idle" ELSE r)
  /\ UNCHANGED <<stateVars, locals, mainVars, woken, timerVars, ghostVars,
                 modemVars>>

(* The handlers read sState again before they send anything.               *)
requestRadioPowerOff ==
  /\ pc[Binder] = "powerOff"
  /\ Goto(Binder, IF sState # "OFF" THEN "CFUN=0" ELSE "idle")
  /\ UNCHANGED <<stateVars, locals, mainVars, woken, timerVars, ghostVars,
                 modemVars, inputs>>

requestRadioPowerOn ==
  /\ pc[Binder] = "powerOn"
  /\ Goto(Binder, IF sState = "OFF" THEN "CFUN=1" ELSE "idle")
  /\ UNCHANGED <<stateVars, locals, mainVars, woken, timerVars, ghostVars,
                 modemVars, inputs>>

SendCfun0(ok) ==
  /\ pc[Binder] = "CFUN=0" /\ ChannelFree
  /\ CFUN0(ok)
  /\ IF ok THEN CallSetRadioState(Binder, "OFF", "idle")
     ELSE Goto(Binder, "idle") /\ UNCHANGED locals
  /\ UNCHANGED <<stateVars, mainVars, woken, timerVars, ghostVars, inputs>>

SendCfun1(ok) ==
  /\ pc[Binder] = "CFUN=1" /\ ChannelFree
  /\ CFUN1(ok)
  /\ IF ok THEN CallSetRadioState(Binder, "ON", "idle")
     ELSE Goto(Binder, "isRadioOn") /\ UNCHANGED locals
  /\ UNCHANGED <<stateVars, mainVars, woken, timerVars, ghostVars, inputs>>

(* After a failed AT+CFUN=1 the modem is asked whether it is on anyway.    *)
CheckRadioOn ==
  /\ pc[Binder] = "isRadioOn" /\ ChannelFree
  /\ \E r \in isRadioOn :
       IF r = 1 THEN CallSetRadioState(Binder, "ON", "idle")
       ELSE Goto(Binder, "idle") /\ UNCHANGED locals
  /\ UNCHANGED <<stateVars, mainVars, woken, timerVars, ghostVars, modemVars,
                 inputs>>

(* requestShutdown ignores the result of its AT+CFUN=0.                    *)
requestShutdown ==
  /\ pc[Binder] = "shutdown"
  /\ Goto(Binder, IF sState # "OFF" THEN "shutdownCFUN=0" ELSE "idle")
  /\ UNCHANGED <<stateVars, locals, mainVars, woken, timerVars, ghostVars,
                 modemVars, inputs>>

ShutdownCfun0(ok) ==
  /\ pc[Binder] = "shutdownCFUN=0" /\ ChannelFree
  /\ CFUN0(ok)
  /\ CallSetRadioState(Binder, "UNAVAILABLE", "idle")
  /\ UNCHANGED <<stateVars, mainVars, woken, timerVars, ghostVars, inputs>>

-----------------------------------------------------------------------------
(* Reader threads: onUnsolicited and onATReaderClosed.                     *)

(* Unsolicited lines are ignored while the radio is UNAVAILABLE; of the    *)
(* others only "+CFUN: 0" is about the radio state.                        *)
onUnsolicited(k) ==
  /\ pc[k] = "read" /\ k = opens /\ cfunLines > 0
  /\ cfunLines' = cfunLines - 1
  /\ IF sState = "UNAVAILABLE" THEN UNCHANGED threadVars
     ELSE CallSetRadioState(k, "OFF", "read")
  /\ UNCHANGED <<stateVars, mainVars, woken, timerVars, ghostVars, link, modem, inputs>>

(* End of file: at_close, s_closed = 1 without the mutex, and the state.   *)
onATReaderClosed(k) ==
  /\ pc[k] = "read" /\ k = opens /\ cfunLines = 0 /\ link = "down"
  /\ s_closed' = 1
  /\ CallSetRadioState(k, "UNAVAILABLE", "exited")
  /\ UNCHANGED <<sState, mainVars, woken, timerVars, ghostVars, modemVars, inputs>>

-----------------------------------------------------------------------------
(* Main loop.                                                              *)

mainOther == <<threadVars, timerVars, ghostVars, inputs>>

OpenChannel ==
  /\ mpc = "open" /\ opens < MaxOpens
  /\ opens' = opens + 1
  /\ s_closed' = 0
  /\ mpc' = "at_open"
  /\ UNCHANGED <<sState, woken, modemVars, mainOther>>

at_open ==
  /\ mpc = "at_open"
  /\ link' = "up" /\ cfunLines' = 0
  /\ Goto(opens, "read")
  /\ mpc' = "schedule"
  /\ UNCHANGED <<stateVars, locals, opens, woken, timerVars, ghostVars, modem, inputs>>

(* RIL_requestTimedCallback(initializeCallback); the sleep(1) after it     *)
(* only makes it likely that the callback has run.                         *)
ScheduleInitialize ==
  /\ mpc = "schedule"
  /\ inits' = inits + 1
  /\ mpc' = "waitForClose"
  /\ UNCHANGED <<stateVars, threadVars, opens, woken, polls, ghostVars, modemVars,
                 inputs>>

(* The loop of waitForClose: s_closed is tested with s_state_mutex held,   *)
(* and waiting releases the mutex in the same step.                        *)
waitForClose ==
  /\ \/ mpc = "waitForClose"
     \/ mpc = "blocked" /\ woken = 1
  /\ mpc' = IF s_closed = 0 THEN "blocked" ELSE "open"
  /\ woken' = 0
  /\ UNCHANGED <<stateVars, opens, modemVars, mainOther>>

-----------------------------------------------------------------------------
(* The modem.                                                              *)

modemOther == <<stateVars, threadVars, mainVars, woken, timerVars, ghostVars>>

ModemSwitchesOff ==
  /\ link = "up" /\ modem = "on" /\ Input
  /\ modem' = "off"
  /\ cfunLines' = cfunLines + 1
  /\ UNCHANGED <<link, modemOther>>

ModemHangup ==
  /\ link = "up" /\ Input
  /\ link' = "down"
  /\ UNCHANGED <<modem, cfunLines, modemOther>>

-----------------------------------------------------------------------------
EventStep == StartInitialize \/ FinishInitialize \/ PollTimer

BinderStep ==
  \/ requestRadioPowerOff \/ requestRadioPowerOn \/ CheckRadioOn \/ requestShutdown
  \/ \E ok \in BOOLEAN : SendCfun0(ok) \/ SendCfun1(ok) \/ ShutdownCfun0(ok)

ReaderStep(k) == onUnsolicited(k) \/ onATReaderClosed(k)

MainStep == OpenChannel \/ at_open \/ ScheduleInitialize \/ waitForClose

(* Faults of the modem are over and everything it caused has been dealt    *)
(* with; the main loop stays blocked on a channel that is open.            *)
Idle ==
  /\ \A t \in Threads : pc[t] \in {"idle", "read", "exited", "notCreated"}
  /\ mpc \in {"blocked", "open"} /\ inits = 0
  /\ UNCHANGED vars

Next ==
  \/ \E t \in Threads : setRadioStateStep(t)
  \/ EventStep
  \/ \E r \in Requests : onRequest(r)
  \/ BinderStep
  \/ \E k \in Readers : ReaderStep(k)
  \/ MainStep
  \/ ModemSwitchesOff \/ ModemHangup
  \/ Idle

Spec == Init /\ [][Next]_vars

(* Every thread that can take a step takes one; requests and faults of the *)
(* modem need not happen.                                                  *)
Fairness ==
  /\ \A t \in Threads : WF_vars(setRadioStateStep(t))
  /\ WF_vars(EventStep)
  /\ WF_vars(BinderStep)
  /\ \A k \in Readers : WF_vars(ReaderStep(k))
  /\ WF_vars(MainStep)

FairSpec == Spec /\ Fairness

-----------------------------------------------------------------------------
(* Properties.                                                             *)

(* Types of the variables.                                                 *)
TypeOK ==
  /\ sState \in RadioStates /\ s_closed \in {0, 1}
  /\ pc \in [Threads -> {"notCreated", "idle", "read", "exited", "initialize", "powerOn",
                         "powerOff", "shutdown", "CFUN=0", "CFUN=1", "isRadioOn",
                         "shutdownCFUN=0", "setRadioState", "compare", "indicate", "checkOn", "onRadioPowerOn"}]
  /\ newState \in [Threads -> RadioStates]
  /\ oldState \in [Threads -> RadioStates]
  /\ back \in [Threads -> {"idle", "read", "exited", "initialize"}]
  /\ mpc \in {"open", "at_open", "schedule", "waitForClose", "blocked"}
  /\ woken \in {0, 1}
  /\ inits \in Nat /\ polls \in 0..MaxPolls
  /\ told \in {0, 1} /\ configured \in {0, 1}
  /\ link \in {"up", "down"} /\ modem \in {"off", "on"} /\ cfunLines \in Nat
  /\ opens \in 0..MaxOpens /\ inputs \in 0..MaxInputs

(* "If we're closed, the only reasonable state is RADIO_STATE_UNAVAILABLE" *)
(* (setRadioState): from the moment the reader that closed the channel has *)
(* set the state, no late request or callback brings another one back      *)
(* while the channel stays closed.                                         *)
ClosedMeansUnavailable ==
  s_closed = 1 /\ pc[opens] # "setRadioState" => sState = "UNAVAILABLE"

(* No change of sState goes unreported: once no thread is between its      *)
(* write and its comparison, an indication has been begun after the last   *)
(* change, although each thread compares without the mutex.                *)
ChangeIsIndicated ==
  (\A t \in Threads : pc[t] \notin {"compare", "indicate"}) => told = 1

(* A radio that is ON has been set up by onRadioPowerOn, on a thread that  *)
(* may send AT commands, or is about to be.                                *)
PowerOnSetUp ==
  /\ sState = "ON"
  /\ \A t \in Threads :
       pc[t] \notin {"compare", "indicate", "checkOn", "onRadioPowerOn"}
  => configured = 1

(* A closed channel is opened again: waitForClose misses no wakeup.        *)
ReopensAfterClose == (s_closed = 1 /\ opens < MaxOpens) ~> (s_closed = 0)

(* "Currently, this doesn't happen": onRadioPowerOn is not called from the *)
(* AT reader thread.                                                       *)
NoPowerOnOnReader == \A k \in Readers : pc[k] # "onRadioPowerOn"

=============================================================================
